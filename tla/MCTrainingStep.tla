--------------------------- MODULE MCTrainingStep ---------------------------
(* Instances of TrainingStep for TLC.                                      *)
EXTENDS TrainingStep, TLC

Base ==
  [world |-> 2, sp |-> 1, pp |-> 1, tp |-> 2, mini |-> 4, shuffle |-> FALSE, micro |-> 0,
   logMicro |-> 0, maxTokens |-> 4, epochs |-> 1, adv |-> "gae", n |-> 2, balance |-> TRUE,
   critic |-> TRUE, refInActor |-> FALSE, rm |-> TRUE, warmup |-> 1, paramOffload |-> TRUE,
   optOffload |-> TRUE, freeCache |-> TRUE, async |-> FALSE, lora |-> FALSE, layered |-> FALSE,
   sleepLevel |-> 2, dummyLoad |-> TRUE, megatron |-> FALSE]

(* Four rows on two ranks with dynamic micro-batches; one data parallel    *)
(* rank of two that share sequences, and mini-batches that do not divide   *)
(* the batch; Megatron with two pipeline stages, two shuffled epochs and   *)
(* micro-batches of one row; an adapter on an engine that keeps its        *)
(* weights; agent mode; an engine that keeps its cache; four ranks.        *)
MCConfigs ==
  { Base,
    [Base EXCEPT !.sp = 2, !.mini = 3, !.tp = 1, !.maxTokens = 3, !.balance = FALSE,
                 !.adv = "grpo_passk", !.rm = FALSE],
    [Base EXCEPT !.megatron = TRUE, !.world = 4, !.pp = 2, !.shuffle = TRUE, !.micro = 1,
                 !.epochs = 2, !.critic = FALSE, !.optOffload = FALSE, !.adv = "grpo", !.n = 3],
    [Base EXCEPT !.lora = TRUE, !.layered = TRUE, !.dummyLoad = FALSE, !.refInActor = TRUE,
                 !.critic = FALSE, !.mini = 2, !.adv = "rloo", !.rm = FALSE],
    [Base EXCEPT !.async = TRUE, !.micro = 2, !.logMicro = 1, !.warmup = 2, !.paramOffload = FALSE],
    [Base EXCEPT !.freeCache = FALSE, !.sleepLevel = 1, !.critic = FALSE, !.maxTokens = 5,
                 !.adv = "opo", !.n = 4, !.rm = FALSE],
    [Base EXCEPT !.world = 4, !.sp = 2, !.tp = 4, !.critic = FALSE, !.adv = "gpg", !.n = 3,
                 !.rm = FALSE] }

(* Two responses equally far above the average of their pairs, one in the  *)
(* wrong language, and one of a pair without statistics.                   *)
Said(sim, truth, asked, appears) ==
  [sim |-> sim, truth |-> truth, asked |-> asked, appears |-> appears]
MCResponses ==
  << Said(4, "en", "en", "en"), Said(2, "en", "sw", "sw"),
     Said(4, "sw", "en", "sw"), Said(1, "sw", "sw", "sw") >>
MCPairStats ==
  ({"en"} :> [count |-> 2, mean |-> 3]) @@ ({"en", "sw"} :> [count |-> 2, mean |-> 1])

(* Observations between the generated tokens and padding after them, with  *)
(* values that must not matter.                                            *)
MCMasks == << <<1, 0, 1, 0>>, <<1, 1, 1, 1>>, <<1, 0, 0, 1>>, <<1, 1, 0, 0>> >>
MCTokenValues == << <<2, 5, 1, 7>>, <<1, 0, 3, 1>>, <<4, 6, 5, 2>>, <<3, 1, 8, 9>> >>

MCLens == [1 .. 4 -> {1, 2, 4}]

(* EqualWeights needs full micro-batches.                                  *)
ASSUME MCMicroBatchesFill == MicroBatchesFill
=============================================================================
