--------------------------- MODULE MCAgentRollout ---------------------------
(* Small instances of AgentRollout. *)
EXTENDS AgentRollout

(* The model takes prompts of two tokens.                                  *)
Limits(length, assistant, user, interaction) ==
  [response_length |-> length, assistant |-> assistant, user |-> user, interaction |-> interaction,
   model |-> length + 2]

Plain == [kind |-> "plain", calls |-> 1, threads |-> 1, limit |-> 0]
Search(calls, threads, limit) ==
  [kind |-> "search", calls |-> calls, threads |-> threads, limit |-> limit]

(* Servers of one worker each, on one node.                                *)
OnePool == [gpus |-> <<2>>, order |-> <<1>>, pools |-> <<[groups |-> 1, size |-> 2]>>, tp |-> 1,
            collisions |-> 0, freeCache |-> TRUE]

TwoPools ==
  [OnePool EXCEPT !.gpus = <<4>>, !.pools = <<[groups |-> 1, size |-> 2], [groups |-> 1, size |-> 2]>>]

(* Four single turn rows on two workers, scored by two ranks of a reward   *)
(* model, which may fail.                                                  *)
ModelRewards ==
  [kinds |-> <<"single", "single", "single", "single">>, workers |-> 2, reward |-> "model",
   start |-> TwoPools, ranks |-> 2, threads |-> 2, limits |-> Limits(2, 0, 0, FALSE), genLens |-> {3},
   obsLens |-> {1}, logprobs |-> FALSE, rounds |-> 1, mayFail |-> TRUE, tools |-> Plain]

(* Two tool rows on one worker with one thread for a reward function.      *)
ToolRows(limits) ==
  [ModelRewards EXCEPT !.kinds = <<"tool", "tool">>, !.workers = 1, !.reward = "function",
                       !.start = OnePool, !.threads = 1, !.limits = limits, !.genLens = {1, 2}, !.obsLens = {1},
                       !.logprobs = TRUE, !.mayFail = FALSE]

(* Two servers of two workers each, and an unused pool, on three nodes; two *)
(* addresses are in use.                                                   *)
Colliding ==
  [ToolRows(Limits(4, 1, 0, FALSE)) EXCEPT
     !.kinds = <<"single">>, !.rounds = 2, !.genLens = {1},
     !.start = [gpus |-> <<2, 2, 3>>, order |-> <<3, 1, 2>>, tp |-> 2, collisions |-> 2, freeCache |-> TRUE,
                pools |-> <<[groups |-> 2, size |-> 2], [groups |-> 1, size |-> 2]>>]]

(* Servers of two workers on two nodes each, and too few nodes.            *)
Spread == [Colliding EXCEPT !.start.pools = <<[groups |-> 4, size |-> 1]>>, !.start.gpus = <<1, 1, 2, 2>>,
                              !.start.order = <<2, 4, 1, 3>>, !.start.collisions = 0]

MCConfigs ==
  {ModelRewards, Colliding, [Colliding EXCEPT !.start.freeCache = FALSE],
   Spread, [Spread EXCEPT !.start.gpus = <<4>>, !.start.order = <<1>>],
   [ModelRewards EXCEPT !.kinds = <<"single", "single", "single">>, !.workers = 1],
   ToolRows(Limits(5, 1, 0, FALSE)), ToolRows(Limits(5, 0, 1, TRUE)),
   [ToolRows(Limits(3, 0, 0, TRUE)) EXCEPT !.reward = "later", !.kinds = <<"single", "tool">>,
                                           !.obsLens = {1, 3}, !.rounds = 2, !.logprobs = FALSE,
                                           !.mayFail = TRUE],
   [ToolRows(Limits(6, 0, 1, FALSE)) EXCEPT !.workers = 2, !.tools = Search(2, 2, 1),
                                            !.genLens = {1}],
   [ToolRows(Limits(6, 0, 2, FALSE)) EXCEPT !.tools = Search(2, 1, 0), !.genLens = {1},
                                            !.mayFail = TRUE],
   [ToolRows(Limits(6, 0, 1, FALSE)) EXCEPT !.tools = [Search(2, 1, 3) EXCEPT !.kind = "mcp"],
                                            !.genLens = {1}]}

(* Three rows on a worker with two threads, for three ranks.               *)
StallConfigs ==
  {[ModelRewards EXCEPT !.kinds = <<"single", "single", "single">>, !.workers = 1,
                        !.ranks = 3, !.mayFail = FALSE,
                        !.start = [OnePool EXCEPT !.gpus = <<1, 3>>, !.order = <<1, 2>>,
                          !.pools = <<[groups |-> 1, size |-> 1], [groups |-> 1, size |-> 3]>>]]}
=============================================================================
