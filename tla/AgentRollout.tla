---------------------------- MODULE AgentRollout ----------------------------
(***************************************************************************)
(* AgentLoopManager.generate_sequences with its agent loop workers: the    *)
(* rows of a batch are divided over the workers, every row runs its own    *)
(* agent loop, all of them at once, and gets a reward; the outputs are put *)
(* together in the order of the rows.  The engine, the tools and the       *)
(* interactions answer anything, at any time; tools may be limited.  Before*)
(* the first batch the workers are placed and the servers are started.     *)
(***************************************************************************)
EXTENDS ServerStart, ServerChoice, ToolConversation, RewardBatching, ToolLimits

CONSTANT Configs   \* configurations a behaviour may have

(* kinds: the agent of each row.  reward: "model" for a reward model with  *)
(* resources of its own (ranks of them), "function" for a reward function, *)
(* "later" if the trainer asks the reward model after the rollout.         *)
(* threads: of the default thread pool.  A row of the engine has a number  *)
(* of tokens in genLens, an answer of a tool or a user one in obsLens; a   *)
(* turn makes up to tools.calls tool calls.  A bucket that never holds a   *)
(* whole token would never let a call through.  start.order: the place of  *)
(* each node in available_resources_per_node.  mayFail: batches of rewards,*)
(* reward functions, interactions and the release of tools may raise.      *)
ASSUME RolloutConfigsAssumption ==
  \A c \in Configs :
    /\ DOMAIN c = {"kinds", "workers", "reward", "ranks", "threads", "limits", "genLens",
                   "obsLens", "logprobs", "rounds", "mayFail", "tools", "start"}
    /\ c.tools \in [kind : {"plain", "search", "mcp"}, calls : Nat, threads : Nat, limit : Nat]
    /\ c.tools.kind = "search" => c.tools.threads > 0
    /\ c.tools.kind = "mcp" => c.tools.limit >= Token
    /\ c.kinds \in Seq({"single", "tool"})
    /\ c.limits \in [response_length : Nat, assistant : Nat, user : Nat, interaction : BOOLEAN,
                     model : Nat]
    /\ c.genLens \subseteq Nat \ {0} /\ c.obsLens \subseteq Nat /\ c.logprobs \in BOOLEAN
    /\ LET own == c.start.pools[1]
       IN  /\ 1 \in DOMAIN c.start.pools /\ {own.groups, own.size, c.start.tp} \subseteq Nat \ {0}
           /\ Servers = 0 .. World(own) \div c.start.tp - 1
           /\ c.reward = "later" => c.ranks = World(own)
    /\ DOMAIN c.start.order = DOMAIN c.start.gpus /\ IsInjective(c.start.order)
    /\ c.ranks \in Nat \ {0}
    /\ c.reward = "model" => c.ranks = World(c.start.pools[2])
    /\ c.workers \in Nat \ {0} /\ 0 .. c.workers - 1 \subseteq Managers /\ c.threads > 0
    /\ Len(c.kinds) % c.workers = 0
    /\ Len(c.kinds) \div c.workers <= CacheSize

VARIABLES
  cfg, round,
  manager,     \* where generate_sequences of the manager is
  conv,        \* the conversation of each row
  inflight,    \* rows that wait for an answer of the engine
  served,      \* servers that served a row in this round
  output       \* the batch generate_sequences returned last

startVars == <<placed, serverVars>>
vars == <<cfg, round, manager, conv, inflight, served, output, chooseVars, rewardVars, toolVars,
          startVars>>
batchVars == <<cfg, round, manager, output>>

RowSeq == [i \in 1 .. Len(cfg.kinds) |-> i]
Rows == DOMAIN cfg.kinds
Workers == 0 .. cfg.workers - 1
RowsOf(w) == Chunk(RowSeq, cfg.workers)[w]
OwnRows(w) == ToSet(RowsOf(w))
WorkerOf(r) == (r - 1) \div (Len(cfg.kinds) \div cfg.workers)
Model == cfg.reward = "model"

CallsOf(rows) == rows \X (1 .. cfg.tools.calls)
Started(r) == {c \in CallsOf({r}) : call[c] # "none"}

RowsWithState(s) == {r \in Rows : conv[r].state = s}

Init ==
  /\ cfg \in Configs /\ round = 0 /\ manager = "starting"
  /\ conv = [r \in Rows |-> [NewConversation(cfg.kinds[r]) EXCEPT !.state = "none"]]
  /\ inflight = {} /\ served = [r \in Rows |-> {}] /\ output = << >>
  /\ ChooseInit /\ RewardInit(Rows, Workers) /\ ToolsInit(CallsOf(Rows), Workers, cfg.tools)
  /\ PlacementInit(cfg.start.pools) /\ ServersInit(Servers, cfg.start.collisions)

-----------------------------------------------------------------------------
(* The manager *)

(* wake_up and sleep go to every server, if the cache is to be freed.      *)
Reachable == cfg.start.freeCache => ServersAlive

(* The batch has to be divisible by the ranks of the reward model, also if *)
(* the trainer asks it later, and wake_up raises if a server is gone.      *)
Divisible == cfg.reward # "function" => Len(cfg.kinds) % cfg.ranks = 0

RejectBatch ==
  /\ manager = "idle" /\ round < cfg.rounds
  /\ ~ (Divisible /\ Reachable)
  /\ manager' = "raised"
  /\ UNCHANGED <<cfg, round, conv, inflight, served, output, chooseVars, rewardVars, toolVars, startVars>>

StartRound ==
  /\ manager = "idle" /\ round < cfg.rounds
  /\ Divisible /\ Reachable
  /\ manager' = "running" /\ round' = round + 1
  /\ conv' = [r \in Rows |-> NewConversation(cfg.kinds[r])]
  /\ served' = [r \in Rows |-> {}]
  /\ reward' = [r \in Rows |-> "none"] /\ answer' = [r \in Rows |-> 0]
  /\ UNCHANGED <<cfg, inflight, output, chooseVars, pool, executorVars, toolVars, startVars>>

(* What a row adds to the batch: _run_agent_loop and _postprocess.         *)
OutputRow(r) == [row |-> r, score |-> answer[r], sequences |-> Output(conv[r], cfg.limits)]

RowDone(r) ==
  conv[r].state = "terminated" /\ reward[r] = IF cfg.reward = "later" THEN "none" ELSE "scored"

(* gather of each worker, ray.get of the manager, concat of the outputs.   *)
EndRound ==
  /\ manager = "running" /\ Reachable /\ \A r \in Rows : RowDone(r)
  /\ output' = FlattenSeq([w \in 1 .. cfg.workers |->
                 [i \in DOMAIN RowsOf(w - 1) |-> OutputRow(RowsOf(w - 1)[i])]])
  /\ manager' = "idle"
  /\ UNCHANGED <<cfg, round, conv, inflight, served, chooseVars, rewardVars, toolVars, startVars>>

EngineGone(r) == \E s \in served[r] : server[s] = "dead"

(* What max_model_len leaves to the engine, which refuses a longer prompt. *)
Room(r) == cfg.limits.model - Len(conv[r].prompt_ids)

(* A row may raise: its reward has failed, the server is gone or refuses   *)
(* the request, the interaction fails, or a tool when it is released or by *)
(* an answer that is no text (other failures of tools are answers).        *)
Raises(r) ==
  \/ reward[r] = "failed"
  \/ r \in inflight /\ (EngineGone(r) \/ Room(r) <= 0)
  \/ cfg.mayFail /\ conv[r].state = "interacting"
  \/ /\ cfg.mayFail /\ conv[r].state = "processing_tools"
     /\ \E c \in Started(r) : call[c] = "done"

(* The exception of a row fails its worker's gather and with it the call;  *)
(* so does the sleep at the end, if a server is gone.                      *)
RaiseRound ==
  /\ manager = "running"
  /\ \/ \E r \in Rows : Raises(r)
     \/ ~ Reachable /\ \A r \in Rows : RowDone(r)
  /\ manager' = "raised"
  /\ UNCHANGED <<cfg, round, conv, inflight, served, output, chooseVars, rewardVars, toolVars, startVars>>

-----------------------------------------------------------------------------
(* The agent loops *)

Prepare(r) ==
  /\ conv[r].state = "pending"
  /\ conv' = [conv EXCEPT ![r] = Pending(@, 1)]
  /\ UNCHANGED <<batchVars, inflight, served, chooseVars, rewardVars, toolVars, startVars>>

(* AsyncLLMServerManager.generate, up to its await.                        *)
AskEngine(r) ==
  /\ conv[r].state = "generating" /\ r \notin inflight
  /\ \E s \in Servers :
       /\ ChooseServer(WorkerOf(r), <<round, r>>, s)
       /\ served' = [served EXCEPT ![r] = @ \cup {s}]
  /\ inflight' = inflight \cup {r}
  /\ UNCHANGED <<batchVars, conv, rewardVars, toolVars, startVars>>

EngineAnswers(r) ==
  /\ r \in inflight /\ ~ EngineGone(r) /\ Room(r) > 0
  /\ \E len \in cfg.genLens, calls \in BOOLEAN :
       LET n == IF len < Room(r) THEN len ELSE Room(r)
       IN  /\ calls => conv[r].kind = "tool"
           /\ conv' = [conv EXCEPT ![r] = Generated(@, cfg.limits, n, calls, cfg.logprobs)]
  /\ inflight' = inflight \ {r}
  /\ UNCHANGED <<batchVars, served, chooseVars, rewardVars, toolVars, startVars>>

CallTools(r) ==
  /\ conv[r].state = "processing_tools" /\ Started(r) = {}
  /\ \E n \in 1 .. cfg.tools.calls, malformed \in SUBSET (1 .. cfg.tools.calls) :
       StartCalls({r} \X (1 .. n), {r} \X malformed, cfg.tools)
  /\ UNCHANGED <<batchVars, conv, inflight, served, chooseVars, rewardVars, startVars>>

ToolsAnswer(r) ==
  /\ conv[r].state = "processing_tools"
  /\ CollectAnswers(Started(r))
  /\ \E n \in cfg.obsLens : conv' = [conv EXCEPT ![r] = ToolsAnswered(@, cfg.limits, n)]
  /\ UNCHANGED <<batchVars, inflight, served, chooseVars, rewardVars, startVars>>

InteractionAnswers(r) ==
  /\ conv[r].state = "interacting"
  /\ \E n \in cfg.obsLens, terminate \in BOOLEAN :
       conv' = [conv EXCEPT ![r] = UserAnswered(@, n, terminate)]
  /\ UNCHANGED <<batchVars, inflight, served, chooseVars, rewardVars, toolVars, startVars>>

AskReward(r) ==
  /\ conv[r].state = "terminated" /\ cfg.reward # "later"
  /\ ComputeScore(WorkerOf(r), r)
  /\ UNCHANGED <<batchVars, conv, inflight, served, chooseVars, toolVars, startVars>>

(* When the manager has raised, the driver ends and every actor with it.   *)
AgentStep(r) ==
  \/ Prepare(r) \/ AskEngine(r) \/ EngineAnswers(r)
  \/ CallTools(r) \/ ToolsAnswer(r) \/ InteractionAnswers(r) \/ AskReward(r)

CallStep(c) ==
  \/ StartOnThread(c, CallsOf(OwnRows(WorkerOf(c[1]))), cfg.tools)
  \/ cfg.tools.kind = "search" /\ AcquirePermit(c)
  \/ cfg.tools.kind = "mcp" /\ AcquireToken(c, WorkerOf(c[1]), cfg.tools)
  \/ Answer(c, cfg.tools)

(* The limiter is an actor of its own and goes on between rollouts.        *)
ToolStep ==
  /\ \/ manager = "running" /\ \E c \in CallsOf(Rows) : CallStep(c)
     \/ manager # "raised" /\ ExecuteRelease
  /\ UNCHANGED <<batchVars, conv, inflight, served, chooseVars, rewardVars, startVars>>

RewardStep ==
  /\ \/ \E w \in Workers : StartThread(w, OwnRows(w), cfg.threads)
     \/ \E r \in Rows : \/ Model /\ SubmitTask(r)
                        \/ CallRewardManager(r, Model)
                        \/ cfg.mayFail /\ RewardManagerRaises(r, Model)
                        \/ RaiseInThread(r)
     \/ TakeTask \/ QueueEmpty(cfg.ranks) \/ FillBatch(cfg.ranks) \/ RunBatch(cfg.ranks)
     \/ cfg.mayFail /\ BatchFails
  /\ UNCHANGED <<batchVars, conv, inflight, served, chooseVars, toolVars, startVars>>

(* init_workers of the driver and __init__ of the manager.                 *)
RejectPools ==
  /\ manager = "starting" /\ ~ Satisfiable(cfg.start.gpus, cfg.start.order, cfg.start.pools)
  /\ manager' = "raised" /\ UNCHANGED startVars

StartWorkers ==
  /\ manager = "starting" /\ Satisfiable(cfg.start.gpus, cfg.start.order, cfg.start.pools)
  /\ PlaceGroup(cfg.start.gpus, cfg.start.pools)
  /\ UNCHANGED <<manager, serverVars>>

StartServers ==
  /\ manager = "starting" /\ AllPlaced(cfg.start.pools)
  /\ \/ LaunchServers \/ \E s \in Servers : ServerReady(s) \/ AddressKnown(s) \/ KillServer(s)
  /\ UNCHANGED <<manager, placed>>

EndStart ==
  /\ manager = "starting" /\ AllPlaced(cfg.start.pools)
  /\ \/ InitEngines(cfg.start.pools, cfg.start.tp) /\ manager' = "idle"
     \/ InitRaises(cfg.start.pools, cfg.start.tp) /\ manager' = "raised"
  /\ UNCHANGED placed

LoseServer ==
  /\ manager # "raised" /\ \E s \in Servers : ServerExits(s)
  /\ UNCHANGED <<manager, placed>>

StartStep ==
  /\ RejectPools \/ StartWorkers \/ StartServers \/ EndStart \/ LoseServer
  /\ UNCHANGED <<cfg, round, output, conv, inflight, served, chooseVars, rewardVars, toolVars>>

Next ==
  \/ StartStep
  \/ RejectBatch \/ StartRound \/ EndRound \/ RaiseRound
  \/ manager = "running" /\ \E r \in Rows : AgentStep(r)
  \/ manager = "running" /\ RewardStep
  \/ ToolStep

(* Every process and thread that can take a step does so in the end, and   *)
(* engine, tools and interactions answer.  No step is ever repeated within *)
(* a behaviour, so one condition on all of them says it.                   *)
Spec == Init /\ [][Next]_vars /\ WF_vars(Next)

-----------------------------------------------------------------------------
(* Properties *)

(* Every turn of a conversation is served by one server, whose prefix cache*)
(* knows the conversation: the LRU cache of _choose_server, which is       *)
(* shared by all rows of a worker, never evicts a row that still runs.     *)
OneServerPerRequest == \A r \in Rows : Cardinality(served[r]) <= 1

(* What the response mask of a finished row (tool_agent_loop.py:169) calls *)
(* generated is what the engine generated, token by token, after any number*)
(* of tool calls and user turns and after the cut to response_length, and  *)
(* the log probabilities line up with it; no answer is left in the prompt. *)
MaskMatchesTokens ==
  \A r \in RowsWithState("terminated") :
    LET out == Output(conv[r], cfg.limits)
    IN  /\ \A i \in DOMAIN out.prompt : out.prompt[i] = "prompt"
        /\ DOMAIN out.mask = DOMAIN out.response
        /\ \A i \in DOMAIN out.mask : out.mask[i] = IF out.response[i] = "generated" THEN 1 ELSE 0
        /\ out.logprobs = IF cfg.logprobs THEN Len(out.mask) ELSE 0

(* A turn limit is checked after a generation and before its turn is       *)
(* counted (tool_agent_loop.py:236), so one generation more than           *)
(* max_assistant_turns is made, and never two; user turns, counted for     *)
(* tools and interactions in different places, stay within their limit.    *)
TurnsBounded ==
  \A r \in Rows :
    conv[r].kind = "tool" =>
      /\ cfg.limits.assistant > 0 => conv[r].assistant_turns <= cfg.limits.assistant + 1
      /\ cfg.limits.user > 0 => conv[r].user_turns <= cfg.limits.user

(* However the threads of all workers and the executor interleave, a row   *)
(* is given the reward of that row and of no other, and the batch that     *)
(* comes back has the rows in the order of the prompts.                    *)
OwnScores ==
  /\ \A r \in Rows : reward[r] \in {"answered", "scored"} /\ (Model \/ reward[r] = "scored")
                       => answer[r] = r
  /\ \A i \in DOMAIN output :
       output[i].row = i /\ output[i].score = IF cfg.reward = "later" THEN 0 ELSE i

(* Of all agent loop workers together, no more tool calls run than the     *)
(* limit: whatever calls fail and however late their releases are executed,*)
(* no permit is lost and none given twice (SearchExecutionWorker.execute). *)
ToolsWithinLimit ==
  cfg.tools.kind = "search" /\ cfg.tools.limit > 0 =>
    /\ permits >= 0 /\ returning >= 0
    /\ permits + Cardinality(InStage(CallsOf(Rows), "running")) + returning = cfg.tools.limit

(* Whatever nodes Ray chose, each engine drives the workers whose ranks are*)
(* its tensor parallel group, whom it finds by their names in an order of  *)
(* its own (vllm_async_server.py:73); and if groups fill the nodes evenly, *)
(* which nothing checks, workers that listen on a file                     *)
(* (vllm_rollout_spmd.py:497) are on the node of their server.             *)
EnginesReachWorkers ==
  \A s \in Servers :
    engine[s] # {} =>
      /\ {a.rank : a \in engine[s]} = s * cfg.start.tp .. (s + 1) * cfg.start.tp - 1
      /\ cfg.start.pools[1].size % cfg.start.tp = 0
         /\ SocketType(cfg.start.pools, cfg.start.tp) = "ipc" =>
           \A a \in engine[s] : a.node = NodeOfServer(s, cfg.start.pools, cfg.start.tp)

(* The start ends, however often an address was in use, and so does each   *)
(* generate_sequences: every row comes to the end of its turns and to its  *)
(* reward, or what failed, a server, a reward, a tool, is raised.          *)
RolloutEnds == (manager \in {"starting", "running"}) ~> (manager \in {"idle", "raised"})

(* submit_task of the executor returns the output of the function.         *)
EverySubmissionReturns ==
  \A r \in UNION {DOMAIN c.kinds : c \in Configs} :
    (r \in Rows /\ reward[r] = "waiting") ~> (reward[r] \in {"answered", "scored"})
=============================================================================
