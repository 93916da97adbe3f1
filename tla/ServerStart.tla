---------------------------- MODULE ServerStart -----------------------------
(***************************************************************************)
(* How AgentLoopManager starts one server for each data parallel rank of   *)
(* the rollout, again if its address is in use, and how the engine of a    *)
(* server finds the workers it drives (async_server.py,                    *)
(* vllm_async_server.py, async_sglang_server.py).                          *)
(***************************************************************************)
EXTENDS WorkerPlacement

VARIABLES
  server,      \* the server process of each rank
  unready,     \* unready_dp_ranks
  asked,       \* ranks whose server was started and has not told its address
  engine,      \* the workers the engine of each rank drives, {} before init_engine
  collisions   \* bound: how often an address may still be in use

serverVars == <<server, unready, asked, engine, collisions>>

ServersInit(ranks, budget) ==
  /\ server = [s \in ranks |-> "none"] /\ unready = ranks /\ asked = {}
  /\ engine = [s \in ranks |-> {}] /\ collisions = budget

ServersAlive == \A s \in DOMAIN server : server[s] # "dead"

(* A server for each rank that has none yet.                               *)
LaunchServers ==
  /\ asked = {} /\ unready # {}
  /\ server' = [s \in DOMAIN server |-> IF s \in unready THEN "starting" ELSE server[s]]
  /\ asked' = unready
  /\ UNCHANGED <<unready, engine, collisions>>

(* The lifespan of the application begins and sets server_ready, before    *)
(* the port is bound; if it is in use by then the process is going to exit.*)
ServerReady(s) ==
  /\ server[s] = "starting"
  /\ \/ server' = [server EXCEPT ![s] = "up"] /\ UNCHANGED collisions
     \/ /\ collisions > 0
        /\ server' = [server EXCEPT ![s] = "doomed"] /\ collisions' = collisions - 1
  /\ UNCHANGED <<unready, asked, engine>>

ServerExits(s) ==
  /\ server[s] = "doomed"
  /\ server' = [server EXCEPT ![s] = "dead"]
  /\ UNCHANGED <<unready, asked, engine, collisions>>

(* get_server_address returns, which only waits for server_ready.          *)
AddressKnown(s) ==
  /\ s \in asked /\ server[s] \in {"up", "doomed"}
  /\ asked' = asked \ {s} /\ unready' = unready \ {s}
  /\ UNCHANGED <<server, engine, collisions>>

(* It raises, since the process has exited; its rank stays unready.        *)
KillServer(s) ==
  /\ s \in asked /\ server[s] = "dead"
  /\ asked' = asked \ {s}
  /\ UNCHANGED <<server, unready, engine, collisions>>

-----------------------------------------------------------------------------
(* The actors with the prefix of the worker group, sorted by group and     *)
(* local rank, of which each engine takes its slice.                       *)
NamedActors(pools) == {a \in AllWorkers(pools) : a.name.prefix = 1}

(* Mutation: the local rank counts before the group.                       *)
BeforeByLocal(a, b) ==
  a.name.local < b.name.local \/ (a.name.local = b.name.local /\ a.name.pg < b.name.pg)

Before(a, b) == a.name.pg < b.name.pg \/ (a.name.pg = b.name.pg /\ a.name.local < b.name.local)
IndexOf(a, actors) == Cardinality({b \in actors : Before(b, a)})

(* _get_model_runner_workers                                               *)
ModelRunnerWorkers(s, pools, tp) ==
  LET actors == NamedActors(pools)
  IN  {a \in actors : IndexOf(a, actors) \in s * tp .. (s + 1) * tp - 1}

(* All ranks have a server: the engines are made, which asserts the number *)
(* of actors and raises if one of the servers has exited since.            *)
EnginesReady == asked = {} /\ unready = {} /\ \A s \in DOMAIN server : engine[s] = {}

InitEngines(pools, tp) ==
  /\ EnginesReady /\ ServersAlive
  /\ Cardinality(NamedActors(pools)) = Cardinality(DOMAIN server) * tp
  /\ engine' = [s \in DOMAIN server |-> ModelRunnerWorkers(s, pools, tp)]
  /\ UNCHANGED <<server, unready, asked, collisions>>

InitRaises(pools, tp) ==
  /\ EnginesReady
  /\ ~ ServersAlive \/ Cardinality(NamedActors(pools)) # Cardinality(DOMAIN server) * tp
  /\ UNCHANGED serverVars

(* The node a server is bound to: that of the first worker of its rank in  *)
(* the order of the worker group.                                          *)
NodeOfServer(s, pools, tp) == WorkerOfRank(1, pools[1], s * tp).node

(* _init_zeromq: workers of a group that fits a node listen on a file of it.*)
SocketType(pools, tp) == IF tp <= pools[1].size THEN "ipc" ELSE "tcp"
=============================================================================
