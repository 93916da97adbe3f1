-------------------------- MODULE WorkerPlacement ---------------------------
(***************************************************************************)
(* Where the worker processes of each resource pool run: the check that    *)
(* the cluster has room (ResourcePoolManager), the placement groups Ray    *)
(* makes for a pool, each on one node, and the workers a RayWorkerGroup    *)
(* creates in them, with their ranks and the names they can be found by.   *)
(***************************************************************************)
EXTENDS Integers, Sequences, FiniteSets, SequencesExt, FiniteSetsExt, Functions

VARIABLE placed   \* for each pool the nodes of its placement groups, in order of request

(* gpus: of each node, the nodes numbered in the order of their IP strings.*)
(* order: the place of each node among those the check looks at.  pools:   *)
(* groups (nodes) and size (processes on each) of each pool; the driver's  *)
(* own pool is the first.                                                  *)
PlacementInit(pools) == placed = [p \in DOMAIN pools |-> << >>]

World(pool) == pool.groups * pool.size

(* The nodes the check reserves for a pool: the first that have room, each *)
(* for one group.                                                          *)
Reserved(free, order, pool) ==
  LET fit == {k \in DOMAIN free : free[k] >= pool.size}
  IN  {k \in fit : Cardinality({j \in fit : order[j] < order[k]}) < pool.groups}

(* _check_resource_available                                               *)
AfterReserving(free, order, pool) ==
  [k \in DOMAIN free |-> IF k \in Reserved(free, order, pool) THEN free[k] - pool.size ELSE free[k]]

Satisfiable(gpus, order, pools) ==
  LET Reserve(free, pool) == AfterReserving(free, order, pool)
      free(p) == FoldLeft(Reserve, gpus, SubSeq(pools, 1, p - 1))
  IN  /\ FoldFunction(+, 0, gpus) >= FoldFunction(+, 0, [p \in DOMAIN pools |-> World(pools[p])])
      /\ \A p \in DOMAIN pools : Cardinality(Reserved(free(p), order, pools[p])) = pools[p].groups

-----------------------------------------------------------------------------
(* Ray, external: a placement group is made on any node that has room for  *)
(* all its processes; the pools are requested one after the other.         *)

FreeGpus(k, gpus, pools) ==
  gpus[k] - FoldFunction(+, 0,
              [p \in DOMAIN pools |->
                 pools[p].size * Cardinality({i \in DOMAIN placed[p] : placed[p][i] = k})])

Ready(p, pools) == Len(placed[p]) = pools[p].groups
AllPlaced(pools) == \A p \in DOMAIN pools : Ready(p, pools)

PlaceGroup(gpus, pools) ==
  \E p \in DOMAIN pools, k \in DOMAIN gpus :
    /\ ~ Ready(p, pools) /\ \A q \in 1 .. p - 1 : Ready(q, pools)
    /\ FreeGpus(k, gpus, pools) >= pools[p].size
    /\ placed' = [placed EXCEPT ![p] = Append(@, k)]

-----------------------------------------------------------------------------
(* The workers of a pool, by rank: group after group in the order of the   *)
(* nodes' IPs.  The name is found by its prefix, which the pool has.       *)

SortedByIp(nodes) == SortSeq(nodes, <)
NodeOfGroup(p, pg) == SortedByIp(placed[p])[pg + 1]

WorkerOfRank(p, pool, rank) ==
  LET pg == rank \div pool.size
  IN  [name |-> [prefix |-> p, pg |-> pg, local |-> rank % pool.size], rank |-> rank,
       node |-> NodeOfGroup(p, pg)]

WorkersOf(p, pool) == {WorkerOfRank(p, pool, rank) : rank \in 0 .. World(pool) - 1}
AllWorkers(pools) == UNION {WorkersOf(p, pools[p]) : p \in DOMAIN pools}
=============================================================================
