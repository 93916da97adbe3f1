---------------------------- MODULE ServerChoice ----------------------------
(***************************************************************************)
(* AsyncLLMServerManager of agent_loop.py: each agent loop worker has its  *)
(* own manager, which sends a request to the server with the fewest        *)
(* requests so far and every later turn of the request to the same server. *)
(***************************************************************************)
EXTENDS Integers, Sequences, FiniteSets

CONSTANTS
  Managers,   \* one for each agent loop worker
  Servers,    \* one for each data parallel rank of the rollout
  CacheSize   \* max_cache_size of the LRU cache

ASSUME ServersAssumption == Servers # {} /\ CacheSize \in Nat \ {0}

VARIABLES
  load,       \* load[m][s]: requests manager m gave to server s (weighted_serveres)
  sessions    \* sessions[m]: request_id_to_server, least recently used entry first

chooseVars == <<load, sessions>>

NewLoad == [m \in Managers |-> [s \in Servers |-> 0]]

ChooseInit == load = NewLoad /\ sessions = [m \in Managers |-> << >>]

(* The heap is built once and never sifted again.                          *)
LeastLoadedAtStart(m) == {s \in Servers : s = CHOOSE t \in Servers : TRUE}

(* The top of the heap; ties are broken by the hash of the handle, which   *)
(* may be any.                                                             *)
LeastLoaded(m) == {s \in Servers : \A t \in Servers : load[m][s] <= load[m][t]}

Known(m, request) == \E i \in 1 .. Len(sessions[m]) : sessions[m][i].request = request
SessionOf(m, request) ==
  CHOOSE entry \in {sessions[m][i] : i \in 1 .. Len(sessions[m])} : entry.request = request

(* Reading an entry makes it the most recently used one.                   *)
Touched(entries, request) ==
  LET i == CHOOSE i \in 1 .. Len(entries) : entries[i].request = request
  IN  SubSeq(entries, 1, i - 1) \o SubSeq(entries, i + 1, Len(entries)) \o <<entries[i]>>

(* The newest entry gives way.                                            *)
StoredOverNewest(entries, entry) ==
  Append(IF Len(entries) >= CacheSize THEN SubSeq(entries, 1, Len(entries) - 1) ELSE entries, entry)

(* Storing an entry in a full cache evicts the least recently used one.    *)
Stored(entries, entry) ==
  Append(IF Len(entries) >= CacheSize THEN Tail(entries) ELSE entries, entry)

(* _choose_server(request_id) returns s.                                   *)
ChooseServer(m, request, s) ==
  \/ /\ Known(m, request)
     /\ s = SessionOf(m, request).server
     /\ sessions' = [sessions EXCEPT ![m] = Touched(@, request)]
     /\ UNCHANGED load
  \/ /\ ~ Known(m, request)
     /\ s \in LeastLoaded(m)
     /\ load' = [load EXCEPT ![m][s] = @ + 1]
     /\ sessions' = [sessions EXCEPT ![m] = Stored(@, [request |-> request, server |-> s])]

-----------------------------------------------------------------------------
(* No server of a manager is ever more than one request ahead of another,  *)
(* although the requests arrive in any order and _choose_server            *)
(* (agent_loop.py:76) decides by counts that are never decreased.          *)
Balanced(f) == \A s, t \in Servers : f[s] <= f[t] + 1
ServersBalanced == \A m \in Managers : Balanced(load[m])
=============================================================================
