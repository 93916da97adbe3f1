----------------------------- MODULE ToolLimits -----------------------------
(***************************************************************************)
(* How many tool calls of the agent loops run at once: the threads of a    *)
(* search tool's execution pool in each agent loop worker, the semaphore   *)
(* all pools share (tools/search_tool.py; that of sandbox_fusion_tools.py  *)
(* is the same, but cannot do without a limit), and the token bucket of the*)
(* MCP client of each worker (tools/utils/mcp_clients).                    *)
(***************************************************************************)
EXTENDS Integers, FiniteSets, FiniteSetsExt

VARIABLES
  call,       \* where each tool call is
  permits,    \* _semaphore of the TokenBucketWorker
  returning,  \* calls of its release method that it has not executed yet
  bucket      \* tokens of the MCP client of each worker, in halves

toolVars == <<call, permits, returning, bucket>>

(* tools: "plain" for a tool that just answers, "search" with a number of  *)
(* threads for each worker and a limit of concurrent calls for all of them *)
(* (0 for none), "mcp" with a limit of calls a second, in halves.          *)
InStage(calls, stage) == {c \in calls : call[c] = stage}
Token == 2

ToolsInit(calls, workers, tools) ==
  /\ call = [c \in calls |-> "none"]
  /\ permits = tools.limit /\ returning = 0
  /\ bucket = [w \in workers |-> tools.limit]

(* The calls of one turn, all started before any is awaited; a malformed   *)
(* one reaches no tool and is answered with its error.                     *)
FirstStage(tools) ==
  CASE tools.kind = "search" -> "queued"
    [] tools.kind = "mcp" -> "acquiring"
    [] OTHER -> "running"

StartCalls(calls, malformed, tools) ==
  /\ call' = [c \in DOMAIN call |-> IF c \in calls \cap malformed THEN "done"
                                    ELSE IF c \in calls THEN FirstStage(tools) ELSE call[c]]
  /\ UNCHANGED <<permits, returning, bucket>>

(* A thread of the pool begins execute, and sends acquire if there is a    *)
(* limit; `own` are the calls of its worker.                               *)
StartOnThread(c, own, tools) ==
  /\ call[c] = "queued"
  /\ Cardinality(InStage(own, "acquiring") \cup InStage(own, "running")) < tools.threads
  /\ call' = [call EXCEPT ![c] = IF tools.limit > 0 THEN "acquiring" ELSE "running"]
  /\ UNCHANGED <<permits, returning, bucket>>

(* acquire returns; its concurrency group executes one at a time.          *)
AcquirePermit(c) ==
  /\ call[c] = "acquiring" /\ permits > 0
  /\ permits' = permits - 1
  /\ call' = [call EXCEPT ![c] = "running"]
  /\ UNCHANGED <<returning, bucket>>

(* The loop of call_tool: the bucket has filled up by what the time since  *)
(* the last attempt gave, and a token is there.  An attempt that fails     *)
(* only adds to the bucket what the next one would.                        *)
AcquireToken(c, w, tools) ==
  /\ call[c] = "acquiring"
  /\ \E elapsed \in 0 .. tools.limit :
       LET filled == Min({tools.limit, bucket[w] + elapsed})
       IN  filled >= Token /\ bucket' = [bucket EXCEPT ![w] = filled - Token]
  /\ call' = [call EXCEPT ![c] = "running"]
  /\ UNCHANGED <<permits, returning>>

(* A call that fails leaves the limiter without giving its permit back.    *)
AnswerLosingPermit(c, tools) ==
  /\ call[c] = "running"
  /\ call' = [call EXCEPT ![c] = "done"]
  /\ returning' \in {returning, returning + (IF tools.kind = "search" /\ tools.limit > 0 THEN 1 ELSE 0)}
  /\ UNCHANGED <<permits, bucket>>

(* The function returns or raises, which is only logged; the exit stack    *)
(* sends release and does not wait for it.                                 *)
Answer(c, tools) ==
  /\ call[c] = "running"
  /\ call' = [call EXCEPT ![c] = "done"]
  /\ returning' = returning + (IF tools.kind = "search" /\ tools.limit > 0 THEN 1 ELSE 0)
  /\ UNCHANGED <<permits, bucket>>

ExecuteRelease ==
  /\ returning > 0
  /\ returning' = returning - 1 /\ permits' = permits + 1
  /\ UNCHANGED <<call, bucket>>

(* gather has all answers of a turn.                                       *)
CollectAnswers(calls) ==
  /\ calls # {} /\ \A c \in calls : call[c] = "done"
  /\ call' = [c \in DOMAIN call |-> IF c \in calls THEN "none" ELSE call[c]]
  /\ UNCHANGED <<permits, returning, bucket>>
=============================================================================
