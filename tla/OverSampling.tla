---------------------------- MODULE OverSampling ----------------------------
(***************************************************************************)
(* SGLangRollout._req_level_generate_sequences on tensor parallel rank 0:  *)
(* one asyncio task for each request runs _async_rollout_a_request; in     *)
(* training the rest is cancelled when enough of them have completed, and  *)
(* a cancelled request is answered with padding.  A request is a record of *)
(* the fields of AsyncRolloutRequest and of the local variables of its     *)
(* task; of its tokens only their number is kept.                          *)
(***************************************************************************)
EXTENDS Integers, Sequences, FiniteSets
LOCAL INSTANCE SequencesExt

CONSTANTS
  Requests,                      \* in the order of (batch_data_id, rollout_offset)
  PromptLen,                     \* tokens of a prompt with its generation prompt
  ResponseLen,                   \* response_length
  MaxModelLen,                   \* max_model_len of the configuration
  MaxAssistantTurns, MaxUserTurns,
  MaxObservation,                \* tokens a tool or a user may answer with
  Retokenized,                   \* tokens more that a tool call may have, see EngineReturns
  GenPrompt,                     \* tokens of the generation prompt
  Configs                        \* configurations a behaviour may have

ASSUME LengthsAssumption ==
  /\ {PromptLen, ResponseLen, MaxAssistantTurns, MaxUserTurns, MaxObservation, Retokenized,
      GenPrompt} \subseteq Nat
  /\ MaxModelLen \in Nat /\ MaxModelLen >= PromptLen + ResponseLen /\ PromptLen >= GenPrompt
  /\ ResponseLen >= 1

(* A batch has rows.                                                       *)
ASSUME RequestsAssumption == IsFiniteSet(Requests) /\ Requests # {}

VARIABLES
  cfg,        \* the configuration of the behaviour
  req,        \* req[r]: the request and its task
  tools,      \* tools[r]: whether tool instances are held for r
  engine,     \* requests the engine works on
  finished,   \* tasks in the order they ended, not yet awaited
  completed,  \* completed_count
  main,       \* where run_with_cancellation is
  result      \* the batch, or what became of it

vars == <<cfg, req, tools, engine, finished, completed, main, result>>
mainVars == <<cfg, completed, main, result>>

Total == Cardinality(Requests)

(* target: int(total * (1 - over_sample_rate)), any number up to the total.*)
(* tools: requests whose answers may contain tool calls; interaction: those*)
(* with interaction_kwargs.                                                *)
ASSUME OverSamplingAssumption ==
  Configs \subseteq [validate : BOOLEAN, target : 0 .. Total, tools : SUBSET Requests,
                     interaction : SUBSET Requests, mayFail : BOOLEAN]

NewRequest ==
  [state |-> "PENDING", len |-> PromptLen, genPrompt |-> TRUE, current_turns |-> 0, user_turns |-> 0,
   room |-> 0, response |-> 0, reason |-> "none", task |-> "running", answer |-> "none"]

Init ==
  /\ cfg \in Configs
  /\ req = [r \in Requests |-> NewRequest] /\ tools = [r \in Requests |-> "none"]
  /\ engine = {} /\ finished = << >> /\ completed = 0 /\ main = "waiting" /\ result = "open"

(* Outside of run_until_complete no task makes a step.                     *)
LoopRuns == main # "done"
Running(r) == req[r].task = "running"
InLoop(r) == req[r].state # "LEFT" /\ req[r].current_turns < MaxAssistantTurns
WithState(r, s) == LoopRuns /\ Running(r) /\ r \notin engine /\ InLoop(r) /\ req[r].state = s

-----------------------------------------------------------------------------
(* _async_rollout_a_request *)

(* break: on to what follows the loop.                                     *)
Leave(q, reason) == [q EXCEPT !.state = "LEFT", !.reason = reason]

(* _handle_pending_state creates the tools of the request.                 *)
HandlePending(r) ==
  /\ WithState(r, "PENDING")
  /\ tools' = [tools EXCEPT ![r] = "created"]
  /\ req' = [req EXCEPT ![r].state = "RUNNING"]
  /\ UNCHANGED <<engine, finished, mainVars>>

(* get_generation_prompt_ids appends the generation prompt if the tokens   *)
(* do not end with it; then the tokens go to the engine, if they leave it  *)
(* room for one more and the end of the sequence.                          *)
WithGenPrompt(q) ==
  IF q.genPrompt THEN q ELSE [q EXCEPT !.len = @ + GenPrompt, !.genPrompt = TRUE]

TooLongWithoutEos(q) == q.len > MaxModelLen
TooLong(q) == q.len + 1 >= MaxModelLen

Smaller(a, b) == IF a < b THEN a ELSE b

CallEngine(r) ==
  /\ WithState(r, "RUNNING")
  /\ LET q == WithGenPrompt(req[r])
     IN  IF TooLong(q)
         THEN /\ req' = [req EXCEPT ![r] = Leave(q, "length")]
              /\ UNCHANGED engine
         ELSE /\ req' = [req EXCEPT ![r] = [q EXCEPT
                           !.room = Smaller(ResponseLen, MaxModelLen - q.len - 1)]]
              /\ engine' = engine \cup {r}
  /\ UNCHANGED <<tools, finished, mainVars>>

(* The engine returns n tokens; add_assistant_message appends them.        *)
Assistant(q, n) ==
  [q EXCEPT !.len = @ + n, !.genPrompt = FALSE, !.current_turns = @ + 1, !.room = 0]

Interacts(r, q) ==
  r \in cfg.interaction /\ q.user_turns < MaxUserTurns /\ q.current_turns < MaxAssistantTurns

(* What a request may be after an answer of the engine: cut by the length, *)
(* with tool calls, or with a message that ends it or has a user answer.   *)
(* The message of a tool call is tokenized again, from its content and the *)
(* calls as they were parsed, and may come out longer than the answer; a   *)
(* call that cannot be parsed ends the request like a message.             *)
AfterEngine(r, q) ==
  LET toolCalls == {[Assistant(q, n) EXCEPT !.state = "TOOL_CALLING", !.reason = "tool_calls"] :
                      n \in 1 .. (q.room + Retokenized)}
  IN  (IF r \in cfg.tools THEN toolCalls ELSE {})
        \cup UNION {LET a == Assistant(q, n)
                    IN  {Leave(a, "stop")}
                          \cup (IF n = q.room THEN {Leave(a, "length")} ELSE {})
                          \cup (IF Interacts(r, a)
                                  THEN {[a EXCEPT !.state = "INTERACTING", !.reason = "stop"]} ELSE {})
                    : n \in 1 .. q.room}

EngineReturns(r) ==
  /\ LoopRuns /\ Running(r) /\ r \in engine
  /\ \E q \in AfterEngine(r, req[r]) : req' = [req EXCEPT ![r] = q]
  /\ engine' = engine \ {r}
  /\ UNCHANGED <<tools, finished, mainVars>>

(* Tool responses and user messages are appended.  The code compares       *)
(* len(input_ids), the one row of the tensor, with max_model_len, so the   *)
(* length of the sequence is not looked at before the next generation.     *)
Observe(q, n) ==
  [q EXCEPT !.len = @ + n, !.genPrompt = FALSE, !.state = "RUNNING"]

CallTools(r) ==
  /\ WithState(r, "TOOL_CALLING")
  /\ \E n \in 1 .. MaxObservation : req' = [req EXCEPT ![r] = Observe(@, n)]
  /\ UNCHANGED <<tools, engine, finished, mainVars>>

Interact(r) ==
  /\ WithState(r, "INTERACTING")
  /\ \/ \E n \in 1 .. MaxObservation :
          req' = [req EXCEPT ![r] = [Observe(req[r], n) EXCEPT !.user_turns = @ + 1]]
     \/ req' = [req EXCEPT ![r] = [Leave(req[r], "stop") EXCEPT !.user_turns = @ + 1]]
  /\ UNCHANGED <<tools, engine, finished, mainVars>>

(* After the loop: calc_reward and release of every tool of the request.   *)
ReleaseTools(r) ==
  /\ LoopRuns /\ Running(r) /\ r \notin engine /\ ~ InLoop(r) /\ tools[r] = "created"
  /\ tools' = [tools EXCEPT ![r] = "released"]
  /\ UNCHANGED <<req, engine, finished, mainVars>>

(* finalize: the generation prompt is removed, the tokens are cut to       *)
(* max_model_len of the request, and the response is what follows the      *)
(* prompt, cut to response_length.                                         *)
Finalized(q) ==
  LET len == Smaller(IF q.genPrompt THEN q.len - GenPrompt ELSE q.len,
                     Smaller(MaxModelLen, PromptLen + ResponseLen))
  IN  [q EXCEPT !.state = "COMPLETED", !.len = len,
                !.reason = IF q.current_turns >= MaxAssistantTurns THEN "stop" ELSE @,
                !.response = IF len < PromptLen THEN 0 ELSE Smaller(len - PromptLen, ResponseLen)]

Finalize(r) ==
  /\ LoopRuns /\ Running(r) /\ r \notin engine /\ ~ InLoop(r) /\ tools[r] = "released"
  /\ req' = [req EXCEPT ![r] = [Finalized(@) EXCEPT !.task = "done", !.answer = "own"]]
  /\ finished' = Append(finished, r)
  /\ UNCHANGED <<tools, engine, mainVars>>

(* A tool, an interaction or the engine raises.                            *)
RequestFails(r) ==
  /\ LoopRuns /\ Running(r) /\ cfg.mayFail
  /\ req' = [req EXCEPT ![r] = [NewRequest EXCEPT !.task = "failed"]]
  /\ finished' = Append(finished, r)
  /\ engine' = engine \ {r}
  /\ UNCHANGED <<tools, mainVars>>

(* CancelledError: _create_padding_request copies the request as it was    *)
(* submitted, whatever the task had done.  The engine is not told, and the *)
(* tools are not released.                                                 *)
ReturnPadding(r) ==
  /\ LoopRuns /\ req[r].task = "cancelled"
  /\ req' = [req EXCEPT ![r] = [NewRequest EXCEPT !.state = "COMPLETED", !.response = ResponseLen,
                                                 !.task = "done", !.answer = "padding"]]
  /\ UNCHANGED <<tools, engine, finished, mainVars>>

-----------------------------------------------------------------------------
(* run_with_cancellation *)

Cancelled == [r \in Requests |-> IF Running(r) THEN [req[r] EXCEPT !.task = "cancelled"] ELSE req[r]]

(* completed_count is compared after it was counted, so at least one       *)
(* request completes even if the target is 0.                              *)
ReachedEarly(count) == count + 1 >= cfg.target
Reached(count) == count >= cfg.target

(* for completed_task in as_completed: the tasks in the order they end.    *)
AwaitNext ==
  /\ ~ cfg.validate /\ main = "waiting" /\ finished # << >>
  /\ finished' = Tail(finished)
  /\ LET failed == req[Head(finished)].task = "failed"
         count == completed + 1
     IN  IF failed \/ Reached(count)
         THEN /\ req' = Cancelled /\ main' = "gathering"
              /\ result' = IF failed THEN "raised" ELSE result
              /\ completed' = IF failed THEN completed ELSE count
         ELSE completed' = count /\ UNCHANGED <<req, main, result>>
  /\ UNCHANGED <<cfg, tools, engine>>

(* gather of all tasks, then abort_request of whatever the engine still    *)
(* works on.  An exception among the results fails their sorting.          *)
GatheredAndIdle == engine = {} /\ \A r \in Requests : req[r].task \in {"done", "failed"}
Gathered == \A r \in Requests : req[r].task \in {"done", "failed"}

AbortAll ==
  /\ main = "gathering" /\ Gathered
  /\ engine' = {} /\ main' = "done"
  /\ result' = IF \E r \in Requests : req[r].task = "failed" THEN "raised" ELSE "returned"
  /\ UNCHANGED <<cfg, req, tools, finished, completed>>

(* Validation gathers all requests and raises the first exception.         *)
GatherValidation ==
  /\ cfg.validate /\ main = "waiting"
  /\ \/ /\ \E r \in Requests : req[r].task = "failed"
        /\ result' = "raised"
     \/ /\ \A r \in Requests : req[r].task = "done"
        /\ result' = "returned"
  /\ main' = "done"
  /\ UNCHANGED <<cfg, req, tools, engine, finished, completed>>

RequestStep(r) ==
  \/ HandlePending(r) \/ CallEngine(r) \/ EngineReturns(r) \/ CallTools(r) \/ Interact(r)
  \/ ReleaseTools(r) \/ Finalize(r) \/ RequestFails(r) \/ ReturnPadding(r)

Next == (\E r \in Requests : RequestStep(r)) \/ AwaitNext \/ AbortAll \/ GatherValidation

(* The event loop runs whatever is ready, and engine, tools and users      *)
(* answer in the end.  No step can be taken twice.                         *)
Spec == Init /\ [][Next]_vars /\ WF_vars(Next)

-----------------------------------------------------------------------------
(* Properties *)

(* The promise to the caller, whatever is cancelled in the middle of what: *)
(* rollout.yaml:85, the requests left over are aborted when enough have    *)
(* completed, and none is answered twice or not at all.                    *)
Promise == INSTANCE AnsweredBatch WITH
  needed <- IF cfg.validate THEN Total ELSE IF cfg.target = 0 THEN 1 ELSE cfg.target,
  answers <- [r \in Requests |-> req[r].answer]
AnswersOnce == Promise!Spec

(* The asserts on the batch (sglang_rollout.py:1175) hold: an answer has a *)
(* finish reason that finalize accepts, fits max_model_len and the turn    *)
(* limits and has released its tools; and the engine is never asked for    *)
(* less than one token, which SGLang refuses (sglang_rollout.py:873).      *)
AnswersFit ==
  \A r \in Requests :
    /\ req[r].answer = "own" =>
         /\ req[r].state = "COMPLETED" /\ req[r].reason \in {"stop", "length"}
         /\ req[r].len <= MaxModelLen /\ req[r].response <= ResponseLen
         /\ req[r].current_turns <= MaxAssistantTurns /\ req[r].user_turns <= MaxUserTurns
         /\ tools[r] = "released"
    /\ Running(r) /\ r \in engine => req[r].room >= 1

(* The rollout ends: enough requests complete, the others answer to their  *)
(* cancellation at whatever await they are, and the engine is told.        *)
BatchEnds == (main # "done") ~> (main = "done")
=============================================================================
