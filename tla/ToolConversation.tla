-------------------------- MODULE ToolConversation --------------------------
(***************************************************************************)
(* One agent loop: the state machine of ToolAgentLoop.run                  *)
(* (tool_agent_loop.py) and SingleTurnAgentLoop.run.  A conversation is a  *)
(* record of the fields of AgentData; a token is known by who wrote it.    *)
(* An operator for each handler gives the conversation after it, for an    *)
(* answer of the engine, the tools or the interaction.                     *)
(***************************************************************************)
EXTENDS Integers, Sequences, SequencesExt

Tokens == {"prompt", "generated", "observed"}

(* limits: response_length, max_assistant_turns and max_user_turns (0 for  *)
(* none), and whether an interaction is configured.                        *)
NewConversation(kind) ==
  [kind |-> kind, state |-> "pending", prompt_ids |-> << >>, response_mask |-> << >>,
   logprobs |-> 0, user_turns |-> 0, assistant_turns |-> 0]

Repeat(x, n) == [i \in 1 .. n |-> x]

(* _handle_pending_state: the prompt with its chat template.               *)
Pending(c, promptLen) ==
  [c EXCEPT !.prompt_ids = Repeat("prompt", promptLen), !.state = "generating"]

(* The limits compared as if the turn were counted already.                *)
StopsLate(c, limits, mask) ==
  \/ Len(mask) >= limits.response_length
  \/ limits.assistant > 0 /\ c.assistant_turns > limits.assistant
  \/ limits.user > 0 /\ c.user_turns > limits.user

(* The termination conditions after a generation.                          *)
Stops(c, limits, mask) ==
  \/ Len(mask) >= limits.response_length
  \/ limits.assistant > 0 /\ c.assistant_turns >= limits.assistant
  \/ limits.user > 0 /\ c.user_turns >= limits.user

(* _handle_generating_state, and the turn that run counts after it: n      *)
(* tokens, from which the parser takes tool calls or none.                 *)
Generated(c, limits, n, calls, logprobs) ==
  LET mask == c.response_mask \o Repeat(1, n)
  IN  [c EXCEPT !.prompt_ids = @ \o Repeat("generated", n),
                !.response_mask = mask,
                !.logprobs = IF logprobs THEN @ + n ELSE @,
                !.assistant_turns = @ + 1,
                !.state = IF Stops(c, limits, mask) \/ c.kind = "single" THEN "terminated"
                          ELSE IF calls THEN "processing_tools"
                          ELSE IF limits.interaction THEN "interacting" ELSE "terminated"]

(* Observed tokens trained on like generated ones.                         *)
ObservedUnmasked(c, n) ==
  [c EXCEPT !.prompt_ids = @ \o Repeat("observed", n),
            !.response_mask = @ \o Repeat(1, n),
            !.logprobs = IF @ > 0 THEN @ + n ELSE @]

(* n tokens that the model did not write, in every sequence they occur in. *)
Observed(c, n) ==
  [c EXCEPT !.prompt_ids = @ \o Repeat("observed", n),
            !.response_mask = @ \o Repeat(0, n),
            !.logprobs = IF @ > 0 THEN @ + n ELSE @]

(* _handle_processing_tools_state: an answer that does not fit ends the    *)
(* conversation and is dropped.                                            *)
ToolsAnswered(c, limits, n) ==
  IF Len(c.response_mask) + n >= limits.response_length
  THEN [c EXCEPT !.state = "terminated"]
  ELSE [Observed(c, n) EXCEPT !.user_turns = @ + 1, !.state = "generating"]

(* _handle_interacting_state, and the turn that run counts after it; the   *)
(* length is not looked at.                                                *)
UserAnswered(c, n, terminate) ==
  [Observed(c, n) EXCEPT !.user_turns = @ + 1,
                         !.state = IF terminate THEN "terminated" ELSE "generating"]

(* The output of run: the response is what the mask covers, cut to its     *)
(* length.                                                                 *)
Cut(s, n) == SubSeq(s, 1, IF Len(s) < n THEN Len(s) ELSE n)
Output(c, limits) ==
  LET cut == Len(c.prompt_ids) - Len(c.response_mask)
  IN  [prompt |-> SubSeq(c.prompt_ids, 1, cut),
       response |-> Cut(SubSeq(c.prompt_ids, cut + 1, Len(c.prompt_ids)), limits.response_length),
       mask |-> Cut(c.response_mask, limits.response_length),
       logprobs |-> IF c.logprobs < limits.response_length
                    THEN c.logprobs ELSE limits.response_length]
=============================================================================
