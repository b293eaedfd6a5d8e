--------------------------- MODULE MCAgentRuntime ---------------------------
(***************************************************************************)
(* Runs of the agent runtime, and the turns of a conversation, which a run *)
(* takes for one answer and one result each; a behavior is of one of them. *)
(*                                                                         *)
(* Two runs, and calls of each kind: a HIGH risk tool of the database, one *)
(* of the registry, a LOW risk tool of each, arguments that are not JSON,  *)
(* and the slug of a LOW tool that is the name of a HIGH one, or of none.  *)
(* The second run is a chat that calls no tool: runs share no state of the *)
(* executor.  The loop has two iterations.                                 *)
(*                                                                         *)
(* Three turns of two iterations each, with answers of text, of calls with *)
(* and without arguments, and of both.                                     *)
(***************************************************************************)
EXTENDS AgentRuntime, ChatTurns

CONSTANTS a1, a2

MCCall == {"low", "builtin", "high", "highBuiltin", "malformed", "ofAnother", "ofNone"}
MCRegistry == [c \in MCCall |-> IF c = "builtin" THEN "LOW" ELSE IF c = "highBuiltin" THEN "HIGH" ELSE "none"]
MCSlug == [c \in MCCall |-> IF MCRegistry[c] # "none" THEN "none" ELSE IF c = "high" THEN "HIGH" ELSE "LOW"]
MCNamed == [c \in MCCall |-> IF c \in {"high", "ofAnother"} THEN "HIGH" ELSE IF c = "ofNone" THEN "none" ELSE "LOW"]
MCArgs == [c \in MCCall |-> IF c = "malformed" THEN "malformed" ELSE "valid"]

Reply(calls, tokens) == [calls |-> calls, tokens |-> tokens]
MCResponse ==
  [r \in {a1, a2} |-> [i \in 0..1 |->
     {Reply(<<>>, 1)} \cup
     (IF r = a2 THEN {}
      ELSE IF i = 0 THEN {Reply(<<"low", "high">>, 1), Reply(<<"builtin">>, 1)}
      ELSE {Reply(<<c>>, 1) : c \in {"low", "highBuiltin", "malformed", "ofAnother", "ofNone"}})]]

MCRoute == [r \in {a1, a2} |-> IF r = a1 THEN Via ELSE {"chat"}]

TextOfSize(n) == [kind |-> "text", size |-> n]
CallOfSize(n) == [kind |-> "call", size |-> n]

MCAnswer == {<<TextOfSize(2)>>, <<TextOfSize(1), CallOfSize(2)>>, <<CallOfSize(1), CallOfSize(0)>>}

-----------------------------------------------------------------------------

VARIABLE part  \* what the behavior is of

RuntimeInit ==
  /\ part \in {"runs", "turns"}
  /\ Init /\ ChatInit
  /\ part = "runs" => provider = CHOOSE p \in Provider : TRUE

RuntimeNext ==
  /\ UNCHANGED part
  /\ \/ part = "runs" /\ Next /\ UNCHANGED chatVars
     \/ part = "turns" /\ ChatNext /\ UNCHANGED vars

RuntimeSpec == RuntimeInit /\ [][RuntimeNext]_<<part, vars, chatVars>>
=============================================================================
