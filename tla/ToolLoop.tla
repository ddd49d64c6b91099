------------------------------ MODULE ToolLoop ------------------------------
(***************************************************************************)
(* defaultLLMProvider.Generate (gateway/providers.go): chat completions    *)
(* are requested until one of them calls no tool, at most MaxRounds times. *)
(* Before the next request every call of the last completion has been run  *)
(* and answered by a message of its own.                                   *)
(*                                                                         *)
(* A goroutine that generates a reply takes these steps; the module that   *)
(* extends this one says what it does before and after them.               *)
(***************************************************************************)
EXTENDS Naturals

CONSTANTS Generators,  \* goroutines that call Generate
          MaxRounds,   \* maxToolIterations (10 in the code)
          MaxCalls     \* tool calls in one completion (bound)

ASSUME RoundBounds == MaxRounds \in Nat \ {0} /\ MaxCalls \in Nat \ {0}

\* requests sent, calls still to be run, and the messages added to the
\* request: the calls made and the results that answer them.
VARIABLE llm

Fresh == [round |-> 0, pending |-> 0, calls |-> 0, results |-> 0]

LLMType == [Generators -> [round : 0..MaxRounds, pending : 0..MaxCalls,
                           calls : 0..MaxRounds * MaxCalls,
                           results : 0..MaxRounds * MaxCalls]]

\* The top of the loop: a completion is requested.
Requests(g) == llm[g].pending = 0 /\ llm[g].round < MaxRounds

\* Mutant: the loop variable is not advanced.
CallTools_NoCount(g, n) ==
  /\ Requests(g)
  /\ llm' = [llm EXCEPT ![g].pending = n, ![g].calls = 1, ![g].results = 0]

\* The completion calls n tools.
CallTools(g, n) ==
  /\ Requests(g)
  /\ llm' = [llm EXCEPT ![g] = [round |-> @.round + 1, pending |-> n,
                               calls |-> @.calls + n, results |-> @.results]]

\* Mutant: a tool without a handler is skipped.
RunTool_SkipsUnknown(g) ==
  /\ llm[g].pending > 0
  /\ \E found \in BOOLEAN :
       llm' = [llm EXCEPT ![g].pending = @ - 1,
                          ![g].results = IF found THEN @ + 1 ELSE @]

\* One call is run: its result, its error, or "not found" is its answer.
RunTool(g) ==
  /\ llm[g].pending > 0
  /\ llm' = [llm EXCEPT ![g].pending = @ - 1, ![g].results = @ + 1]

\* The completion calls no tool: Generate returns its text.
Replies(g) == Requests(g) /\ llm' = [llm EXCEPT ![g] = Fresh]

\* Generate returns an error: the request failed or had no choice, or the
\* last round has called tools again.
GenerateFails(g) == llm[g].pending = 0 /\ llm' = [llm EXCEPT ![g] = Fresh]
=============================================================================
