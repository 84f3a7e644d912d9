------------------------------ MODULE SatAnswer ------------------------------
(***************************************************************************)
(* What is_satisfiable and get_model_if_satisfiable promise their caller:  *)
(* one verdict, which is FAIL until an engine decides and is never         *)
(* revised; the model is stored and one engine gets the credit in the same *)
(* step and for good; nothing changes after the call returned.  A call     *)
(* that asks one engine gets the truth from it, and with a YES, and only   *)
(* with a YES, that engine's model, if a model was asked for.  One that    *)
(* asks several may be told anything: the buffer their threads share can   *)
(* turn the answer of a solver into the opposite.                          *)
(***************************************************************************)
CONSTANTS
  Engines,     \* the names of all engines
  Portfolios,  \* the sets of engines that may be asked
  NoEngine     \* stands for no engine at all

VARIABLES
  query,     \* [truth, model, asked]: what is true of the formula; is a model
             \* asked for; the engines asked
  result,    \* "FAIL", "YES" or "NO"
  model,     \* the engine whose model is returned, or NoEngine
  fastest,   \* the engine that is named as the one that answered, or NoEngine
  returned   \* has the call returned?

answerVars == <<query, result, model, fastest, returned>>

Queries == [truth : {"sat", "unsat"}, model : BOOLEAN, asked : Portfolios]

Verdict(truth) == IF truth = "sat" THEN "YES" ELSE "NO"

AnswerInit ==
  /\ query \in Queries
  /\ result = "FAIL"
  /\ model = NoEngine
  /\ fastest = NoEngine
  /\ returned = FALSE

Alone == \E e \in query.asked : query.asked = {e}

Models(verdict) ==
  IF ~query.model THEN {NoEngine}
  ELSE IF ~Alone THEN query.asked \cup {NoEngine}
  ELSE IF verdict = "sat" THEN query.asked ELSE {NoEngine}

Decide ==
  /\ ~returned
  /\ result = "FAIL"
  /\ \E verdict \in IF Alone THEN {query.truth} ELSE {"sat", "unsat"} :
       /\ result' = Verdict(verdict)
       /\ model' \in Models(verdict)
  /\ fastest' \in IF Alone /\ query.model THEN query.asked ELSE Engines
  /\ UNCHANGED <<query, returned>>

Return ==
  /\ ~returned
  /\ returned' = TRUE
  /\ UNCHANGED <<query, result, model, fastest>>

AnswerSpec == AnswerInit /\ [][Decide \/ Return]_answerVars
=============================================================================
