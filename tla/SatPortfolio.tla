---------------------------- MODULE SatPortfolio ----------------------------
(***************************************************************************)
(* One call of is_satisfiable or get_model_if_satisfiable: every engine    *)
(* asked runs in a thread of its own, starts a solver process through      *)
(* popen, and polls its pipe until the solver is done, the time is up, or  *)
(* another engine has answered.  The answer is written under a mutex, the  *)
(* first writer wins.                                                      *)
(*                                                                         *)
(* The bytes that go through a pipe are abstracted to two pieces: the line *)
(* with the process id which the shell echoes, and the solver's answer.    *)
(* The buffer into which execute_shell_command_with_async_pipe reads is a  *)
(* function-local static, so all threads share it; a chunk is copied out   *)
(* of it in a step of its own, as whatever the buffer then holds, from the *)
(* index and up to the length that belong to the thread's own chunk.       *)
(***************************************************************************)
EXTENDS Integers, Sequences, FiniteSets

CONSTANTS
  Portfolios,  \* the sets of engines that may be given to the call
  NoEngine

AllEngines == {"Z3", "BOOLECTOR", "MATHSAT5"}
Stranger == "stranger"   \* a process that is none of the solvers

ASSUME PortfolioAssumption ==
  /\ Portfolios \subseteq SUBSET AllEngines
  /\ {} \notin Portfolios
  /\ NoEngine \notin AllEngines \cup {Stranger}

VARIABLES
  query,     \* [truth, model, asked]: asked are the engines given to the call
  result,    \* "FAIL", "YES" or "NO", guarded by the mutex
  model,     \* the engine whose model text was parsed into the output
  fastest,   \* *fastest_respondent_ptr
  returned,  \* has the call returned?
  pc,        \* where each engine's thread is
  late,      \* has the engine's time run out?
  pid,       \* the engine whose process the thread believes it started
  text,      \* the pieces copied into the answer stream
  proc,      \* the solver process of each engine (external)
  pipe,      \* the pieces written by the process and not yet read (external)
  buff,      \* the shared buffer: the pieces of the last chunk read
  num_read   \* how many pieces a thread has read and not yet copied

answer == <<result, model, fastest>>
solvers == <<proc, pipe>>
threads == <<pc, pid, text>>
chunk == <<buff, num_read>>
vars == <<query, answer, returned, late, threads, solvers, chunk>>

Asked == query.asked

Locations == {"start", "read", "copy", "check", "pclose", "answered", "done", "threw"}

\* A piece of output: its kind, and the engine whose process wrote it.
Piece(kind, e) == [kind |-> kind, of |-> e]

Init ==
  /\ query \in [truth : {"sat", "unsat"}, model : BOOLEAN, asked : Portfolios]
  /\ result = "FAIL"
  /\ model = NoEngine
  /\ fastest = NoEngine
  /\ returned = FALSE
  /\ pc = [e \in Asked |-> "start"]
  /\ late = [e \in Asked |-> FALSE]
  /\ pid = [e \in Asked |-> NoEngine]
  /\ text = [e \in Asked |-> << >>]
  /\ proc = [e \in Asked |-> "none"]
  /\ pipe = [e \in Asked |-> << >>]
  /\ buff = << >>
  /\ num_read = [e \in Asked |-> 0]

GoTo(e, l) == pc' = [pc EXCEPT ![e] = l]

-----------------------------------------------------------------------------
(***************************************************************************)
(* The solver processes.  The shell echoes its process id, then the solver *)
(* answers truthfully or not at all.                                       *)
(***************************************************************************)
Echo(e) ==
  /\ proc[e] = "forked"
  /\ proc' = [proc EXCEPT ![e] = "solving"]
  /\ pipe' = [pipe EXCEPT ![e] = Append(@, Piece("pid", e))]
  /\ UNCHANGED <<query, answer, returned, late, threads, chunk>>

Solve(e) ==
  /\ proc[e] = "solving"
  /\ proc' = [proc EXCEPT ![e] = "ended"]
  /\ pipe' = [pipe EXCEPT ![e] = Append(@, Piece(query.truth, e))]
  /\ UNCHANGED <<query, answer, returned, late, threads, chunk>>

\* The solver gives up: an error, or the time limit of its command line.
GiveUp(e) ==
  /\ proc[e] = "solving"
  /\ proc' = [proc EXCEPT ![e] = "ended"]
  /\ UNCHANGED <<query, answer, returned, late, threads, pipe, chunk>>

-----------------------------------------------------------------------------
(***************************************************************************)
(* The thread of an engine: is_satisfiable_z3 and its siblings, with       *)
(* execute_shell_command_with_async_pipe.                                  *)
(***************************************************************************)
\* The formula is written to a file of a unique name, the clock is read for
\* the interruption function, and the process is started.
Launch(e) ==
  /\ pc[e] = "start"
  /\ \/ /\ proc' = [proc EXCEPT ![e] = "forked"]
        /\ GoTo(e, "read")
     \/ /\ GoTo(e, "done")         \* popen failed
        /\ UNCHANGED proc
  /\ UNCHANGED <<query, answer, returned, late, pid, text, pipe, chunk>>

\* A non-blocking read of a chunk: some of the pieces there are.
Read(e) ==
  /\ pc[e] = "read"
  /\ \E k \in 1..Len(pipe[e]) :
       /\ buff' = SubSeq(pipe[e], 1, k)
       /\ num_read' = [num_read EXCEPT ![e] = k]
       /\ pipe' = [pipe EXCEPT ![e] = SubSeq(@, k + 1, Len(@))]
  /\ GoTo(e, "copy")
  /\ UNCHANGED <<query, answer, returned, late, pid, text, proc>>

\* EAGAIN: no data yet.
ReadNothing(e) ==
  /\ pc[e] = "read"
  /\ pipe[e] = << >>
  /\ proc[e] # "ended"
  /\ GoTo(e, "check")
  /\ UNCHANGED <<query, answer, returned, late, pid, text, solvers, chunk>>

\* The end of the output: pclose collects the process, which has ended.
ReadEnd(e) ==
  /\ pc[e] = "read"
  /\ pipe[e] = << >>
  /\ proc[e] = "ended"
  /\ GoTo(e, "answered")
  /\ UNCHANGED <<query, answer, returned, late, pid, text, solvers, chunk>>

\* Another thread's chunk is in the buffer: it may have come while this thread
\* was copying.
Overwritten(e) == Head(buff).of # e

(***************************************************************************)
(* The thread then gets parts of both chunks.  If each is an id with a     *)
(* verdict behind it, the verdict may be cut: the index behind "PID 32767" *)
(* is inside "unsat" once "PID 301" came over it, and what is copied from  *)
(* there is "sat".  In all other cases the text begins with an end of a    *)
(* process id or with letters of two words at their places, which is no    *)
(* verdict or the one both solvers give.                                   *)
(***************************************************************************)
Torn(e) == <<Piece(IF num_read[e] > 1 /\ Len(buff) > 1 THEN "cut" ELSE "torn", e)>>

\* The chunk in the buffer is copied to the answer; the first line of the first
\* chunk is parsed for the process id and throws if there is none in it.  The
\* digits of two ids make that of a stranger.
Copy(e) ==
  /\ pc[e] = "copy"
  /\ \/ /\ pid[e] # NoEngine
        /\ \/ text' = [text EXCEPT ![e] = @ \o buff]
           \/ Overwritten(e) /\ text' = [text EXCEPT ![e] = @ \o Torn(e)]
        /\ GoTo(e, "check")
        /\ UNCHANGED pid
     \/ /\ pid[e] = NoEngine
        /\ Head(buff).kind = "pid"
        /\ pid' = [pid EXCEPT ![e] = Head(buff).of]
        /\ text' = [text EXCEPT ![e] = @ \o Tail(buff)]
        /\ GoTo(e, "check")
     \/ /\ pid[e] = NoEngine
        /\ Overwritten(e)
        /\ \E id \in {e, Head(buff).of, Stranger} : pid' = [pid EXCEPT ![e] = id]
        /\ text' = [text EXCEPT ![e] = @ \o Torn(e)]
        /\ GoTo(e, "check")
     \/ /\ pid[e] = NoEngine
        /\ Head(buff).kind # "pid" \/ Overwritten(e)
        /\ GoTo(e, "threw")
        /\ UNCHANGED <<pid, text>>
  /\ num_read' = [num_read EXCEPT ![e] = 0]
  /\ UNCHANGED <<query, answer, returned, late, solvers, buff>>

\* A slip: only the other engines are watched, never the clock.
InterruptedByAnswer(e) == result # "FAIL"

\* sat_checking_interruption_function, which reads the result under the mutex.
Interrupted(e) == late[e] \/ result # "FAIL"

KeepPolling(e) ==
  /\ pc[e] = "check"
  /\ ~Interrupted(e)
  /\ GoTo(e, "read")
  /\ UNCHANGED <<query, answer, returned, late, pid, text, solvers, chunk>>

\* The process of the parsed id is killed, if it is still there; pclose will wait
\* for the own one.
Kill(e) ==
  /\ pc[e] = "check"
  /\ Interrupted(e)
  /\ pid[e] # NoEngine
  /\ proc' = [p \in Asked |-> IF p = pid[e] THEN "ended" ELSE proc[p]]
  /\ GoTo(e, "pclose")
  /\ UNCHANGED <<query, answer, returned, late, pid, text, pipe, chunk>>

\* Without a process id the pipe and the process are abandoned.
Abandon(e) ==
  /\ pc[e] = "check"
  /\ Interrupted(e)
  /\ pid[e] = NoEngine
  /\ GoTo(e, "done")
  /\ UNCHANGED <<query, answer, returned, late, pid, text, solvers, chunk>>

\* A slip: the pipe is closed without waiting for the process.
PcloseAtOnce(e) ==
  /\ pc[e] = "pclose"
  /\ GoTo(e, "done")
  /\ UNCHANGED <<query, answer, returned, late, pid, text, solvers, chunk>>

Pclose(e) ==
  /\ pc[e] = "pclose"
  /\ proc[e] = "ended"
  /\ GoTo(e, "done")
  /\ UNCHANGED <<query, answer, returned, late, pid, text, solvers, chunk>>

\* parse_sat_result: the verdicts which the first line of the answer stream may be.
FirstLine(e) == IF text[e] = << >> THEN "none" ELSE Head(text[e]).kind

IsTorn(e) == FirstLine(e) \in {"torn", "cut"}

Verdicts(e) ==
  CASE FirstLine(e) = "torn" -> {query.truth}
    [] FirstLine(e) = "cut" -> {"sat", "unsat"}
    [] OTHER -> {FirstLine(e)} \cap {"sat", "unsat"}

SaysNoVerdict(e) == Verdicts(e) = {} \/ IsTorn(e)

(***************************************************************************)
(* parse_model: may the rest of the answer stream parse, may it fail?  A   *)
(* model may be in a shape the parser refuses.  After "unsat", Z3 and      *)
(* MathSAT print no model and their parsers fail; Boolector's accepts an   *)
(* empty rest.                                                             *)
(***************************************************************************)
ModelParses(e, verdict) ==
  IF verdict = "sat" \/ IsTorn(e) THEN BOOLEAN
  ELSE IF e # "BOOLECTOR" THEN {FALSE}
  ELSE IF text[e] = <<Piece("unsat", e)>> THEN {TRUE} ELSE BOOLEAN

\* The model parsed is that of the engine whose output the text is, of which a torn
\* text says nothing.
ParsedModels(e, verdict) ==
  IF IsTorn(e) THEN Asked \cup {NoEngine}
  ELSE IF verdict = "sat" THEN {Head(text[e]).of} ELSE {NoEngine}

\* A slip: the solver's word is stored as it came.
VerdictVerbatim(kind) == kind

Verdict(kind) == IF kind = "sat" THEN "YES" ELSE "NO"

\* The engine the writer names as the fastest one.
NamesAsFastest(e) == IF e = "MATHSAT5" /\ ~query.model THEN "Z3" ELSE e

\* A slip: whoever comes last wins.
WriteSatResultLast(e, verdict) ==
  /\ result' = Verdict(verdict)
  /\ fastest' = NamesAsFastest(e)
  /\ model' \in IF query.model THEN ParsedModels(e, verdict) ELSE {NoEngine}

\* write_sat_result, under the mutex.
WriteSatResult(e, verdict) ==
  IF result = "FAIL"
  THEN /\ result' = Verdict(verdict)
       /\ fastest' = NamesAsFastest(e)
       /\ model' \in IF query.model THEN ParsedModels(e, verdict) ELSE {NoEngine}
  ELSE UNCHANGED answer

Respond(e) ==
  /\ pc[e] = "answered"
  /\ GoTo(e, "done")
  /\ \/ \E verdict \in Verdicts(e) :
           /\ query.model => TRUE \in ModelParses(e, verdict)
           /\ WriteSatResult(e, verdict)
     \/ /\ \/ SaysNoVerdict(e)
           \/ query.model /\ \E verdict \in Verdicts(e) : FALSE \in ModelParses(e, verdict)
        /\ UNCHANGED answer
  /\ UNCHANGED <<query, returned, late, pid, text, solvers, chunk>>

\* The timeout of an engine elapses while its thread polls; the clock started
\* with the process, and nobody asks for the time after the last poll.
Tick(e) ==
  /\ pc[e] \in {"read", "copy", "check"}
  /\ ~late[e]
  /\ late' = [late EXCEPT ![e] = TRUE]
  /\ UNCHANGED <<query, answer, returned, threads, solvers, chunk>>

-----------------------------------------------------------------------------
\* The caller has joined every thread.  An exception that leaves a thread ends
\* the program, so there is no return after one.
Return ==
  /\ ~returned
  /\ \A e \in Asked : pc[e] = "done"
  /\ returned' = TRUE
  /\ UNCHANGED <<query, answer, late, threads, solvers, chunk>>

Alive == \A e \in Asked : pc[e] # "threw"

Poll(e) == Read(e) \/ ReadNothing(e) \/ ReadEnd(e) \/ Copy(e) \/ KeepPolling(e)

Step(e) ==
  Launch(e) \/ Poll(e) \/ Kill(e) \/ Abandon(e) \/ Pclose(e) \/ Respond(e)

Solver(e) == Echo(e) \/ Solve(e) \/ GiveUp(e)

Next ==
  /\ Alive
  /\ Return \/ \E e \in Asked : Step(e) \/ Tick(e) \/ Solver(e)

Spec == Init /\ [][Next]_vars

(***************************************************************************)
(* The threads are scheduled, the clock advances, and the shell echoes.    *)
(* Nothing forces a solver to answer: MathSAT5 is given no time limit.     *)
(***************************************************************************)
Fairness ==
  /\ WF_vars(Alive /\ Return)
  /\ \A e \in AllEngines : /\ WF_vars(Alive /\ e \in Asked /\ Step(e))
                           /\ WF_vars(Alive /\ e \in Asked /\ Tick(e))
                           /\ WF_vars(Alive /\ e \in Asked /\ Echo(e))

FairSpec == Spec /\ Fairness

-----------------------------------------------------------------------------
Pieces == [kind : {"pid", "sat", "unsat", "torn", "cut"}, of : Asked]

TypeOK ==
  /\ query \in [truth : {"sat", "unsat"}, model : BOOLEAN, asked : Portfolios]
  /\ result \in {"FAIL", "YES", "NO"}
  /\ model \in Asked \cup {NoEngine}
  /\ fastest \in AllEngines \cup {NoEngine}
  /\ returned \in BOOLEAN
  /\ pc \in [Asked -> Locations]
  /\ late \in [Asked -> BOOLEAN]
  /\ pid \in [Asked -> Asked \cup {NoEngine, Stranger}]
  /\ text \in [Asked -> Seq(Pieces)]
  /\ proc \in [Asked -> {"none", "forked", "solving", "ended"}]
  /\ pipe \in [Asked -> Seq(Pieces)]
  /\ buff \in Seq(Pieces)
  /\ num_read \in [Asked -> Nat]

\* No solver runs on behind a call that returned, but one whose process id had not
\* been read when its thread was interrupted: a thread that kills the process of
\* another engine, whose id it took for its own, still waits for its own.
SolversAreCollected ==
  returned => \A e \in Asked : proc[e] \in {"forked", "solving"} => pid[e] = NoEngine

\* The solvers are truthful, so that YES means satisfiable.
YesIsTrue == result = "YES" => query.truth = "sat"

\* The first answer stands, whatever chunks the threads steal from one another: those
\* still running cannot revise the verdict, swap the model or take the credit,
\* and nothing changes after the return.  An engine that is asked alone shares the
\* buffer with none: its verdict is the truth, and with a YES comes its model.
Promise == INSTANCE SatAnswer WITH Engines <- AllEngines
ImplementsAnswer == Promise!AnswerSpec

\* A call returns, although a solver may run for ever: the timeout ends it.
CallReturns == <>returned

\* So it is when the call asks one engine, whose thread shares the buffer with none.
AloneReturns == Cardinality(Asked) = 1 ~> returned

=============================================================================
