-------------------------- MODULE SatPortfolioProofs --------------------------
(***************************************************************************)
(* What a call of is_satisfiable or get_model_if_satisfiable returns, for  *)
(* any sets of engines and whatever chunks their threads steal from one    *)
(* another.  The threads of several engines share a buffer, so that        *)
(* nothing can be said of whose output a thread has read, nor of what it   *)
(* says.  When one engine is asked, every piece of output there is in the  *)
(* pipe, in the buffer and in the text was written by its shell or by its  *)
(* solver, which is truthful.                                              *)
(***************************************************************************)
EXTENDS SatPortfolio, SequenceTheorems, TLAPS

\* The pieces there can be: with one engine, a verdict among them is the truth.
Told == [kind : IF Promise!Alone THEN {"pid", query.truth} ELSE {"pid", "sat", "unsat", "torn", "cut"},
         of : Asked]

ThreadsOK ==
  /\ query \in [truth : {"sat", "unsat"}, model : BOOLEAN, asked : Portfolios]
  /\ returned \in BOOLEAN
  /\ pc \in [Asked -> Locations]
  /\ late \in [Asked -> BOOLEAN]
  /\ pid \in [Asked -> Asked \cup {NoEngine, Stranger}]
  /\ proc \in [Asked -> {"none", "forked", "solving", "ended"}]
  /\ num_read \in [Asked -> Nat]

OutputIsTold ==
  /\ text \in [Asked -> Seq(Told)]
  /\ pipe \in [Asked -> Seq(Told)]
  /\ buff \in Seq(Told)
  /\ \A e \in Asked : pc[e] = "copy" => buff # << >>

AnswerOK ==
  /\ result \in {"FAIL", "YES", "NO"}
  /\ model \in Asked \cup {NoEngine}
  /\ fastest \in AllEngines \cup {NoEngine}

\* A thread reads an answer to its end only from a process that ended, and is done
\* while its process runs only if it does not know its id.
Collected(e) ==
  /\ pc[e] = "start" => proc[e] \in {"none", "ended"}
  /\ pc[e] = "answered" => proc[e] = "ended"
  /\ pc[e] = "done" => proc[e] \in {"none", "ended"} \/ pid[e] = NoEngine

ReturnedLast == returned => \A e \in Asked : pc[e] = "done"

Inv ==
  /\ ThreadsOK
  /\ OutputIsTold
  /\ AnswerOK
  /\ \A e \in Asked : Collected(e)
  /\ ReturnedLast

-----------------------------------------------------------------------------
\* The beginning of a sequence and its rest have the elements of the sequence.
LEMMA Split ==
  ASSUME NEW S, NEW s \in Seq(S), NEW k \in 1..Len(s)
  PROVE  /\ SubSeq(s, 1, k) \in Seq(S)
         /\ SubSeq(s, 1, k) # << >>
         /\ SubSeq(s, k + 1, Len(s)) \in Seq(S)
<1>1. Len(s) \in Nat /\ k \in Nat /\ k >= 1 /\ k <= Len(s)
  BY LenProperties
<1>2. \A i \in 1..k : i \in 1..Len(s)
  BY <1>1
<1>3. \A i \in (k + 1)..Len(s) : i \in 1..Len(s)
  BY <1>1
<1>4. SubSeq(s, 1, k) \in Seq(S) /\ Len(SubSeq(s, 1, k)) = k
  BY <1>1, SubSeqProperties
<1>5. SubSeq(s, k + 1, Len(s)) \in Seq(S)
  BY <1>1, SubSeqProperties
<1>6. SubSeq(s, 1, k) # << >>
  BY <1>1, <1>4
<1> QED
  BY <1>4, <1>5, <1>6

\* The engines asked are among those there are, and there are some.
LEMMA AskedEngines == ThreadsOK => Asked \subseteq AllEngines /\ NoEngine \notin Asked
BY PortfolioAssumption DEF ThreadsOK, Asked

\* The initial state satisfies the invariant.
LEMMA InitInv == Init => Inv
<1> SUFFICES ASSUME Init PROVE Inv
  OBVIOUS
<1>1. ThreadsOK
  BY DEF Init, ThreadsOK, Locations
<1>2. OutputIsTold
  <2>1. << >> \in Seq(Told)
    BY EmptySeq
  <2>2. \A e \in Asked : pc[e] # "copy"
    BY DEF Init
  <2> QED
    BY <2>1, <2>2 DEF Init, OutputIsTold
<1>3. AnswerOK /\ (\A e \in Asked : Collected(e)) /\ ReturnedLast
  BY DEF Init, AnswerOK, Collected, ReturnedLast
<1> QED
  BY <1>1, <1>2, <1>3 DEF Inv

-----------------------------------------------------------------------------
\* A step that keeps the query keeps the pieces there can be.
LEMMA SameTold ==
  ASSUME UNCHANGED query
  PROVE  Told' = Told /\ Asked' = Asked
BY DEF Told, Asked, Promise!Alone

\* A piece written by the shell or by a truthful solver.
LEMMA PiecesTold ==
  ASSUME ThreadsOK, NEW e \in Asked
  PROVE  Piece("pid", e) \in Told /\ Piece(query.truth, e) \in Told
BY DEF Piece, Told, ThreadsOK

\* What a thread gets when the buffer is overwritten while it copies, which the
\* thread of an engine that is asked alone never sees.
LEMMA TornTold ==
  ASSUME NEW e \in Asked, buff \in Seq(Told), buff # << >>, Overwritten(e)
  PROVE  Torn(e) \in Seq(Told)
<1>1. Head(buff) \in Told
  BY HeadTailProperties
<1>2. Head(buff).of \in Asked /\ Head(buff).of # e
  BY <1>1 DEF Told, Overwritten
<1>3. ~Promise!Alone
  BY <1>2 DEF Promise!Alone, Asked
<1>4. \A kind \in {"torn", "cut"} : Piece(kind, e) \in Told
  BY <1>3 DEF Piece, Told
<1>5. \A piece \in Told : <<piece>> \in Seq(Told)
  OBVIOUS
<1>6. \E kind \in {"torn", "cut"} : Torn(e) = <<Piece(kind, e)>>
  BY DEF Torn
<1> QED
  BY <1>4, <1>5, <1>6

\* A verdict that a thread reads in its text is one; if no other engine is asked, it
\* is the truth, and the text is the engine's own.
LEMMA VerdictIsTold ==
  ASSUME ThreadsOK, OutputIsTold, NEW e \in Asked, NEW verdict \in Verdicts(e)
  PROVE  /\ verdict \in {"sat", "unsat"}
         /\ ParsedModels(e, verdict) \subseteq Asked \cup {NoEngine}
         /\ Promise!Alone =>
              /\ verdict = query.truth
              /\ ParsedModels(e, verdict) = IF verdict = "sat" THEN Asked ELSE {NoEngine}
<1>1. verdict \in {"sat", "unsat"}
  BY DEF Verdicts, ThreadsOK
<1>2. text[e] # << >>
  BY DEF Verdicts, FirstLine
<1>3. Head(text[e]) \in Told
  BY <1>2, HeadTailProperties DEF OutputIsTold
<1>4. FirstLine(e) = Head(text[e]).kind
  BY <1>2 DEF FirstLine
<1>5. Head(text[e]).of \in Asked
  BY <1>3 DEF Told
<1>6. ParsedModels(e, verdict) \subseteq Asked \cup {NoEngine}
  BY <1>5 DEF ParsedModels
<1>7. ASSUME Promise!Alone
      PROVE  /\ verdict = query.truth
             /\ ParsedModels(e, verdict) = IF verdict = "sat" THEN Asked ELSE {NoEngine}
  <2>1. FirstLine(e) \in {"pid", query.truth}
    BY <1>3, <1>4, <1>7 DEF Told
  <2>2. ~IsTorn(e) /\ FirstLine(e) # "torn" /\ FirstLine(e) # "cut"
    BY <2>1 DEF IsTorn, ThreadsOK
  <2>3. verdict = query.truth
    BY <1>1, <2>1, <2>2 DEF Verdicts
  <2>4. Asked = {Head(text[e]).of}
    BY <1>5, <1>7 DEF Promise!Alone, Asked
  <2> QED
    BY <2>2, <2>3, <2>4 DEF ParsedModels
<1> QED
  BY <1>1, <1>6, <1>7

-----------------------------------------------------------------------------
(* One step per action *)

\* The actions, one by one.
LEMMA Actions ==
  ASSUME Next
  PROVE  \/ Return
         \/ \E e \in Asked :
              \/ Launch(e) \/ Read(e) \/ ReadNothing(e) \/ ReadEnd(e) \/ Copy(e) \/ KeepPolling(e)
              \/ Kill(e) \/ Abandon(e) \/ Pclose(e) \/ Respond(e)
              \/ Tick(e) \/ Echo(e) \/ Solve(e) \/ GiveUp(e)
BY DEF Next, Step, Poll, Solver

\* The threads and processes keep their types.
LEMMA ThreadsStep ==
  ASSUME Inv, Next
  PROVE  ThreadsOK' /\ UNCHANGED query
<1> USE DEF ThreadsOK, GoTo, Locations, threads, solvers, answer, chunk
<1>0. ThreadsOK
  BY DEF Inv
<1>1. CASE Return
  BY <1>0, <1>1 DEF Return, Asked
<1>2. ASSUME NEW e \in Asked,
             \/ Launch(e) \/ Read(e) \/ ReadNothing(e) \/ ReadEnd(e) \/ KeepPolling(e)
             \/ Kill(e) \/ Abandon(e) \/ Pclose(e) \/ Respond(e)
             \/ Tick(e) \/ Echo(e) \/ Solve(e) \/ GiveUp(e)
      PROVE  ThreadsOK' /\ UNCHANGED query
  <2>1. CASE Launch(e)
    BY <1>0, <1>2, <2>1 DEF Launch, Asked
  <2>2. CASE Read(e)
    BY <1>0, <1>2, <2>2 DEF Read, Asked
  <2>3. CASE ReadNothing(e)
    BY <1>0, <1>2, <2>3 DEF ReadNothing, Asked
  <2>4. CASE ReadEnd(e)
    BY <1>0, <1>2, <2>4 DEF ReadEnd, Asked
  <2>5. CASE KeepPolling(e)
    BY <1>0, <1>2, <2>5 DEF KeepPolling, Asked
  <2>6. CASE Kill(e)
    BY <1>0, <1>2, <2>6 DEF Kill, Asked
  <2>7. CASE Abandon(e)
    BY <1>0, <1>2, <2>7 DEF Abandon, Asked
  <2>8. CASE Pclose(e)
    BY <1>0, <1>2, <2>8 DEF Pclose, Asked
  <2>9. CASE Respond(e)
    BY <1>0, <1>2, <2>9 DEF Respond, Asked
  <2>10. CASE Tick(e)
    BY <1>0, <1>2, <2>10 DEF Tick, Asked
  <2>11. CASE Echo(e)
    BY <1>0, <1>2, <2>11 DEF Echo, Asked
  <2>12. CASE Solve(e)
    BY <1>0, <1>2, <2>12 DEF Solve, Asked
  <2>13. CASE GiveUp(e)
    BY <1>0, <1>2, <2>13 DEF GiveUp, Asked
  <2> QED
    BY <1>2, <2>1, <2>2, <2>3, <2>4, <2>5, <2>6, <2>7, <2>8, <2>9, <2>10, <2>11, <2>12, <2>13
<1>3. ASSUME NEW e \in Asked, Copy(e)
      PROVE  ThreadsOK' /\ UNCHANGED query
  <2>1. Head(buff) \in Told
    BY <1>3, HeadTailProperties DEF Copy, Inv, OutputIsTold
  <2>2. Head(buff).of \in Asked
    BY <2>1 DEF Told
  <2>3. pid' \in [Asked -> Asked \cup {NoEngine, Stranger}]
    <3>1. \/ UNCHANGED pid
          \/ \E id \in {e, Head(buff).of, Stranger} : pid' = [pid EXCEPT ![e] = id]
      BY <1>3 DEF Copy
    <3> QED
      BY <1>0, <1>3, <2>2, <3>1
  <2>4. pc' \in [Asked -> Locations]
    <3>1. \E l \in {"check", "threw"} : pc' = [pc EXCEPT ![e] = l]
      BY <1>3 DEF Copy
    <3> QED
      BY <1>0, <3>1
  <2>5. UNCHANGED <<query, returned, late, proc>> /\ num_read' = [num_read EXCEPT ![e] = 0]
    BY <1>3 DEF Copy
  <2> QED
    BY <1>0, <2>3, <2>4, <2>5 DEF Asked
<1> QED
  BY <1>1, <1>2, <1>3, Actions

\* What is in the pipes, in the buffer and in the texts stays true.
LEMMA OutputStep ==
  ASSUME Inv, Next
  PROVE  OutputIsTold'
<1>0. ThreadsOK /\ OutputIsTold /\ Told' = Told /\ Asked' = Asked
  BY ThreadsStep, SameTold DEF Inv
<1>1. ASSUME NEW e \in Asked, NEW l \in Locations, l # "copy", pc' = [pc EXCEPT ![e] = l],
             UNCHANGED <<text, pipe, buff>>
      PROVE  OutputIsTold'
  BY <1>0, <1>1 DEF ThreadsOK, OutputIsTold
<1>2. CASE Return
  BY <1>0, <1>2 DEF Return, OutputIsTold, threads, solvers, chunk
<1>3. ASSUME NEW e \in Asked,
             \/ Launch(e) \/ ReadNothing(e) \/ ReadEnd(e) \/ KeepPolling(e)
             \/ Kill(e) \/ Abandon(e) \/ Pclose(e) \/ Respond(e)
      PROVE  OutputIsTold'
  <2>1. /\ UNCHANGED <<text, pipe, buff>>
        /\ \E l \in Locations \ {"copy"} : pc' = [pc EXCEPT ![e] = l]
    BY <1>3 DEF Launch, ReadNothing, ReadEnd, KeepPolling, Kill, Abandon, Pclose, Respond,
       GoTo, Locations, solvers, chunk
  <2> QED
    BY <1>1, <2>1
<1>4. ASSUME NEW e \in Asked, Read(e)
      PROVE  OutputIsTold'
  <2>1. PICK k \in 1..Len(pipe[e]) :
          /\ buff' = SubSeq(pipe[e], 1, k)
          /\ pipe' = [pipe EXCEPT ![e] = SubSeq(@, k + 1, Len(@))]
    BY <1>4 DEF Read
  <2>2. pipe[e] \in Seq(Told)
    BY <1>0 DEF OutputIsTold
  <2>3. buff' \in Seq(Told) /\ buff' # << >> /\ pipe' \in [Asked -> Seq(Told)]
    BY <1>0, <2>1, <2>2, Split DEF OutputIsTold
  <2> QED
    BY <1>0, <1>4, <2>3 DEF Read, OutputIsTold
<1>5. ASSUME NEW e \in Asked, Copy(e)
      PROVE  OutputIsTold'
  <2>1. /\ text[e] \in Seq(Told)
        /\ buff \in Seq(Told)
        /\ buff # << >>
    BY <1>0, <1>5 DEF OutputIsTold, Copy
  <2>2. /\ text[e] \o buff \in Seq(Told)
        /\ text[e] \o Tail(buff) \in Seq(Told)
        /\ Overwritten(e) => text[e] \o Torn(e) \in Seq(Told)
    BY <2>1, TornTold, ConcatProperties, HeadTailProperties
  <2>3. \/ UNCHANGED text
        \/ \E s \in Seq(Told) : text' = [text EXCEPT ![e] = s]
    BY <1>5, <2>2 DEF Copy
  <2>4. text' \in [Asked -> Seq(Told)]
    BY <1>0, <2>3 DEF OutputIsTold
  <2>5. \E l \in {"check", "threw"} : pc' = [pc EXCEPT ![e] = l]
    BY <1>5 DEF Copy, GoTo
  <2>6. \A d \in Asked : pc'[d] = "copy" => pc[d] = "copy"
    BY <1>0, <2>5 DEF ThreadsOK
  <2> QED
    BY <1>0, <1>5, <2>4, <2>6 DEF Copy, OutputIsTold, solvers
<1>6. ASSUME NEW e \in Asked, Tick(e) \/ GiveUp(e)
      PROVE  OutputIsTold'
  BY <1>0, <1>6 DEF Tick, GiveUp, OutputIsTold, threads, solvers, chunk
<1>7. ASSUME NEW e \in Asked, Echo(e) \/ Solve(e)
      PROVE  OutputIsTold'
  <2>1. \E piece \in Told : pipe' = [pipe EXCEPT ![e] = Append(@, piece)]
    BY <1>0, <1>7, PiecesTold DEF Echo, Solve
  <2>2. pipe' \in [Asked -> Seq(Told)]
    BY <1>0, <2>1, AppendProperties DEF OutputIsTold
  <2> QED
    BY <1>0, <1>7, <2>2 DEF Echo, Solve, OutputIsTold, threads, chunk
<1> QED
  BY <1>2, <1>3, <1>4, <1>5, <1>6, <1>7, Actions

\* All steps but those that write the answer leave it alone, and so does every
\* step of a thread that has nothing to say; a verdict is written once.
LEMMA AnswerStep ==
  ASSUME Inv, Next
  PROVE  /\ UNCHANGED Promise!answerVars \/ Promise!Return \/ Promise!Decide
         /\ AnswerOK'
<1>0. /\ ThreadsOK /\ OutputIsTold /\ AnswerOK /\ ReturnedLast
      /\ UNCHANGED query /\ Asked' = Asked
  BY ThreadsStep, SameTold DEF Inv
<1>1. CASE UNCHANGED Promise!answerVars \/ Promise!Return
  BY <1>0, <1>1 DEF AnswerOK, Promise!answerVars, Promise!Return
<1>2. CASE Return
  BY <1>1, <1>2 DEF Return, Promise!Return, answer
<1>3. ASSUME NEW e \in Asked,
             \/ Launch(e) \/ Read(e) \/ ReadNothing(e) \/ ReadEnd(e) \/ Copy(e) \/ KeepPolling(e)
             \/ Kill(e) \/ Abandon(e) \/ Pclose(e) \/ Tick(e) \/ Echo(e) \/ Solve(e) \/ GiveUp(e)
      PROVE  UNCHANGED Promise!answerVars
  BY <1>3 DEF Launch, Read, ReadNothing, ReadEnd, Copy, KeepPolling, Kill, Abandon, Pclose, Tick,
     Echo, Solve, GiveUp, answer, Promise!answerVars
<1>4. ASSUME NEW e \in Asked, Respond(e)
      PROVE  UNCHANGED Promise!answerVars \/ (Promise!Decide /\ AnswerOK')
  <2>1. ~returned /\ UNCHANGED <<query, returned>>
    BY <1>0, <1>4 DEF Respond, ReturnedLast
  <2>2. CASE UNCHANGED answer
    BY <2>1, <2>2 DEF answer, Promise!answerVars
  <2>3. ASSUME NEW verdict \in Verdicts(e), WriteSatResult(e, verdict), result = "FAIL"
        PROVE  Promise!Decide /\ AnswerOK'
    <3>1. /\ result' = Verdict(verdict)
          /\ fastest' = NamesAsFastest(e)
          /\ model' \in IF query.model THEN ParsedModels(e, verdict) ELSE {NoEngine}
      BY <2>3 DEF WriteSatResult
    <3>2. /\ verdict \in IF Promise!Alone THEN {query.truth} ELSE {"sat", "unsat"}
          /\ model' \in Promise!Models(verdict)
          /\ model' \in Asked \cup {NoEngine}
      BY <1>0, <3>1, VerdictIsTold DEF Promise!Models, Asked
    <3>3. e \in AllEngines
      BY <1>0, AskedEngines
    <3>4. fastest' \in AllEngines /\ (query.model => fastest' = e)
      BY <3>1, <3>3 DEF NamesAsFastest, AllEngines
    <3>5. result' = Promise!Verdict(verdict) /\ result' \in {"YES", "NO"}
      BY <3>1 DEF Promise!Verdict, Verdict
    <3>6. fastest' \in IF Promise!Alone /\ query.model THEN query.asked ELSE AllEngines
      BY <3>4 DEF Asked
    <3>7. Promise!Decide
      BY <2>1, <2>3, <3>2, <3>5, <3>6 DEF Promise!Decide
    <3>8. AnswerOK'
      BY <1>0, <3>2, <3>4, <3>5 DEF AnswerOK
    <3> QED
      BY <3>7, <3>8
  <2> QED
    BY <1>4, <2>2, <2>3 DEF Respond, WriteSatResult
<1> QED
  BY <1>1, <1>2, <1>3, <1>4, Actions

\* What runs of a process that its thread has left: a step of another thread or of
\* its solver does not start it.
LEMMA CollectedStep ==
  ASSUME Inv, Next
  PROVE  (\A e \in Asked : Collected(e))'
<1> SUFFICES ASSUME NEW d \in Asked PROVE Collected(d)'
  BY ThreadsStep, SameTold
<1>0. ThreadsOK /\ Collected(d)
  BY DEF Inv
<1>1. CASE Return
  BY <1>0, <1>1 DEF Return, Collected, threads, solvers
<1>2. ASSUME NEW e \in Asked, Launch(e) PROVE Collected(d)'
  BY <1>0, <1>2 DEF Launch, Collected, ThreadsOK, GoTo
<1>3. ASSUME NEW e \in Asked, Read(e) \/ ReadNothing(e) \/ ReadEnd(e) \/ KeepPolling(e)
      PROVE  Collected(d)'
  BY <1>0, <1>3 DEF Read, ReadNothing, ReadEnd, KeepPolling, Collected, ThreadsOK, GoTo, solvers
<1>4. ASSUME NEW e \in Asked, Copy(e) PROVE Collected(d)'
  <2>1. \E l \in {"check", "threw"} : pc' = [pc EXCEPT ![e] = l]
    BY <1>4 DEF Copy, GoTo
  <2>2. UNCHANGED proc /\ (d # e => pid'[d] = pid[d])
    BY <1>0, <1>4 DEF Copy, solvers, ThreadsOK
  <2> QED
    BY <1>0, <2>1, <2>2 DEF Collected, ThreadsOK
<1>5. ASSUME NEW e \in Asked, Kill(e) PROVE Collected(d)'
  BY <1>0, <1>5 DEF Kill, Collected, ThreadsOK, GoTo
<1>6. ASSUME NEW e \in Asked, Abandon(e) \/ Pclose(e) PROVE Collected(d)'
  BY <1>0, <1>6 DEF Abandon, Pclose, Collected, ThreadsOK, GoTo, solvers
<1>7. ASSUME NEW e \in Asked, Respond(e) PROVE Collected(d)'
  <2>1. pc[e] = "answered" /\ pc' = [pc EXCEPT ![e] = "done"] /\ UNCHANGED <<pid, proc>>
    BY <1>7 DEF Respond, GoTo, solvers
  <2>2. Collected(e)
    BY DEF Inv
  <2> QED
    BY <1>0, <2>1, <2>2 DEF Collected, ThreadsOK
<1>8. ASSUME NEW e \in Asked, Tick(e) \/ Echo(e) \/ Solve(e) \/ GiveUp(e) PROVE Collected(d)'
  BY <1>0, <1>8 DEF Tick, Echo, Solve, GiveUp, Collected, ThreadsOK, threads, solvers
<1> QED
  BY <1>1, <1>2, <1>3, <1>4, <1>5, <1>6, <1>7, <1>8, Actions

\* The caller returns after its threads, and they have nothing left to do.
LEMMA ReturnedStep ==
  ASSUME Inv, Next
  PROVE  ReturnedLast'
<1>0. ThreadsOK /\ ReturnedLast /\ Asked' = Asked
  BY ThreadsStep, SameTold DEF Inv
<1>1. CASE Return
  BY <1>0, <1>1 DEF Return, ReturnedLast, threads
<1>2. ASSUME NEW e \in Asked,
             \/ Launch(e) \/ Read(e) \/ ReadNothing(e) \/ ReadEnd(e) \/ Copy(e) \/ KeepPolling(e)
             \/ Kill(e) \/ Abandon(e) \/ Pclose(e) \/ Respond(e)
      PROVE  ReturnedLast'
  <2>1. pc[e] # "done" /\ UNCHANGED returned
    BY <1>2 DEF Launch, Read, ReadNothing, ReadEnd, Copy, KeepPolling, Kill, Abandon, Pclose, Respond
  <2> QED
    BY <1>0, <2>1 DEF ReturnedLast
<1>3. ASSUME NEW e \in Asked, Tick(e) \/ Echo(e) \/ Solve(e) \/ GiveUp(e)
      PROVE  ReturnedLast'
  BY <1>0, <1>3 DEF Tick, Echo, Solve, GiveUp, ReturnedLast, threads
<1> QED
  BY <1>1, <1>2, <1>3, Actions

\* Every step keeps it.
LEMMA StepInv == Inv /\ [Next]_vars => Inv'
<1>1. CASE Inv /\ Next
  BY <1>1, ThreadsStep, OutputStep, AnswerStep, CollectedStep, ReturnedStep DEF Inv
<1>2. CASE Inv /\ UNCHANGED vars
  BY <1>2 DEF Inv, ThreadsOK, OutputIsTold, AnswerOK, Collected, ReturnedLast, Told, Asked,
     Promise!Alone, vars, answer, threads, solvers, chunk
<1> QED
  BY <1>1, <1>2

\* It is an invariant.
LEMMA Invariance == Spec => []Inv
BY InitInv, StepInv, PTL DEF Spec

-----------------------------------------------------------------------------
\* Every variable keeps its type, whatever the threads copy from one another.
THEOREM TypeCorrect == Spec => []TypeOK
<1>1. Inv => TypeOK
  <2> SUFFICES ASSUME Inv PROVE TypeOK
    OBVIOUS
  <2>1. Told \subseteq Pieces
    BY DEF Told, Pieces, Inv, ThreadsOK
  <2>2. Seq(Told) \subseteq Seq(Pieces)
    BY <2>1
  <2>3. /\ text \in [Asked -> Seq(Pieces)]
        /\ pipe \in [Asked -> Seq(Pieces)]
        /\ buff \in Seq(Pieces)
    BY <2>2 DEF Inv, OutputIsTold
  <2> QED
    BY <2>3 DEF Inv, ThreadsOK, AnswerOK, TypeOK
<1> QED
  BY <1>1, Invariance, PTL

\* No solver outlives a call that returned, unless its id was never read.
THEOREM SolversAlwaysCollected == Spec => []SolversAreCollected
<1>1. Inv => SolversAreCollected
  BY DEF Inv, ReturnedLast, Collected, SolversAreCollected
<1> QED
  BY <1>1, Invariance, PTL

\* A call keeps what SatAnswer promises: the first verdict stands, and is the truth
\* with the engine's own model if that engine was asked alone.
THEOREM AnswerImplemented == Spec => ImplementsAnswer
<1>1. Init => Promise!AnswerInit
  BY DEF Init, Promise!AnswerInit, Promise!Queries
<1>2. Inv /\ [Next]_vars => [Promise!Decide \/ Promise!Return]_(Promise!answerVars)
  <2>1. CASE Inv /\ Next
    BY <2>1, AnswerStep
  <2>2. CASE UNCHANGED vars
    BY <2>2 DEF vars, answer, Promise!answerVars
  <2> QED
    BY <2>1, <2>2
<1> QED
  BY <1>1, <1>2, Invariance, PTL DEF Spec, ImplementsAnswer, Promise!AnswerSpec
=============================================================================
