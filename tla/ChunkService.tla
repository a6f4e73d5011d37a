---------------------------- MODULE ChunkService ----------------------------
(***************************************************************************)
(* What the worker pool promises to the strategies that call               *)
(* WorkerPoolService.run: a chunk handed in is answered at most once, with *)
(* the comparison of that very chunk or with one TRANSFORM_ERROR standing  *)
(* for the whole of it; and every chunk handed in is answered.             *)
(***************************************************************************)
CONSTANTS Task,     \* the chunks (CompareTask objects) that may be handed in
          Failed,   \* the answer of a chunk whose thread died
          None      \* not answered yet

VARIABLES submitted,   \* chunks handed to run() so far
          answer       \* chunk -> the chunk whose comparison answered it,
                       \*          Failed, or None

vars == <<submitted, answer>>

Init == /\ submitted = {}
        /\ answer = [t \in Task |-> None]

Submit(t) == /\ t \notin submitted
             /\ submitted' = submitted \cup {t}
             /\ UNCHANGED answer

Answer(t) == /\ t \in submitted
             /\ answer[t] = None
             /\ \E a \in {t, Failed} : answer' = [answer EXCEPT ![t] = a]
             /\ UNCHANGED submitted

Next == \E t \in Task : Submit(t) \/ Answer(t)

Safety   == Init /\ [][Next]_vars
Fairness == \A t \in Task : WF_vars(Answer(t))
Spec     == Safety /\ Fairness
=============================================================================
