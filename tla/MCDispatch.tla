----------------------------- MODULE MCDispatch -----------------------------
(* TLC instances of Dispatch.                                              *)
EXTENDS Dispatch, TLC

(* Nothing tells two processes or two plans apart.                         *)
Symmetry == Permutations(Verb) \cup Permutations(Worker) \cup Permutations(Plan)

(* The fingerprint leaves out what no guard and no property reads: which   *)
(* of the results other than a success it was, the epoch of a closed task, *)
(* and that a command was overtaken once it has ended.  Two states it      *)
(* identifies differ in nothing else and have the same successors.         *)
Succeeds(r) == r = "success"
Answer(m) == <<m.from, Succeeds(m.kind)>>

Relevant ==
    <<[t \in DOMAIN task |-> IF task[t].status = "closed" THEN "closed" ELSE task[t]],
      manifest, verb, auto, {Answer(m) : m \in inbox},
      IF parent.at = "handle" THEN <<parent.task, parent.handoff, parent.child, Answer(parent.got)>>
      ELSE parent,
      [w \in Worker |-> [worker[w] EXCEPT !.result = Succeeds(@)]],
      {v \in overtaken : verb[v].at # "idle"}, stuck, budget>>
=============================================================================
