----------------------- MODULE WorkflowExecutor_proofs -----------------------
(* Proofs about WorkflowExecutor, and about the run of the app around it   *)
(* (WorkflowRun), for every set of nodes and workflows.                    *)
EXTENDS WorkflowRun, FiniteSetTheorems, TLAPS

(* The connections that may count are finite in number. *)
LEMMA IntoFinite ==
  ASSUME TypeOK, NEW m
  PROVE  IsFiniteSet(Into(m)) /\ IsFiniteSet(Unsatisfied(m))
<1>1. Into(m) \subseteq workflow.connections
  BY DEF Into, Live
<1>2. Unsatisfied(m) \subseteq Into(m)
  BY DEF Unsatisfied
<1> QED
  BY <1>1, <1>2, FS_Subset DEF TypeOK

(* What FinishNode takes off in_degree are the connections it satisfies. *)
LEMMA FinishSatisfies ==
  ASSUME Inv, NEW r \in Result, FinishNode(r), NEW m \in workflow.enabled
  PROVE  LET taken == {c \in OutOf(current) :
                         /\ c.to \notin processed /\ Passes(c, r)
                         /\ c.to = m}
         IN /\ taken \subseteq Unsatisfied(m)
            /\ Unsatisfied(m)' = Unsatisfied(m) \ taken
<1> DEFINE taken == {c \in OutOf(current) :
                       /\ c.to \notin processed /\ Passes(c, r)
                       /\ c.to = m}
<1>1. /\ current \in workflow.enabled
      /\ current \in Node
      /\ current \notin Completed
      /\ current \in processed
  BY DEF Inv, TypeOK, FinishNode, ResultsAreExact, Running, Workflow,
         WorkflowAssumption
<1>2. \A c \in Into(m) : c.from = current => ~Satisfied(c)
  BY <1>1 DEF Satisfied
<1>3. taken \subseteq Unsatisfied(m)
  BY <1>2 DEF OutOf, Into, Unsatisfied
<1>4. workflow' = workflow /\ result' = [result EXCEPT ![current] = r]
  BY DEF FinishNode, Passing
<1>5. r # "none" /\ (workflow.kind[current] = "confirm" => r # "fail")
  BY WorkflowAssumption DEF FinishNode, Passing, Answers
<1>6. Completed' = Completed \cup {current}
  BY <1>1, <1>4, <1>5 DEF Completed, Inv, TypeOK
<1>7. ASSUME NEW c \in Into(m), c.from # current
      PROVE  Satisfied(c)' <=> Satisfied(c)
  BY <1>4, <1>6, <1>7 DEF Satisfied, Refused, Passes, Inv, TypeOK, Completed
<1>8. ASSUME NEW c \in Into(m), c.from = current
      PROVE  Satisfied(c)' <=> Passes(c, r)
  BY <1>1, <1>4, <1>5, <1>6, <1>8
     DEF Satisfied, Refused, Passes, Inv, TypeOK, Completed
<1>9. Into(m)' = Into(m)
  BY <1>4 DEF Into, Live
<1>10. m \in processed => Unsatisfied(m) = {}
  BY DEF Inv, QueuesAreExact
<1>11. ASSUME NEW c \in Into(m), c.from = current, Passes(c, r)
       PROVE  c \in taken
  <2>1. m \notin processed
    BY <1>2, <1>10, <1>11 DEF Unsatisfied
  <2> QED
    BY <1>11, <2>1 DEF Into, OutOf
<1>12. ASSUME NEW c \in taken
       PROVE  c \in Into(m) /\ c.from = current /\ Passes(c, r)
  BY DEF OutOf, Into
<1>13. Unsatisfied(m)' = Unsatisfied(m) \ taken
  <2>1. Unsatisfied(m)' = {c \in Into(m) : ~(Satisfied(c)')}
    BY <1>9 DEF Unsatisfied
  <2> QED
    BY <2>1, <1>2, <1>7, <1>8, <1>11, <1>12 DEF Unsatisfied
<1> QED
  BY <1>3, <1>13

(* The invariant holds when execute_workflow starts. *)
LEMMA InitInv == Init => Inv
<1> SUFFICES ASSUME Init PROVE Inv
  OBVIOUS
<1>1. TypeOK
  <2>1. workflow \in Workflow /\ IsFiniteSet(workflow.connections)
    BY WorkflowAssumption DEF Init
  <2>2. \A m : IsFiniteSet({c \in Live(workflow) : c.to = m})
    BY <2>1, FS_Subset DEF Live
  <2>3. \A m : Cardinality({c \in Live(workflow) : c.to = m}) \in Nat
    BY <2>2, FS_CardinalityType
  <2>31. inDegree = [n \in Node |-> Cardinality({c \in Live(workflow) : c.to = n})]
    BY DEF Init, Begun
  <2>32. inDegree \in [Node -> Int]
    <3>1. \A n \in Node : Cardinality({c \in Live(workflow) : c.to = n}) \in Int
      BY <2>3
    <3> QED
      BY <2>31, <3>1
  <2>4. workflow.enabled \subseteq Node
    BY <2>1 DEF Workflow
  <2> QED
    BY <2>1, <2>32, <2>4
       DEF TypeOK, Init, Begun, Roots, Phase, Ending, Result
<1>2. Completed = {}
  BY DEF Init, Completed
<1>3. \A m : Unsatisfied(m) = {c \in Live(workflow) : c.to = m}
  BY <1>2 DEF Unsatisfied, Into, Satisfied
<1>4. DegreeIsExact
  BY <1>1, <1>3 DEF DegreeIsExact, Init, Begun, TypeOK, Workflow
<1>5. QueuesAreExact
  BY <1>3 DEF QueuesAreExact, Init, Begun, Roots, Waiting, Asleep
<1>6. ResultsAreExact
  <2>1. Running = {}
    BY DEF Running, Init, Begun
  <2> QED
    BY <1>2, <2>1 DEF ResultsAreExact, Init, Begun
<1> QED
  BY <1>1, <1>4, <1>5, <1>6 DEF Inv

(* A step that leaves results and the graph alone leaves what is satisfied. *)
LEMMA SameUnsatisfied ==
  ASSUME workflow' = workflow, result' = result, NEW m
  PROVE  /\ Into(m)' = Into(m) /\ Completed' = Completed
         /\ Unsatisfied(m)' = Unsatisfied(m)
<1>1. Into(m)' = Into(m) /\ Completed' = Completed
  BY DEF Into, Live, Completed
<1>2. \A c : Satisfied(c)' <=> Satisfied(c)
  BY <1>1 DEF Satisfied, Refused, Passes
<1> QED
  BY <1>1, <1>2 DEF Unsatisfied

(* FinishNode, the step that counts connections, keeps each part. *)
LEMMA FinishKeepsInv ==
  ASSUME Inv, NEW r \in Result, FinishNode(r)
  PROVE  Inv'
<1> DEFINE passing == {c \in OutOf(current) :
                         c.to \notin processed /\ Passes(c, r)}
           taken(m) == {c \in OutOf(current) :
                          /\ c.to \notin processed /\ Passes(c, r)
                          /\ c.to = m}
           degree == [m \in Node |->
                        inDegree[m] - Cardinality({c \in passing : c.to = m})]
<1>1. /\ current \in workflow.enabled
      /\ current \in processed /\ current \notin Completed
      /\ workflow' = workflow /\ processed' = processed /\ ready' = ready
      /\ phase = "node" /\ phase' = "loop" /\ current' = NoNode
      /\ result' = [result EXCEPT ![current] = r]
      /\ inDegree' = degree
      /\ nextReady' = nextReady \cup
                        {c.to : c \in {d \in passing : degree[d.to] <= 0}}
      /\ level' = level /\ ending' = ending /\ cancelled' = cancelled
      /\ r \in Answers(workflow.kind[current]) /\ r # "none"
  <2>1. current \in workflow.enabled /\ current \in processed
        /\ current \notin Completed
    BY DEF Inv, TypeOK, FinishNode, ResultsAreExact, Running, Workflow,
           WorkflowAssumption
  <2>2. r # "none"
    BY WorkflowAssumption DEF FinishNode, Passing, Answers
  <2> QED
    BY <2>1, <2>2 DEF FinishNode, Passing
<1>2. workflow.enabled \subseteq Node /\ workflow \in Workflow
  BY DEF Inv, TypeOK, Workflow
<1>3. \A m : {c \in passing : c.to = m} = taken(m)
  OBVIOUS
<1>4. \A m \in workflow.enabled :
        taken(m) \subseteq Unsatisfied(m)
        /\ Unsatisfied(m)' = Unsatisfied(m) \ taken(m)
  BY FinishSatisfies
<1>5. \A m : IsFiniteSet(taken(m))
  <2>1. \A m : taken(m) \subseteq workflow.connections
    BY DEF OutOf, Live
  <2> QED
    BY <2>1, FS_Subset DEF Inv, TypeOK
<1>6. \A m : IsFiniteSet(Unsatisfied(m))
  BY IntoFinite DEF Inv
<1>7. TypeOK'
  <2>1. inDegree' \in [Node -> Int]
    <3>1. \A m : Cardinality(taken(m)) \in Nat
      BY <1>5, FS_CardinalityType
    <3>2. \A m \in Node : degree[m] = inDegree[m] - Cardinality(taken(m))
      BY <1>3
    <3>3. \A m \in Node : inDegree[m] \in Int
      BY DEF Inv, TypeOK
    <3> HIDE DEF taken
    <3>4. \A m \in Node : degree[m] \in Int
      BY <3>1, <3>2, <3>3
    <3> QED
      BY <1>1, <3>4
  <2>2. nextReady' \subseteq workflow.enabled
    BY <1>1 DEF Inv, TypeOK, OutOf, Live
  <2> QED
    BY <1>1, <2>1, <2>2 DEF Inv, TypeOK, Phase
<1>8. \A m \in workflow.enabled : degree[m] = Cardinality(Unsatisfied(m)')
  <2> SUFFICES ASSUME NEW m \in workflow.enabled
               PROVE  degree[m] = Cardinality(Unsatisfied(m)')
    OBVIOUS
  <2>1. Unsatisfied(m) \cap taken(m) = taken(m)
    BY <1>4
  <2>2. Cardinality(Unsatisfied(m) \ taken(m))
          = Cardinality(Unsatisfied(m)) - Cardinality(taken(m))
    BY <1>5, <1>6, <2>1, FS_Difference
  <2>3. degree[m] = inDegree[m] - Cardinality(taken(m))
    BY <1>2, <1>3
  <2>4. inDegree[m] = Cardinality(Unsatisfied(m))
    BY DEF Inv, DegreeIsExact
  <2> QED
    BY <1>4, <2>2, <2>3, <2>4
<1>9. DegreeIsExact'
  BY <1>1, <1>8 DEF DegreeIsExact
<1>10. \A m \in workflow.enabled : degree[m] <= 0 <=> Unsatisfied(m)' = {}
  <2> SUFFICES ASSUME NEW m \in workflow.enabled
               PROVE  degree[m] <= 0 <=> Unsatisfied(m)' = {}
    OBVIOUS
  <2>1. IsFiniteSet(Unsatisfied(m)')
    BY <1>4, <1>6, FS_Subset
  <2>2. Cardinality(Unsatisfied(m)') \in Nat
        /\ (Cardinality(Unsatisfied(m)') = 0 <=> Unsatisfied(m)' = {})
    BY <2>1, FS_CardinalityType, FS_EmptySet
  <2> QED
    BY <1>8, <2>2
<1>11. QueuesAreExact'
  <2> DEFINE fresh == {c.to : c \in {d \in passing : degree[d.to] <= 0}}
  <2>1. fresh = {m \in workflow.enabled :
                   taken(m) # {} /\ Unsatisfied(m)' = {}}
    <3>1. \A c \in passing : c.to \in workflow.enabled /\ c \in taken(c.to)
      BY DEF OutOf, Live
    <3>2. \A m : \A c \in taken(m) : c \in passing /\ c.to = m
      OBVIOUS
    <3> HIDE DEF passing, taken, degree
    <3> QED
      BY <3>1, <3>2, <1>10
  <2>2. \A m \in fresh : Unsatisfied(m) # {}
    BY <1>4, <2>1
  <2>3. fresh \cap (processed \cup Waiting) = {}
    BY <2>2 DEF Inv, QueuesAreExact
  <2>4. Waiting = ready \cup nextReady /\ Waiting' = Waiting \cup fresh
        /\ Asleep' = {} /\ processed' = processed
    BY <1>1 DEF Waiting, Asleep
  <2>5. processed \cup (Waiting \cup fresh)
          = {m \in workflow.enabled : Unsatisfied(m)' = {}}
    <3>1. processed \cup Waiting
            = {m \in workflow.enabled : Unsatisfied(m) = {}}
      BY DEF Inv, QueuesAreExact
    <3>2. \A m \in workflow.enabled :
            Unsatisfied(m)' = {} <=> Unsatisfied(m) = {} \/ m \in fresh
      BY <1>4, <2>1
    <3> HIDE DEF fresh
    <3> QED
      BY <3>1, <3>2, <2>1
  <2>6. (ready \cap nextReady)' = {}
    BY <1>1, <2>3, <2>4 DEF Inv, QueuesAreExact
  <2>7. workflow'.enabled = workflow.enabled
    BY <1>1
  <2> HIDE DEF fresh
  <2> QED
    BY <2>3, <2>4, <2>5, <2>6, <2>7 DEF Inv, QueuesAreExact
<1>12. ResultsAreExact'
  <2>1. Completed' = Completed \cup {current}
    BY <1>1, <1>2 DEF Completed, Inv, TypeOK
  <2>2. Running = {current} /\ Running' = {}
    BY <1>1 DEF Running
  <2>3. \A n \in Completed' : result'[n] \in Answers(workflow'.kind[n])
    BY <1>1, <1>2, <2>1 DEF Inv, ResultsAreExact, TypeOK, Completed
  <2>4. \A n \in Completed' : ~(Refused(n)')
    <3>1. \A n \in Completed : ~Refused(n)
      BY <1>1 DEF Inv, ResultsAreExact
    <3>2. current \in Node /\ result'[current] = r
          /\ \A n \in Node : n # current => result'[n] = result[n]
      BY <1>1, <1>2 DEF Inv, TypeOK
    <3>3. workflow.kind[current] = "confirm" => r # "fail"
      BY DEF FinishNode, Passing
    <3>4. \A n \in Node : n # current => (Refused(n)' <=> Refused(n))
      BY <1>1, <3>2 DEF Refused
    <3>5. \A n \in Node : n = current => ~(Refused(n)')
      BY <1>1, <3>2, <3>3 DEF Refused
    <3>6. Completed \subseteq Node
      BY DEF Completed
    <3> QED
      BY <2>1, <3>1, <3>2, <3>4, <3>5, <3>6
  <2> QED
    BY <1>1, <2>1, <2>2, <2>3, <2>4 DEF Inv, ResultsAreExact
<1> QED
  BY <1>7, <1>9, <1>11, <1>12 DEF Inv

(* Every other step leaves the answers alone and only moves nodes between  *)
(* the queues, the sleep and the started nodes.                            *)
LEMMA NextKeepsInv == Inv /\ [Next]_vars => Inv'
<1> SUFFICES ASSUME Inv, [Next]_vars PROVE Inv'
  OBVIOUS
<1> USE DEF Inv
<1>0. workflow \in Workflow /\ workflow.enabled \subseteq Node
      /\ NoNode \notin workflow.enabled
  BY WorkflowAssumption DEF TypeOK, Workflow
<1>1. ASSUME workflow' = workflow, result' = result, inDegree' = inDegree
      PROVE  /\ DegreeIsExact'
             /\ Completed' = Completed
             /\ \A n : Refused(n)' <=> Refused(n)
             /\ {m \in workflow.enabled : Unsatisfied(m) = {}}' =
                  {m \in workflow.enabled : Unsatisfied(m) = {}}
  BY <1>1, SameUnsatisfied DEF DegreeIsExact, Refused
<1>2. CASE NextLevel
  <2>1. TypeOK' /\ DegreeIsExact'
    BY <1>1, <1>2 DEF NextLevel, TypeOK
  <2>2. QueuesAreExact'
    BY <1>1, <1>2 DEF NextLevel, QueuesAreExact, Waiting, Asleep
  <2>3. ResultsAreExact'
    BY <1>1, <1>2 DEF NextLevel, ResultsAreExact, Running
  <2> QED
    BY <2>1, <2>2, <2>3
<1>3. CASE Complete
  <2>1. TypeOK' /\ DegreeIsExact'
    BY <1>1, <1>3 DEF Complete, TypeOK, Phase, Ending
  <2>2. QueuesAreExact'
    BY <1>1, <1>3 DEF Complete, QueuesAreExact, Waiting, Asleep
  <2>3. ResultsAreExact'
    BY <1>1, <1>3 DEF Complete, ResultsAreExact, Running
  <2> QED
    BY <2>1, <2>2, <2>3
<1>4. CASE Terminate
  <2>1. TypeOK' /\ DegreeIsExact'
    BY <1>1, <1>4 DEF Terminate, TypeOK, Phase, Ending
  <2>2. QueuesAreExact'
    BY <1>1, <1>4 DEF Terminate, QueuesAreExact, Waiting, Asleep
  <2>3. ResultsAreExact'
    BY <1>1, <1>4 DEF Terminate, ResultsAreExact, Running
  <2> QED
    BY <2>1, <2>2, <2>3
<1>5. ASSUME NEW n \in Node, Pause(n)
      PROVE  Inv'
  <2>1. TypeOK' /\ DegreeIsExact'
    BY <1>1, <1>5 DEF Pause, TypeOK, Phase
  <2>2. QueuesAreExact'
    BY <1>1, <1>5 DEF Pause, QueuesAreExact, Waiting, Asleep
  <2>3. ResultsAreExact'
    BY <1>0, <1>1, <1>5 DEF Pause, ResultsAreExact, Running, TypeOK
  <2> QED
    BY <2>1, <2>2, <2>3
<1>6. ASSUME NEW n \in Node, StartNode(n)
      PROVE  Inv'
  <2>1. TypeOK' /\ DegreeIsExact'
    BY <1>1, <1>6 DEF StartNode, TypeOK, Phase
  <2>2. QueuesAreExact'
    BY <1>1, <1>6 DEF StartNode, QueuesAreExact, Waiting, Asleep
  <2>3. n \notin processed /\ n # NoNode
    BY <1>0, <1>6 DEF StartNode, QueuesAreExact, Waiting, TypeOK
  <2>4. ResultsAreExact'
    BY <1>1, <1>6, <2>3 DEF StartNode, ResultsAreExact, Running
  <2> QED
    BY <2>1, <2>2, <2>4
<1>7. CASE StartAfterPause
  <2>1. current \in workflow.enabled /\ current \notin processed
    BY <1>7 DEF StartAfterPause, TypeOK, ResultsAreExact, QueuesAreExact,
                Waiting, Asleep
  <2>2. TypeOK' /\ DegreeIsExact'
    BY <1>1, <1>7, <2>1 DEF StartAfterPause, TypeOK, Phase
  <2>3. QueuesAreExact'
    BY <1>1, <1>7, <2>1 DEF StartAfterPause, QueuesAreExact, Waiting, Asleep
  <2>4. ResultsAreExact'
    BY <1>1, <1>7, <2>1 DEF StartAfterPause, ResultsAreExact, Running
  <2> QED
    BY <2>2, <2>3, <2>4
<1>8. ASSUME NEW r \in Result, FinishNode(r)
      PROVE  Inv'
  BY <1>8, FinishKeepsInv
<1>9. CASE RefuseConfirm
  <2>1. /\ current \in workflow.enabled /\ current \in processed
        /\ current \notin Completed /\ phase = "node"
        /\ result' = [result EXCEPT ![current] = "fail"]
        /\ workflow' = workflow
    BY <1>0, <1>9 DEF RefuseConfirm, TypeOK, ResultsAreExact, Running
  <2>2. Completed' = Completed \cup {current}
    BY <1>0, <2>1 DEF Completed, TypeOK
  <2>3. \A c \in Live(workflow) : Satisfied(c)' <=> Satisfied(c)
    <3>1. workflow.kind[current] = "confirm"
      BY <1>9 DEF RefuseConfirm
    <3>2. \A c : c.from = current => ~Satisfied(c) /\ ~Satisfied(c)'
      BY <1>0, <2>1, <3>1 DEF Satisfied, Refused, TypeOK
    <3>3. \A c \in Live(workflow) :
            c.from # current => (Satisfied(c)' <=> Satisfied(c))
      BY <1>0, <2>1, <2>2 DEF Satisfied, Refused, Passes, TypeOK, Live
    <3> QED
      BY <3>2, <3>3
  <2>4. \A m : Unsatisfied(m)' = Unsatisfied(m)
    <3>1. \A m : Into(m)' = Into(m)
      BY <2>1 DEF Into, Live
    <3> QED
      BY <2>3, <3>1 DEF Unsatisfied, Into
  <2>5. TypeOK'
    BY <1>9, <2>1 DEF RefuseConfirm, TypeOK, Phase, Ending, Result
  <2>6. DegreeIsExact'
    BY <1>9, <2>1, <2>4 DEF RefuseConfirm, DegreeIsExact
  <2>7. QueuesAreExact'
    BY <1>9, <2>1, <2>4 DEF RefuseConfirm, QueuesAreExact, Waiting, Asleep
  <2>8. ResultsAreExact'
    <3>1. \A n \in Completed' : result'[n] \in Answers(workflow'.kind[n])
      BY <1>0, <1>9, <2>1, <2>2
         DEF ResultsAreExact, TypeOK, Completed, RefuseConfirm, Answers
    <3>2. ending' = "terminated" /\ phase' = "finished" /\ current' = NoNode
      BY <1>9 DEF RefuseConfirm
    <3> QED
      BY <1>9, <2>1, <2>2, <3>1, <3>2
         DEF RefuseConfirm, ResultsAreExact, Running
  <2> QED
    BY <2>5, <2>6, <2>7, <2>8
<1>10. CASE Cancel
  <2>1. TypeOK' /\ DegreeIsExact'
    BY <1>1, <1>10 DEF Cancel, execVars, TypeOK
  <2>2. QueuesAreExact'
    BY <1>1, <1>10 DEF Cancel, execVars, QueuesAreExact, Waiting, Asleep
  <2>3. ResultsAreExact'
    BY <1>1, <1>10 DEF Cancel, execVars, ResultsAreExact, Running
  <2> QED
    BY <2>1, <2>2, <2>3
<1>11. CASE UNCHANGED vars
  <2>1. TypeOK' /\ DegreeIsExact'
    BY <1>1, <1>11 DEF vars, execVars, TypeOK
  <2>2. QueuesAreExact'
    BY <1>1, <1>11 DEF vars, execVars, QueuesAreExact, Waiting, Asleep
  <2>3. ResultsAreExact'
    BY <1>1, <1>11 DEF vars, execVars, ResultsAreExact, Running
  <2> QED
    BY <2>1, <2>2, <2>3
<1> QED
  BY <1>2, <1>3, <1>4, <1>5, <1>6, <1>7, <1>8, <1>9, <1>10, <1>11
     DEF Next, ExecNext

(* in_degree, the queues and the answers agree in every reachable state:   *)
(* the code of execute_workflow keeps them by hand, in five places.        *)
THEOREM Consistent == Spec => []Inv
  BY InitInv, NextKeepsInv, PTL DEF Spec

(* Nodes run in dependency order, for every workflow.                      *)
THEOREM DependencyOrderHolds == Spec => []DependencyOrder
<1>1. Inv => DependencyOrder
  BY DEF Inv, QueuesAreExact, DependencyOrder, Unsatisfied
<1> QED
  BY <1>1, Consistent, PTL

(* Nothing that could still run is left out of a complete execution.       *)
THEOREM NothingLeftBehindHolds == Spec => []NothingLeftBehind
<1> DEFINE Drained == ending = "complete" =>
                        ready = {} /\ nextReady = {} /\ phase = "finished"
<1>1. Init => Drained
  BY DEF Init, Begun
<1>2. Inv /\ Drained /\ [Next]_vars => Drained'
  BY DEF Next, ExecNext, NextLevel, Complete, Terminate, Pause, StartNode,
         StartAfterPause, FinishNode, RefuseConfirm, Cancel, vars, execVars
<1>3. Inv /\ Drained => NothingLeftBehind
  <2> SUFFICES ASSUME Inv, Drained, ending = "complete",
                      NEW m \in workflow.enabled \ processed
               PROVE  \E c \in Into(m) :
                        c.from \notin processed \/ ~Passes(c, result[c.from])
    BY DEF NothingLeftBehind
  <2>1. Waiting = {} /\ Running = {} /\ phase = "finished"
    BY DEF Waiting, Asleep, Running
  <2>2. PICK c \in Into(m) : ~Satisfied(c)
    BY <2>1 DEF Inv, QueuesAreExact, Unsatisfied
  <2>3. Completed = processed /\ \A n \in Completed : ~Refused(n)
    BY <2>1 DEF Inv, ResultsAreExact
  <2> QED
    BY <2>2, <2>3 DEF Satisfied
<1> QED
  BY <1>1, <1>2, <1>3, Consistent, PTL DEF Spec

(* No node starts twice, for every workflow, cycles and joins included.    *)
THEOREM RunsAtMostOnceHolds == Spec => RunsAtMostOnce
<1> DEFINE Once == phase' = "node" /\ phase # "node" => current' \notin processed
<1>1. Inv /\ [Next]_vars => [Once]_vars
  <2> SUFFICES ASSUME Inv, [Next]_vars, phase' = "node", phase # "node"
               PROVE  current' \notin processed
    OBVIOUS
  <2>1. ASSUME NEW n \in Node, StartNode(n)
        PROVE  current' \notin processed
    BY <2>1 DEF StartNode, Inv, QueuesAreExact, Waiting
  <2>2. CASE StartAfterPause
    BY <2>2 DEF StartAfterPause, Inv, QueuesAreExact, Waiting, Asleep
  <2> QED
    BY <2>1, <2>2
       DEF Next, ExecNext, NextLevel, Complete, Terminate, Pause, FinishNode,
           RefuseConfirm, Cancel, vars, execVars
<1> QED
  BY <1>1, Consistent, PTL DEF Spec, RunsAtMostOnce

(* What is not queued and not started yet can be counted. *)
LEMMA LeftIsFinite ==
  ASSUME TypeOK
  PROVE  /\ IsFiniteSet(workflow.enabled) /\ Cardinality(workflow.enabled) \in Nat
         /\ IsFiniteSet(Unqueued) /\ Cardinality(Unqueued) \in Nat
         /\ IsFiniteSet(Unstarted) /\ Cardinality(Unstarted) \in Nat
         /\ Cardinality(Unqueued) <= Cardinality(workflow.enabled)
         /\ Cardinality(Unstarted) <= Cardinality(workflow.enabled)
<1>1. IsFiniteSet(workflow.enabled)
  BY FS_Subset, WorkflowAssumption DEF TypeOK, Workflow
<1>2. Unqueued \subseteq workflow.enabled /\ Unstarted \subseteq workflow.enabled
  BY DEF Unqueued, Unstarted
<1> QED
  BY <1>1, <1>2, FS_Subset, FS_CardinalityType

LEMMA FewerLeft ==
  ASSUME NEW S, NEW T, IsFiniteSet(S), T \subseteq S, T # S
  PROVE  IsFiniteSet(T) /\ Cardinality(T) + 1 <= Cardinality(S)
<1>1. IsFiniteSet(T) /\ Cardinality(T) <= Cardinality(S) /\ Cardinality(T) # Cardinality(S)
  BY FS_Subset
<1>2. Cardinality(T) \in Nat /\ Cardinality(S) \in Nat
  BY <1>1, FS_CardinalityType
<1> QED
  BY <1>1, <1>2

LEMMA BoundOfSteps == Inv => StepsAreBounded
<1> SUFFICES ASSUME Inv PROVE StepsAreBounded
  OBVIOUS
<1> DEFINE q == Cardinality(Unqueued)
           s == Cardinality(Unstarted)
           n == Cardinality(workflow.enabled)
<1>1. TypeOK
  BY DEF Inv
<1>2. q \in Nat /\ s \in Nat /\ n \in Nat /\ q <= n /\ s <= n
  BY <1>1, LeftIsFinite
<1>3. StepsOfNode \in 0 .. 3 /\ (phase # "node" => StepsOfNode <= 2)
  BY <1>1 DEF TypeOK, Phase, StepsOfNode
<1>4. CASE phase = "node"
  <2>1. current \in workflow.enabled /\ current \in processed
    BY <1>4, WorkflowAssumption DEF Inv, TypeOK, ResultsAreExact, Running
  <2>2. Unstarted \subseteq workflow.enabled /\ Unstarted # workflow.enabled
    BY <2>1 DEF Unstarted
  <2>3. s + 1 <= n
    BY <1>1, <2>2, LeftIsFinite, FewerLeft
  <2> HIDE DEF q, s, n
  <2>4. 3 * (q + s) + StepsOfNode \in 0 .. 6 * n + 2
    BY <1>2, <1>3, <2>3
  <2> QED
    BY <2>4 DEF StepsAreBounded, StepsLeft, q, s, n
<1>5. CASE phase # "node"
  <2> HIDE DEF q, s, n
  <2>1. 3 * (q + s) + StepsOfNode \in 0 .. 6 * n + 2
    BY <1>2, <1>3, <1>5
  <2> QED
    BY <2>1 DEF StepsAreBounded, StepsLeft, q, s, n
<1> QED
  BY <1>4, <1>5

LEMMA WeightsFall ==
  ASSUME NEW q \in Nat, NEW s \in Nat, NEW p \in Nat,
         NEW q1 \in Nat, NEW s1 \in Nat, NEW p1 \in Nat, q1 <= q, s1 <= s,
         \/ p1 < p
         \/ q1 + 1 <= q /\ p1 <= p
         \/ s1 + 1 <= s /\ p1 <= p + 2
  PROVE  3 * (q1 + s1) + p1 < 3 * (q + s) + p
OBVIOUS

(* The measure falls when the node's place does and the sets do not grow.   *)
LEMMA StepsFall ==
  ASSUME TypeOK, UNCHANGED workflow,
         Unqueued' \subseteq Unqueued, Unstarted' \subseteq Unstarted,
         StepsOfNode \in Nat, StepsOfNode' \in Nat,
         \/ StepsOfNode' < StepsOfNode
         \/ Unqueued' # Unqueued /\ StepsOfNode' <= StepsOfNode
         \/ Unstarted' # Unstarted /\ StepsOfNode' <= StepsOfNode + 2
  PROVE  StepsLeft' < StepsLeft
<1>1. /\ IsFiniteSet(Unqueued) /\ Cardinality(Unqueued) \in Nat
      /\ IsFiniteSet(Unstarted) /\ Cardinality(Unstarted) \in Nat
  BY LeftIsFinite
<1>2. /\ Cardinality(Unqueued)' \in Nat /\ Cardinality(Unqueued)' <= Cardinality(Unqueued)
      /\ Unqueued' # Unqueued => Cardinality(Unqueued)' + 1 <= Cardinality(Unqueued)
  BY <1>1, FewerLeft, FS_Subset, FS_CardinalityType
<1>3. /\ Cardinality(Unstarted)' \in Nat /\ Cardinality(Unstarted)' <= Cardinality(Unstarted)
      /\ Unstarted' # Unstarted => Cardinality(Unstarted)' + 1 <= Cardinality(Unstarted)
  BY <1>1, FewerLeft, FS_Subset, FS_CardinalityType
<1> QED
  BY <1>1, <1>2, <1>3, WeightsFall DEF StepsLeft

LEMMA EachStepCounts == Inv /\ ExecNext => StepsLeft' < StepsLeft
<1> SUFFICES ASSUME Inv, ExecNext PROVE StepsLeft' < StepsLeft
  OBVIOUS
<1>0. TypeOK
  BY DEF Inv
<1> USE DEF Unqueued, Unstarted, StepsOfNode, Asleep
<1>1. CASE NextLevel
  <2>1. PICK n \in nextReady : n \in workflow.enabled
    BY <1>1 DEF NextLevel, Inv, TypeOK
  <2>2. n \notin processed \cup ready \cup Asleep
    BY <2>1 DEF Inv, QueuesAreExact, Waiting
  <2>3. UNCHANGED <<workflow, phase, processed, current>> /\ ready' = nextReady /\ ready = {}
        /\ phase = "loop"
    BY <1>1 DEF NextLevel
  <2>4. Unqueued' \subseteq Unqueued /\ n \in Unqueued /\ n \notin Unqueued'
    BY <2>1, <2>2, <2>3
  <2>5. Unstarted' = Unstarted /\ StepsOfNode' = 2 /\ StepsOfNode = 2
    BY <2>3
  <2> QED
    BY <1>0, <2>3, <2>4, <2>5, StepsFall
<1>2. CASE Complete \/ Terminate \/ RefuseConfirm
  <2>1. /\ phase \in {"loop", "node"} /\ phase' = "finished"
        /\ UNCHANGED <<workflow, ready, processed>>
    BY <1>2 DEF Complete, Terminate, RefuseConfirm
  <2>2. /\ Unqueued' = Unqueued /\ Unstarted' = Unstarted
        /\ StepsOfNode' = 0 /\ StepsOfNode \in {2, 3}
    BY <2>1
  <2> QED
    BY <1>0, <2>1, <2>2, StepsFall
<1>3. ASSUME NEW n \in Node, Pause(n) PROVE StepsLeft' < StepsLeft
  <2>1. /\ phase = "loop" /\ phase' = "pause" /\ n \in ready
        /\ ready' = ready \ {n} /\ current' = n /\ UNCHANGED <<workflow, processed>>
    BY <1>3 DEF Pause
  <2>2. /\ Unqueued' = Unqueued /\ Unstarted' = Unstarted
        /\ StepsOfNode' = 1 /\ StepsOfNode = 2
    BY <2>1
  <2> QED
    BY <1>0, <2>1, <2>2, StepsFall
<1>4. ASSUME NEW n \in Node, StartNode(n) PROVE StepsLeft' < StepsLeft
  <2>1. /\ phase = "loop" /\ phase' = "node" /\ n \in ready
        /\ ready' = ready \ {n} /\ processed' = processed \cup {n} /\ UNCHANGED workflow
    BY <1>4 DEF StartNode
  <2>2. n \in workflow.enabled /\ n \notin processed
    BY <2>1 DEF Inv, TypeOK, QueuesAreExact, Waiting
  <2>3. /\ Unqueued' = Unqueued /\ Unstarted' \subseteq Unstarted /\ Unstarted' # Unstarted
        /\ StepsOfNode' = 3 /\ StepsOfNode = 2
    BY <2>1, <2>2
  <2> QED
    BY <1>0, <2>1, <2>3, StepsFall
<1>5. CASE StartAfterPause
  <2>1. /\ phase = "pause" /\ phase' = "node"
        /\ processed' = processed \cup {current} /\ UNCHANGED <<workflow, ready, current>>
    BY <1>5 DEF StartAfterPause
  <2>2. current \in workflow.enabled /\ current \notin processed
    BY <2>1 DEF Inv, TypeOK, QueuesAreExact, Waiting, ResultsAreExact
  <2>3. /\ Unqueued' = Unqueued /\ Unstarted' \subseteq Unstarted /\ Unstarted' # Unstarted
        /\ StepsOfNode' = 3 /\ StepsOfNode = 1
    BY <2>1, <2>2
  <2> QED
    BY <1>0, <2>1, <2>3, StepsFall
<1>6. ASSUME NEW r \in Result, FinishNode(r) PROVE StepsLeft' < StepsLeft
  <2>1. /\ phase = "node" /\ phase' = "loop" /\ UNCHANGED <<workflow, ready, processed>>
    BY <1>6 DEF FinishNode
  <2>2. /\ Unqueued' = Unqueued /\ Unstarted' = Unstarted
        /\ StepsOfNode' = 2 /\ StepsOfNode = 3
    BY <2>1
  <2> QED
    BY <1>0, <2>1, <2>2, StepsFall
<1> QED
  BY <1>1, <1>2, <1>3, <1>4, <1>5, <1>6 DEF ExecNext

(* An execution takes a bounded number of steps of its own, whatever the    *)
(* graph, the answers and the moment of a stop: what Terminates needs       *)
(* besides runtime calls that return (the loop of execute_workflow).        *)
THEOREM ExecutionIsFinite == Spec => []StepsAreBounded /\ StepsRunOut
<1>1. Inv /\ [Next]_vars => [ExecNext => StepsLeft' < StepsLeft]_vars
  BY EachStepCounts
<1>2. Inv => StepsAreBounded
  BY BoundOfSteps
<1> QED
  BY <1>1, <1>2, InitInv, NextKeepsInv, PTL DEF Spec, StepsRunOut

(* An answer satisfies only connections out of the node that gave it.      *)
LEMMA AnswerSatisfiesOwnLinks ==
  ASSUME Inv, phase = "node", workflow' = workflow,
         NEW r \in Result \ {"none"},
         result' = [result EXCEPT ![current] = r]
  PROVE  /\ current \in processed \ Completed
         /\ Completed' = Completed \cup {current}
         /\ \A c \in Live(workflow) :
              c.from # current => (Satisfied(c)' <=> Satisfied(c))
         /\ \A c \in Live(workflow) : c.from = current => ~Satisfied(c)
<1>1. current \in Node /\ current \in processed \ Completed
  BY WorkflowAssumption
     DEF Inv, TypeOK, ResultsAreExact, Running, Workflow
<1>2. Completed' = Completed \cup {current}
  BY <1>1 DEF Completed, Inv, TypeOK
<1>3. \A n \in Node : n # current =>
        result'[n] = result[n] /\ (n \in Completed' <=> n \in Completed)
  BY <1>1, <1>2 DEF Inv, TypeOK
<1>4. \A c \in Live(workflow) : c.from \in Node
  BY DEF Live, Inv, TypeOK, Workflow
<1>5. \A c \in Live(workflow) :
        c.from # current => (Satisfied(c)' <=> Satisfied(c))
  BY <1>3, <1>4 DEF Satisfied, Refused, Passes
<1> QED
  BY <1>1, <1>2, <1>5 DEF Satisfied

(* Levels, in_degree and the two queues implement a dependency-ordered     *)
(* run: every step of execute_workflow is a step of DependencyRun or none. *)
THEOREM Implements == Spec => ImplementsDependencyRun
<1> DEFINE sat == {c \in Live(workflow) : Satisfied(c)}
<1>1. Init => Dependency!Init
  <2> SUFFICES ASSUME Init PROVE Dependency!Init
    OBVIOUS
  <2>1. Completed = {}
    BY DEF Init, Completed
  <2>2. sat = {}
    BY <2>1 DEF Satisfied
  <2>3. Outcome = IF workflow.enabled = {} THEN "complete" ELSE "running"
    BY DEF Init, Begun, Outcome
  <2>4. \A l \in Live(workflow) :
          l.from \in workflow.enabled /\ l.to \in workflow.enabled
    BY DEF Live
  <2> QED
    BY <2>1, <2>2, <2>3, <2>4 DEF Dependency!Init, Init
<1>2. Inv /\ Inv' /\ [Next]_vars => [Dependency!Next]_(Dependency!depVars)
  <2> SUFFICES ASSUME Inv, Inv', [Next]_vars
               PROVE  [Dependency!Next]_(Dependency!depVars)
    OBVIOUS
  <2>0. phase # "finished" => Outcome = "running"
    BY DEF Inv, ResultsAreExact, Outcome
  <2>1. ASSUME workflow' = workflow, result' = result
        PROVE  Completed' = Completed /\ Live(workflow)' = Live(workflow)
               /\ sat' = sat
    <3>1. Completed' = Completed /\ Live(workflow)' = Live(workflow)
      BY <2>1 DEF Completed, Live
    <3>2. \A c : Satisfied(c)' <=> Satisfied(c)
      BY <2>1, <3>1 DEF Satisfied, Refused, Passes
    <3> QED
      BY <3>1, <3>2
  <2>2. ASSUME NEW n \in workflow.enabled, Unsatisfied(n) = {},
               n \notin processed, phase \in {"loop", "pause"},
               processed' = processed \cup {n}, ending' = ending,
               workflow' = workflow, result' = result
        PROVE  Dependency!Start(n)
    <3>1. Completed = processed
      BY <2>2 DEF Inv, ResultsAreExact, Running
    <3>2. Dependency!LinksInto(n) \subseteq sat
      BY <2>2 DEF Dependency!LinksInto, Unsatisfied, Into
    <3>3. Outcome = "running" /\ Outcome' = Outcome
      BY <2>0, <2>2 DEF Outcome
    <3> QED
      BY <2>1, <2>2, <3>1, <3>2, <3>3 DEF Dependency!Start
  <2>3. ASSUME NEW n \in Node, StartNode(n)
        PROVE  Dependency!Start(n)
    <3>1. n \in workflow.enabled /\ n \notin processed /\ Unsatisfied(n) = {}
      BY <2>3 DEF StartNode, Inv, TypeOK, QueuesAreExact, Waiting
    <3> QED
      BY <2>2, <2>3, <3>1 DEF StartNode
  <2>4. CASE StartAfterPause
    <3>1. current \in workflow.enabled /\ current \notin processed
          /\ Unsatisfied(current) = {}
      BY <2>4 DEF StartAfterPause, Inv, TypeOK, QueuesAreExact, Waiting, Asleep,
                  ResultsAreExact
    <3>2. \E n \in workflow.enabled : Dependency!Start(n)
      BY <2>2, <2>4, <3>1 DEF StartAfterPause
    <3> QED
      BY <3>2 DEF Dependency!Next
  <2>5. ASSUME NEW r \in Result, FinishNode(r)
        PROVE  \E n \in workflow.enabled : Dependency!Answer(n)
    <3>1. r \in Result \ {"none"} /\ workflow' = workflow /\ ending' = ending
          /\ processed' = processed /\ phase = "node"
          /\ result' = [result EXCEPT ![current] = r]
      BY <2>5, WorkflowAssumption DEF FinishNode, Passing, Answers
    <3>2. /\ current \in processed \ Completed
          /\ Completed' = Completed \cup {current}
          /\ \A c \in Live(workflow) :
               c.from # current => (Satisfied(c)' <=> Satisfied(c))
          /\ \A c \in Live(workflow) : c.from = current => ~Satisfied(c)
      BY <3>1, AnswerSatisfiesOwnLinks
    <3>3. Live(workflow)' = Live(workflow)
      BY <3>1 DEF Live
    <3>4. sat' = sat \cup {c \in Live(workflow) :
                            c.from = current /\ c \in sat'}
      BY <3>2, <3>3
    <3>5. \E taken \in SUBSET Dependency!LinksFrom(current) :
            sat' = sat \cup taken
      BY <3>4 DEF Dependency!LinksFrom
    <3>6. Outcome = "running" /\ Outcome' = Outcome
      BY <2>0, <3>1 DEF Outcome
    <3>7. current \in workflow.enabled
      BY <3>2 DEF Inv, TypeOK
    <3> SUFFICES Dependency!Answer(current)
      BY <3>7
    <3> QED
      BY <3>1, <3>2, <3>3, <3>5, <3>6 DEF Dependency!Answer
  <2>6. CASE RefuseConfirm
    <3>1. workflow' = workflow /\ processed' = processed /\ phase = "node"
          /\ result' = [result EXCEPT ![current] = "fail"]
          /\ Outcome' = "stopped" /\ workflow.kind[current] = "confirm"
      BY <2>6 DEF RefuseConfirm, Outcome
    <3>2. /\ current \in processed \ Completed
          /\ Completed' = Completed \cup {current}
          /\ \A c \in Live(workflow) :
               c.from # current => (Satisfied(c)' <=> Satisfied(c))
          /\ \A c \in Live(workflow) : c.from = current => ~Satisfied(c)
      BY <3>1, AnswerSatisfiesOwnLinks DEF Result
    <3>3. Live(workflow)' = Live(workflow)
      BY <3>1 DEF Live
    <3>4. current \in Node /\ current \in workflow.enabled
      BY <3>2 DEF Inv, TypeOK, Workflow
    <3>5. \A c : c.from = current => ~(Satisfied(c)')
      BY <3>1, <3>4 DEF Satisfied, Refused, Inv, TypeOK
    <3>6. sat' = sat
      BY <3>2, <3>3, <3>5
    <3>7. Dependency!Answer(current)
      BY <2>0, <3>1, <3>2, <3>3, <3>6 DEF Dependency!Answer
    <3> QED
      BY <3>4, <3>7 DEF Dependency!Next
  <2>7. CASE Complete
    <3>1. Completed = processed /\ Outcome' = "complete"
          /\ Outcome = "running" /\ Waiting = {}
      BY <2>0, <2>7 DEF Complete, Inv, ResultsAreExact, Running, Outcome,
                        Waiting, Asleep
    <3>2. \A n \in workflow.enabled \ processed :
            ~(Dependency!LinksInto(n) \subseteq sat)
      BY <3>1 DEF Inv, QueuesAreExact, Unsatisfied, Into, Dependency!LinksInto
    <3>3. Dependency!Finish
      BY <2>1, <2>7, <3>1, <3>2 DEF Complete, Dependency!Finish
    <3> QED
      BY <3>3 DEF Dependency!Next
  <2>8. CASE Terminate
    <3>1. Completed = processed /\ Outcome' = "stopped" /\ Outcome = "running"
      BY <2>0, <2>8 DEF Terminate, Inv, ResultsAreExact, Running, Outcome
    <3>2. Dependency!Stop
      BY <2>1, <2>8, <3>1 DEF Terminate, Dependency!Stop
    <3> QED
      BY <3>2 DEF Dependency!Next
  <2>9. ASSUME workflow' = workflow, result' = result, processed' = processed,
               ending' = ending
        PROVE  UNCHANGED Dependency!depVars
    BY <2>1, <2>9 DEF Dependency!depVars, Outcome
  <2>10. ASSUME NextLevel \/ (\E n \in Node : Pause(n)) \/ Cancel
                 \/ UNCHANGED vars
         PROVE  UNCHANGED Dependency!depVars
    BY <2>9, <2>10 DEF NextLevel, Pause, Cancel, vars, execVars
  <2>11. ASSUME NEW n \in Node, StartNode(n)
         PROVE  Dependency!Next
    <3>1. n \in workflow.enabled
      BY <2>11 DEF StartNode, Inv, TypeOK
    <3> QED
      BY <2>3, <2>11, <3>1 DEF Dependency!Next
  <2>12. ASSUME NEW r \in Result, FinishNode(r)
         PROVE  Dependency!Next
    BY <2>5, <2>12 DEF Dependency!Next
  <2> QED
    BY <2>4, <2>6, <2>7, <2>8, <2>10, <2>11, <2>12 DEF Next, ExecNext
<1> QED
  BY <1>1, <1>2, Consistent, PTL
     DEF Spec, ImplementsDependencyRun, Dependency!Spec
-----------------------------------------------------------------------------
(* The run around the executor.  A run is over for the UI only when its    *)
(* executor has returned: a start never cuts into a run that goes on.      *)
OverIsFinished == ~running => phase = "finished"

RunIndInv == Inv /\ RunInv /\ OverIsFinished

(* A start, like the first state, is a state execute_workflow begins in.   *)
LEMMA StartBegins == Start => Init'
BY DEF Start, Init

LEMMA InitRunInv == RunInit => RunIndInv
<1> SUFFICES ASSUME RunInit PROVE RunIndInv
  OBVIOUS
<1>1. Inv
  BY InitInv DEF RunInit
<1>2. Completed = {} /\ Running = {}
  BY DEF RunInit, Init, Completed, Running
<1>3. RunTypeOK
  <2>1. TypeOK
    BY <1>1 DEF Inv
  <2>2. status \in [Node -> {"none", "running", "success", "fail"}]
    BY DEF RunInit
  <2>3. runs \in 0 .. MaxRuns
    BY MaxRunsAssumption DEF RunInit
  <2>4. requests \in Seq(Node)
    BY DEF RunInit
  <2> QED
    BY <2>1, <2>2, <2>3, <2>4 DEF RunTypeOK, RunInit
<1>4. StatusesMatch
  BY <1>2 DEF StatusesMatch, RunInit, Init
<1>5. ConfirmationInOnePlace
  BY DEF ConfirmationInOnePlace, RunInit
<1> QED
  BY <1>1, <1>3, <1>4, <1>5 DEF RunIndInv, RunInv, OverIsFinished, RunInit

(* Every step but a start is a step of the executor, or leaves it alone.   *)
LEMMA RunStepsAreExecutorSteps ==
  RunIndInv /\ [RunNext]_runVars => Inv'
<1> SUFFICES ASSUME RunIndInv, [RunNext]_runVars PROVE Inv'
  OBVIOUS
<1>1. CASE Start
  <2>1. (Init => Inv)'
    BY InitInv, PTL
  <2> QED
    BY <1>1, <2>1, StartBegins
<1>2. CASE RunStep
  BY <1>2, NextKeepsInv DEF RunStep, RunIndInv, Next, ExecNext
<1>3. CASE UNCHANGED vars
  BY <1>3, NextKeepsInv DEF RunIndInv
<1>4. ASSUME UNCHANGED execVars, cancelled' = TRUE
      PROVE  Inv'
  <2>1. TypeOK'
    BY <1>4 DEF execVars, TypeOK, RunIndInv, Inv
  <2>2. /\ \A m : Unsatisfied(m)' = Unsatisfied(m)
        /\ Completed' = Completed /\ \A n : Refused(n)' <=> Refused(n)
    BY <1>4, SameUnsatisfied DEF execVars, Refused
  <2>3. DegreeIsExact'
    BY <1>4, <2>2 DEF execVars, DegreeIsExact, RunIndInv, Inv
  <2>4. QueuesAreExact'
    BY <1>4, <2>2 DEF execVars, QueuesAreExact, Waiting, Asleep, RunIndInv, Inv
  <2>5. ResultsAreExact'
    BY <1>4, <2>2 DEF execVars, ResultsAreExact, Running, RunIndInv, Inv
  <2> QED
    BY <2>1, <2>3, <2>4, <2>5 DEF Inv
<1> QED
  BY <1>1, <1>2, <1>3, <1>4
     DEF RunNext, ReturnAtOnce, RequestConfirm, AnswerConfirm, Stop, runVars

(* A node that starts: it spins, and its confirmation is on its way.       *)
LEMMA StartingKeepsRun ==
  ASSUME RunIndInv, NEW n \in Node, n \notin processed, NodeStarts(n),
         phase \in {"loop", "pause"}, phase' = "node", current' = n,
         UNCHANGED <<workflow, result>>, Inv'
  PROVE  RunIndInv'
<1> USE DEF RunIndInv, RunInv
<1>1. Completed' = Completed /\ n \notin Completed /\ Running = {}
      /\ Running' = {n}
  BY DEF Completed, Running, Inv, ResultsAreExact
<1>2. RunTypeOK'
  <2>1. requests' \in Seq(Node)
    <3>1. requests \in Seq(Node)
      BY DEF RunTypeOK
    <3>2. Append(requests, n) \in Seq(Node)
      BY <3>1
    <3> QED
      BY <3>1, <3>2 DEF NodeStarts
  <2> QED
    BY <2>1 DEF RunTypeOK, NodeStarts, Inv
<1>3. StatusesMatch'
  <2>1. status'[n] = "running"
        /\ \A m \in Node : m # n => status'[m] = status[m]
    BY DEF NodeStarts, RunTypeOK
  <2>2. ASSUME NEW m \in Node, m # n
        PROVE  status[m] # "running" /\ m \notin Running'
    BY <1>1, <2>2 DEF StatusesMatch
  <2>3. result' = result /\ result[n] = "none"
    BY <1>1 DEF Completed
  <2> QED
    BY <1>1, <2>1, <2>2, <2>3 DEF StatusesMatch
<1>4. ConfirmationInOnePlace'
  <2>1. requests = <<>> /\ pending = NoNode /\ reply = "none"
    BY DEF ConfirmationInOnePlace
  <2>2. IsConfirm(n)' <=> IsConfirm(n)
    BY DEF IsConfirm
  <2>3. Append(<<>>, n) = <<n>>
    OBVIOUS
  <2> QED
    BY <2>1, <2>2, <2>3 DEF ConfirmationInOnePlace, NodeStarts, IsConfirm
<1> QED
  BY <1>2, <1>3, <1>4 DEF OverIsFinished, NodeStarts, Inv, RunTypeOK

(* A node that ends, with what its status becomes.                         *)
LEMMA EndingKeepsRun ==
  ASSUME RunIndInv, NEW r \in Result \ {"none"}, phase = "node",
         phase' \in {"loop", "finished"}, current' = NoNode,
         workflow' = workflow,
         result' = [result EXCEPT ![current] = r],
         status' = [status EXCEPT ![current] =
                      IF r = "fail" THEN "fail" ELSE "success"],
         IsConfirm(current) => reply # "none",
         reply' = "none", requests' = requests, runs' = runs,
         \/ running' = running /\ pending' = pending /\ phase' = "loop"
         \/ Over /\ phase' = "finished",
         running \/ phase' = "finished", Inv'
  PROVE  RunIndInv'
<1> USE DEF RunIndInv, RunInv
<1>1. current \in Node /\ current \in processed \ Completed
      /\ Completed' = Completed \cup {current}
      /\ Running = {current} /\ Running' = {}
  BY AnswerSatisfiesOwnLinks DEF Running, Inv, TypeOK, Workflow
<1>2. requests = <<>> /\ pending = NoNode
  BY DEF ConfirmationInOnePlace
<1>3. RunTypeOK'
  BY <1>1, <1>2 DEF RunTypeOK, Over, Inv
<1>4. StatusesMatch'
  <2>1. result \in [Node -> Result]
        /\ status \in [Node -> {"none", "running", "success", "fail"}]
    BY DEF RunTypeOK, TypeOK
  <2> QED
    BY <1>1, <2>1 DEF StatusesMatch
<1>5. ConfirmationInOnePlace'
  BY <1>2 DEF ConfirmationInOnePlace, Over
<1> QED
  BY <1>3, <1>4, <1>5 DEF OverIsFinished, Over

(* A step that leaves the nodes alone leaves what the canvas shows alone.  *)
LEMMA SameStatuses ==
  ASSUME RunIndInv, UNCHANGED <<result, status>>, Running' = Running
  PROVE  StatusesMatch'
<1>1. Completed' = Completed
  BY DEF Completed
<1> QED
  BY <1>1 DEF StatusesMatch, RunIndInv, RunInv

LEMMA NextKeepsRun ==
  RunIndInv /\ [RunNext]_runVars => RunIndInv'
<1> SUFFICES ASSUME RunIndInv, [RunNext]_runVars PROVE RunIndInv'
  OBVIOUS
<1>0. Inv'
  BY RunStepsAreExecutorSteps
<1> USE DEF RunIndInv, RunInv
<1>1. CASE Start
  <2>1. Init' /\ phase' \in {"loop", "finished"} /\ phase = "finished"
    BY <1>1, StartBegins DEF Start, Begun, OverIsFinished
  <2>2. requests' = <<>> /\ pending' = NoNode /\ reply' = "none"
    BY <1>1, <2>1 DEF Start, ConfirmationInOnePlace
  <2>3. Completed' = {} /\ Running' = {}
    BY <1>1, <2>1 DEF Start, Completed, Running
  <2>4. RunTypeOK'
    BY <1>0, <1>1, <2>2, MaxRunsAssumption
       DEF Start, RunTypeOK, ClearStatuses, Inv
  <2>5. StatusesMatch'
    BY <1>1, <2>3 DEF Start, ClearStatuses, StatusesMatch
  <2>6. ConfirmationInOnePlace'
    BY <2>1, <2>2 DEF ConfirmationInOnePlace
  <2> QED
    BY <1>0, <1>1, <2>4, <2>5, <2>6 DEF Start, OverIsFinished
<1>2. CASE ReturnAtOnce
  <2>1. RunTypeOK' /\ StatusesMatch'
    BY <1>0, <1>2, SameStatuses
       DEF ReturnAtOnce, Over, RunTypeOK, Inv, vars, execVars, Running
  <2>2. ConfirmationInOnePlace' /\ OverIsFinished'
    BY <1>2 DEF ReturnAtOnce, Over, ConfirmationInOnePlace, vars, execVars,
                OverIsFinished
  <2> QED
    BY <1>0, <2>1, <2>2
<1>3. ASSUME NextLevel \/ (\E n \in Node : Pause(n)), UNCHANGED uiVars
      PROVE  RunIndInv'
  <2>1. UNCHANGED <<result, workflow, ending>> /\ phase = "loop"
        /\ phase' \in {"loop", "pause"}
    BY <1>3 DEF NextLevel, Pause
  <2>2. RunTypeOK' /\ StatusesMatch'
    BY <1>0, <1>3, <2>1, SameStatuses DEF uiVars, RunTypeOK, Inv, Running
  <2>3. ConfirmationInOnePlace' /\ OverIsFinished'
    BY <1>3, <2>1 DEF uiVars, ConfirmationInOnePlace, OverIsFinished
  <2> QED
    BY <1>0, <2>2, <2>3
<1>4. ASSUME NEW n \in Node, StartNode(n), NodeStarts(n)
      PROVE  RunIndInv'
  <2>1. n \notin processed
    BY <1>4 DEF StartNode, Inv, QueuesAreExact, Waiting
  <2> QED
    BY <1>0, <1>4, <2>1, StartingKeepsRun DEF StartNode
<1>5. CASE StartAfterPause /\ NodeStarts(current)
  <2>1. current \in Node /\ current \notin processed
    BY <1>5 DEF StartAfterPause, Inv, QueuesAreExact, Waiting, Asleep,
                ResultsAreExact, TypeOK, Workflow
  <2> QED
    BY <1>0, <1>5, <2>1, StartingKeepsRun DEF StartAfterPause
<1>6. CASE /\ Complete \/ Terminate
           /\ Over /\ UNCHANGED <<status, requests, reply, runs>>
  <2>1. UNCHANGED <<result, workflow>> /\ phase = "loop"
        /\ phase' = "finished"
    BY <1>6 DEF Complete, Terminate
  <2>2. RunTypeOK' /\ StatusesMatch'
    BY <1>0, <1>6, <2>1, SameStatuses DEF Over, RunTypeOK, Inv, Running
  <2>3. ConfirmationInOnePlace' /\ OverIsFinished'
    BY <1>6, <2>1 DEF Over, ConfirmationInOnePlace, OverIsFinished
  <2> QED
    BY <1>0, <2>2, <2>3
<1>7. ASSUME NEW r \in Result, FinishNode(r),
             IsConfirm(current) => reply = "yes",
             status' = [status EXCEPT ![current] =
                          IF r = "fail" THEN "fail" ELSE "success"],
             reply' = "none", UNCHANGED <<running, requests, pending, runs>>
      PROVE  RunIndInv'
  <2>1. r # "none" /\ phase = "node" /\ phase' = "loop" /\ current' = NoNode
        /\ workflow' = workflow /\ result' = [result EXCEPT ![current] = r]
    BY <1>7, WorkflowAssumption DEF FinishNode, Answers, Passing
  <2>2. running
    BY <2>1 DEF OverIsFinished
  <2> QED
    BY <1>0, <1>7, <2>1, <2>2, EndingKeepsRun
<1>8. CASE /\ RefuseConfirm /\ reply = "no"
           /\ status' = [status EXCEPT ![current] = "fail"]
           /\ reply' = "none" /\ Over /\ UNCHANGED <<requests, runs>>
  <2>1. phase = "node" /\ phase' = "finished" /\ current' = NoNode
        /\ workflow' = workflow
        /\ result' = [result EXCEPT ![current] = "fail"]
    BY <1>8 DEF RefuseConfirm
  <2>2. "fail" \in Result \ {"none"}
    BY DEF Result
  <2> QED
    BY <1>0, <1>8, <2>1, <2>2, EndingKeepsRun
<1>9. CASE RequestConfirm
  <2>1. phase = "node" /\ IsConfirm(current) /\ requests = <<current>>
        /\ pending = NoNode /\ reply = "none" /\ current # NoNode
    BY <1>9 DEF RequestConfirm, ConfirmationInOnePlace, Inv, ResultsAreExact
  <2>2. Head(<<current>>) = current /\ Tail(<<current>>) = <<>>
    OBVIOUS
  <2>3. requests' = <<>> /\ pending' = current /\ reply' = "none"
    BY <1>9, <2>1, <2>2 DEF RequestConfirm
  <2>4. RunTypeOK'
    BY <1>0, <1>9, <2>1, <2>3
       DEF RequestConfirm, RunTypeOK, Inv, TypeOK, Workflow
  <2>5. StatusesMatch'
    BY <1>9, SameStatuses DEF RequestConfirm, Running, vars, execVars
  <2>6. ConfirmationInOnePlace'
    BY <1>9, <2>1, <2>3
       DEF RequestConfirm, ConfirmationInOnePlace, IsConfirm, vars, execVars
  <2> QED
    BY <1>0, <1>9, <2>4, <2>5, <2>6
       DEF RequestConfirm, OverIsFinished, vars, execVars
<1>10. ASSUME NEW ok \in BOOLEAN, AnswerConfirm(ok)
       PROVE  RunIndInv'
  <2>1. phase = "node" /\ IsConfirm(current) /\ requests = <<>>
    BY <1>10 DEF AnswerConfirm, ConfirmationInOnePlace
  <2>2. RunTypeOK' /\ StatusesMatch'
    BY <1>0, <1>10, SameStatuses
       DEF AnswerConfirm, RunTypeOK, Inv, Running, vars, execVars
  <2>3. ConfirmationInOnePlace' /\ OverIsFinished'
    BY <1>10, <2>1 DEF AnswerConfirm, ConfirmationInOnePlace, IsConfirm,
                       OverIsFinished, vars, execVars
  <2> QED
    BY <1>0, <2>2, <2>3
<1>11. CASE Stop
  <2>1. RunTypeOK' /\ StatusesMatch'
    BY <1>0, <1>11, SameStatuses DEF Stop, RunTypeOK, Inv, Running, execVars
  <2>2. ConfirmationInOnePlace' /\ OverIsFinished'
    BY <1>11 DEF Stop, ConfirmationInOnePlace, IsConfirm, OverIsFinished,
                 execVars
  <2> QED
    BY <1>0, <2>1, <2>2
<1>12. CASE UNCHANGED runVars
  <2>1. RunTypeOK' /\ StatusesMatch'
    BY <1>0, <1>12, SameStatuses
       DEF runVars, uiVars, RunTypeOK, Inv, Running, vars, execVars
  <2>2. ConfirmationInOnePlace' /\ OverIsFinished'
    BY <1>12 DEF runVars, uiVars, ConfirmationInOnePlace, IsConfirm,
                 OverIsFinished, vars, execVars
  <2> QED
    BY <1>0, <2>1, <2>2
<1> QED
  BY <1>1, <1>2, <1>3, <1>4, <1>5, <1>6, <1>7, <1>8, <1>9, <1>10, <1>11, <1>12
     DEF RunNext, RunStep

(* The canvas shows what the executor did, and a confirmation is in one    *)
(* place only, for every workflow and any number of runs: neither a stop,  *)
(* a refusal nor a second run can leave a node spinning or a dialog open.  *)
THEOREM RunAgrees == RunSpec => []RunInv
<1>1. RunIndInv => RunInv
  BY DEF RunIndInv
<1> QED
  BY <1>1, InitRunInv, NextKeepsRun, PTL DEF RunSpec

(* Whatever the user starts, stops and answers, every run of the app keeps *)
(* the dependency order of its workflow.                                   *)
COROLLARY RunsKeepOrder == RunSpec => []DependencyOrder
<1>1. RunIndInv => DependencyOrder
  BY DEF RunIndInv, Inv, QueuesAreExact, DependencyOrder, Unsatisfied
<1> QED
  BY <1>1, InitRunInv, NextKeepsRun, PTL DEF RunSpec

LEMMA InvGivesSteps == Inv => StepsLeft \in Nat
<1> SUFFICES ASSUME Inv PROVE StepsLeft \in Nat
  OBVIOUS
<1>1. TypeOK
  BY DEF Inv
<1>2. Cardinality(Unqueued) \in Nat /\ Cardinality(Unstarted) \in Nat
  BY <1>1, LeftIsFinite
<1>3. StepsOfNode \in Nat
  BY <1>1 DEF TypeOK, Phase, StepsOfNode
<1> QED
  BY <1>2, <1>3 DEF StepsLeft

LEMMA SameSteps == UNCHANGED execVars => StepsLeft' = StepsLeft
BY DEF execVars, StepsLeft, StepsOfNode, Unqueued, Unstarted, Asleep

(* The parts of the measure of a run, added up. *)
LEMMA RunWeights ==
  ASSUME NEW s \in Nat, NEW c \in Nat, NEW e \in Nat,
         NEW s1 \in Nat, NEW c1 \in Nat, NEW e1 \in Nat,
         s1 <= s, e1 <= e, c1 <= c \/ (s1 < s /\ c1 <= 2)
  PROVE  /\ 3 * s + c + e \in Nat /\ 3 * s1 + c1 + e1 \in Nat
         /\ 3 * s1 + c1 + e1 <= 3 * s + c + e
         /\ s1 < s \/ c1 < c \/ e1 < e => 3 * s1 + c1 + e1 < 3 * s + c + e
OBVIOUS

LEMMA PartsOfSteps ==
  /\ ConfirmationSteps \in Nat /\ ConfirmationSteps' \in Nat /\ ConfirmationSteps' <= 2
  /\ EndingSteps \in Nat /\ EndingSteps' \in Nat
BY DEF ConfirmationSteps, EndingSteps

LEMMA RunMeasureFalls ==
  ASSUME StepsLeft \in Nat, StepsLeft' \in Nat, StepsLeft' <= StepsLeft,
         EndingSteps' <= EndingSteps, ConfirmationSteps' <= ConfirmationSteps
  PROVE  /\ RunStepsLeft \in Nat /\ RunStepsLeft' <= RunStepsLeft
         /\ ConfirmationSteps' < ConfirmationSteps => RunStepsLeft' < RunStepsLeft
         /\ EndingSteps' < EndingSteps => RunStepsLeft' < RunStepsLeft
BY PartsOfSteps, RunWeights DEF RunStepsLeft

LEMMA RunMeasureFallsFast ==
  ASSUME StepsLeft \in Nat, StepsLeft' \in Nat, StepsLeft' < StepsLeft,
         EndingSteps' <= EndingSteps
  PROVE  RunStepsLeft' < RunStepsLeft
<1>1. StepsLeft' <= StepsLeft
  OBVIOUS
<1> QED
  BY <1>1, PartsOfSteps, RunWeights DEF RunStepsLeft

LEMMA RunStepCounts ==
  ASSUME RunIndInv, RunIndInv', RunStep
  PROVE  RunStepsLeft' < RunStepsLeft
<1>1. Inv /\ Inv' /\ ExecNext
  BY DEF RunIndInv, RunStep, ExecNext
<1>2. StepsLeft \in Nat /\ StepsLeft' \in Nat /\ StepsLeft' < StepsLeft
  <2>1. (Inv => StepsLeft \in Nat)'
    BY InvGivesSteps, PTL
  <2> QED
    BY <1>1, <2>1, EachStepCounts, InvGivesSteps
<1>3. running' = running \/ running' = FALSE
  BY DEF RunStep, Over, NodeStarts, uiVars
<1>4. EndingSteps' <= EndingSteps
  BY <1>3 DEF EndingSteps
<1> QED
  BY <1>2, <1>4, RunMeasureFallsFast

(* A confirmation moves on: requested, shown, answered. *)
LEMMA ConfirmationCounts ==
  ASSUME RunIndInv, RunIndInv',
         ReturnAtOnce \/ RequestConfirm \/ (\E ok \in BOOLEAN : AnswerConfirm(ok))
  PROVE  RunStepsLeft' < RunStepsLeft
<1>0. requests = <<>> \/ (requests = <<current>> /\ pending = NoNode)
  BY DEF RunIndInv, RunInv, ConfirmationInOnePlace
<1>1. UNCHANGED execVars
  BY DEF ReturnAtOnce, RequestConfirm, AnswerConfirm, vars
<1>2. StepsLeft \in Nat /\ StepsLeft' \in Nat /\ StepsLeft' <= StepsLeft
  BY <1>1, InvGivesSteps, SameSteps DEF RunIndInv
<1>3. CASE ReturnAtOnce
  <2>1. running = TRUE /\ running' = FALSE /\ requests' = requests /\ pending' = NoNode
    BY <1>3 DEF ReturnAtOnce, Over, RunIndInv, RunInv, RunTypeOK
  <2>2. ConfirmationSteps' <= ConfirmationSteps
    BY <2>1 DEF ConfirmationSteps
  <2>3. EndingSteps' < EndingSteps /\ EndingSteps' <= EndingSteps
    BY <2>1 DEF EndingSteps
  <2> QED
    BY <1>2, <2>2, <2>3, RunMeasureFalls
<1>4. CASE RequestConfirm
  <2>1. requests # <<>> /\ requests' = Tail(requests) /\ running' = running
    BY <1>4 DEF RequestConfirm
  <2>2. requests' = <<>>
    <3>1. Tail(<<current>>) = <<>>
      OBVIOUS
    <3> QED
      BY <1>0, <2>1, <3>1
  <2>3. ConfirmationSteps' < ConfirmationSteps /\ ConfirmationSteps' <= ConfirmationSteps
    BY <2>1, <2>2 DEF ConfirmationSteps
  <2>4. EndingSteps' <= EndingSteps
    BY <2>1 DEF EndingSteps
  <2> QED
    BY <1>2, <2>3, <2>4, RunMeasureFalls
<1>5. CASE \E ok \in BOOLEAN : AnswerConfirm(ok)
  <2>1. pending # NoNode /\ pending' = NoNode /\ UNCHANGED <<running, requests>>
    BY <1>5 DEF AnswerConfirm
  <2>2. ConfirmationSteps' < ConfirmationSteps /\ ConfirmationSteps' <= ConfirmationSteps
    BY <1>0, <2>1 DEF ConfirmationSteps
  <2>3. EndingSteps' <= EndingSteps
    BY <2>1 DEF EndingSteps
  <2> QED
    BY <1>2, <2>2, <2>3, RunMeasureFalls
<1> QED
  BY <1>3, <1>4, <1>5

LEMMA StopTakesNothingBack ==
  ASSUME RunIndInv, Stop \/ UNCHANGED runVars
  PROVE  RunStepsLeft' <= RunStepsLeft /\ RunStepsLeft \in Nat
<1>1. UNCHANGED <<running, requests>> /\ pending' \in {pending, NoNode} /\ UNCHANGED execVars
  BY DEF Stop, runVars, uiVars, vars
<1>2. StepsLeft \in Nat /\ StepsLeft' \in Nat /\ StepsLeft' <= StepsLeft
  BY <1>1, InvGivesSteps, SameSteps DEF RunIndInv
<1>3. ConfirmationSteps' <= ConfirmationSteps
  BY <1>1 DEF ConfirmationSteps
<1>4. EndingSteps' <= EndingSteps
  BY <1>1 DEF EndingSteps
<1> QED
  BY <1>2, <1>3, <1>4, RunMeasureFalls

LEMMA RunStepsFall ==
  RunIndInv /\ RunIndInv' /\ RunNext =>
     /\ ~Start => RunStepsLeft' <= RunStepsLeft
     /\ ReturnAtOnce \/ RunStep \/ RequestConfirm \/ (\E ok \in BOOLEAN : AnswerConfirm(ok))
          => RunStepsLeft' < RunStepsLeft
<1> SUFFICES ASSUME RunIndInv, RunIndInv', RunNext
             PROVE  /\ ~Start => RunStepsLeft' <= RunStepsLeft
                    /\ ReturnAtOnce \/ RunStep \/ RequestConfirm
                         \/ (\E ok \in BOOLEAN : AnswerConfirm(ok))
                         => RunStepsLeft' < RunStepsLeft
  OBVIOUS
<1>1. RunStepsLeft \in Int /\ RunStepsLeft' \in Int
  <2>1. (Inv => StepsLeft \in Nat)'
    BY InvGivesSteps, PTL
  <2>2. StepsLeft \in Int /\ StepsLeft' \in Int
    BY <2>1, InvGivesSteps DEF RunIndInv
  <2> QED
    BY <2>2 DEF RunStepsLeft, ConfirmationSteps, EndingSteps
<1>2. CASE RunStep
  BY <1>1, <1>2, RunStepCounts
<1>3. CASE ReturnAtOnce \/ RequestConfirm \/ (\E ok \in BOOLEAN : AnswerConfirm(ok))
  BY <1>1, <1>3, ConfirmationCounts
<1>4. CASE ~RunStep /\ ~(ReturnAtOnce \/ RequestConfirm
                          \/ (\E ok \in BOOLEAN : AnswerConfirm(ok)))
  BY <1>4, StopTakesNothingBack DEF RunNext
<1> QED
  BY <1>2, <1>3, <1>4

(* From one start to the next the app takes a bounded number of steps for a *)
(* run: no graph, no order of requests and answers, no stop makes it go on  *)
(* for ever (WorkflowRun::start, request_confirm, answer_confirm, stop).    *)
THEOREM RunIsFinite == RunSpec => [](RunStepsLeft \in Nat) /\ RunStepsRunOut
<1>1. RunIndInv => RunStepsLeft \in Nat
  <2> SUFFICES ASSUME RunIndInv PROVE RunStepsLeft \in Nat
    OBVIOUS
  <2>1. StepsLeft \in Nat
    BY InvGivesSteps DEF RunIndInv
  <2> QED
    BY <2>1 DEF RunStepsLeft, ConfirmationSteps, EndingSteps
<1>2. RunIndInv /\ RunIndInv' /\ [RunNext]_runVars =>
        [/\ ~Start => RunStepsLeft' <= RunStepsLeft
         /\ ReturnAtOnce \/ RunStep \/ RequestConfirm \/ (\E ok \in BOOLEAN : AnswerConfirm(ok))
              => RunStepsLeft' < RunStepsLeft]_runVars
  BY RunStepsFall
<1> QED
  BY <1>1, <1>2, InitRunInv, NextKeepsRun, PTL DEF RunSpec, RunStepsRunOut

=============================================================================
