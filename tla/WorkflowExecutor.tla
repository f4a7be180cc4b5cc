-------------------------- MODULE WorkflowExecutor --------------------------
(***************************************************************************)
(* One execution of a workflow: execute_workflow and execute_node of       *)
(* crates/ops-workflow/src/executor.rs.  The nodes of the canvas run one   *)
(* at a time, level by level: a node is ready once every connection into   *)
(* it has been satisfied by its source.  Conditions and switches satisfy   *)
(* only the connections of the branch they took.                           *)
(*                                                                         *)
(* What the runtime answers (a command's result, a confirmation, the       *)
(* value of a condition) is chosen by the environment, and so is the       *)
(* moment the stop flag is raised; the sleeps end when they like.          *)
(***************************************************************************)
EXTENDS Integers, FiniteSets

CONSTANTS
  Node,        \* the ids of canvas nodes
  Case,        \* the branch keys of switch nodes ("case-0", "case-1", ...)
  Workflows,   \* the workflows that may be run
  NoNode       \* "no node": not an element of Node

Kind == {"confirm", "noop", "work", "condition", "switch"}
Handle == {"none", "true", "false"} \cup Case
Connection == [from : Node, to : Node, handle : Handle]

\* What a node left in results, condition_results and switch_results.
Result == {"none", "ok", "fail"} \cup Case

Workflow ==
  [enabled : SUBSET Node, kind : [Node -> Kind],
   connections : SUBSET Connection, interval : BOOLEAN]

ASSUME WorkflowAssumption ==
  /\ NoNode \notin Node
  /\ IsFiniteSet(Node)
  /\ Case \cap {"none", "ok", "fail", "true", "false"} = {}
  /\ Workflows \subseteq Workflow
  /\ \A w \in Workflows : IsFiniteSet(w.connections)

VARIABLES
  workflow,    \* the nodes, connections and interval this execution was given
  phase,       \* where execute_workflow is: see Phase
  ready,       \* the nodes of this level still to run
  nextReady,   \* the nodes found ready for the next level
  processed,   \* the nodes that were started
  inDegree,    \* in_degree: connections into a node not yet satisfied
  result,      \* what each completed node answered
  current,     \* the node being run, or about to run after the interval
  level,       \* the number of levels started
  ending,      \* how the execution ended
  cancelled    \* the stop flag, runtime.cancelled()

execVars == <<workflow, phase, ready, nextReady, processed, inDegree, result,
              current, level, ending>>
vars == <<execVars, cancelled>>

\* "loop": between two nodes; "pause": asleep for the interval before current;
\* "node": current is running; "finished": execute_workflow has returned.
Phase == {"loop", "pause", "node", "finished"}
Ending == {"none", "nothing", "complete", "terminated"}
-----------------------------------------------------------------------------
(* Connections between two enabled nodes are the ones that count. *)
Live(w) == {c \in w.connections : c.from \in w.enabled /\ c.to \in w.enabled}
Into(m) == {c \in Live(workflow) : c.to = m}
OutOfAny(n) == {c \in workflow.connections : c.from = n}
OutOf(n) == {c \in Live(workflow) : c.from = n}

(* Does connection c let the run pass, when its source answered r? *)
Passes(c, r) ==
  /\ workflow.kind[c.from] = "condition" =>
       /\ c.handle = "true" => r = "ok"
       /\ c.handle = "false" => r # "ok"
  /\ workflow.kind[c.from] = "switch" =>
       c.handle \in {"none", r}

(* The connections out of n that count down their targets, after answer r. *)
PassingIgnoringBranch(n, r) == {c \in OutOf(n) : c.to \notin processed}
Passing(n, r) == {c \in OutOf(n) : c.to \notin processed /\ Passes(c, r)}

Completed == {n \in Node : result[n] # "none"}
Refused(n) == workflow.kind[n] = "confirm" /\ result[n] = "fail"
Satisfied(c) ==
  c.from \in Completed /\ ~Refused(c.from) /\ Passes(c, result[c.from])

Roots(w) == {n \in w.enabled : \A c \in Live(w) : c.to # n}

(* The answers a node of kind k may give. *)
Answers(k) ==
  CASE k = "noop" -> {"ok"}
    [] k = "switch" -> Case
    [] OTHER -> {"ok", "fail"}

(* The state in which execute_workflow begins to run workflow w: with no   *)
(* step enabled it returns at once.                                        *)
Begun(w) ==
  [phase    |-> IF w.enabled = {} THEN "finished" ELSE "loop",
   ending   |-> IF w.enabled = {} THEN "nothing" ELSE "none",
   ready    |-> Roots(w),
   inDegree |-> [n \in Node |->
                   Cardinality({c \in Live(w) : c.to = n})]]

Init ==
  /\ workflow \in Workflows
  /\ phase = Begun(workflow).phase
  /\ ending = Begun(workflow).ending
  /\ ready = {}
  /\ nextReady = Begun(workflow).ready
  /\ inDegree = Begun(workflow).inDegree
  /\ processed = {}
  /\ result = [n \in Node |-> "none"]
  /\ current = NoNode
  /\ level = 0
  /\ cancelled = FALSE
-----------------------------------------------------------------------------
(* The level is used up and the next one is not empty. *)
NextLevel ==
  /\ phase = "loop" /\ ready = {} /\ nextReady # {}
  /\ ready' = nextReady
  /\ nextReady' = {}
  /\ level' = level + 1
  /\ UNCHANGED <<workflow, phase, processed, inDegree, result, current,
                 ending, cancelled>>

CompleteAfterLevel ==
  /\ phase = "loop" /\ ready = {} /\ level > 0
  /\ phase' = "finished"
  /\ ending' = "complete"
  /\ UNCHANGED <<workflow, ready, nextReady, processed, inDegree, result,
                 current, level, cancelled>>

CompleteAfterAll ==
  /\ phase = "loop" /\ processed = workflow.enabled
  /\ phase' = "finished"
  /\ ending' = "complete"
  /\ UNCHANGED <<workflow, ready, nextReady, processed, inDegree, result,
                 current, level, cancelled>>

(* No node is left to run. *)
Complete ==
  /\ phase = "loop" /\ ready = {} /\ nextReady = {}
  /\ phase' = "finished"
  /\ ending' = "complete"
  /\ UNCHANGED <<workflow, ready, nextReady, processed, inDegree, result,
                 current, level, cancelled>>

(* The stop flag is looked at before each node of a level. *)
Terminate ==
  /\ phase = "loop" /\ ready # {} /\ cancelled
  /\ phase' = "finished"
  /\ ending' = "terminated"
  /\ UNCHANGED <<workflow, ready, nextReady, processed, inDegree, result,
                 current, level, cancelled>>

(* The sleep between two nodes starts, when the workflow asks for one. *)
Pause(n) ==
  /\ phase = "loop" /\ n \in ready /\ ~cancelled
  /\ processed # {} /\ workflow.interval
  /\ phase' = "pause"
  /\ ready' = ready \ {n}
  /\ current' = n
  /\ UNCHANGED <<workflow, nextReady, processed, inDegree, result, level,
                 ending, cancelled>>

(* NodeStart without a sleep before it ... *)
StartNode(n) ==
  /\ phase = "loop" /\ n \in ready /\ ~cancelled
  /\ processed = {} \/ ~workflow.interval
  /\ phase' = "node"
  /\ ready' = ready \ {n}
  /\ current' = n
  /\ processed' = processed \cup {n}
  /\ UNCHANGED <<workflow, nextReady, inDegree, result, level, ending,
                 cancelled>>

(* ... and after one: the stop flag is not looked at again. *)
StartAfterPause ==
  /\ phase = "pause"
  /\ phase' = "node"
  /\ processed' = processed \cup {current}
  /\ UNCHANGED <<workflow, ready, nextReady, inDegree, result, current,
                 level, ending, cancelled>>

(* NodeComplete, and the connections out of the node are followed. *)
FinishNode(r) ==
  LET passing == Passing(current, r)
      degree == [m \in Node |->
                   inDegree[m] - Cardinality({c \in passing : c.to = m})]
  IN
  /\ phase = "node"
  /\ r \in Answers(workflow.kind[current])
  /\ ~(workflow.kind[current] = "confirm" /\ r = "fail")
  /\ phase' = "loop"
  /\ result' = [result EXCEPT ![current] = r]
  /\ current' = NoNode
  /\ inDegree' = degree
  /\ nextReady' = nextReady \cup
                    {c.to : c \in {d \in passing : degree[d.to] <= 0}}
  /\ UNCHANGED <<workflow, ready, processed, level, ending, cancelled>>

(* A confirmation answered "no" ends the execution. *)
RefuseConfirm ==
  /\ phase = "node" /\ workflow.kind[current] = "confirm"
  /\ phase' = "finished"
  /\ ending' = "terminated"
  /\ result' = [result EXCEPT ![current] = "fail"]
  /\ current' = NoNode
  /\ UNCHANGED <<workflow, ready, nextReady, processed, inDegree, level,
                 cancelled>>

(* The environment raises the stop flag. *)
Cancel ==
  /\ phase # "finished" /\ ~cancelled
  /\ cancelled' = TRUE
  /\ UNCHANGED execVars

ExecNext ==
  \/ NextLevel
  \/ Complete
  \/ Terminate
  \/ \E n \in Node : Pause(n) \/ StartNode(n)
  \/ StartAfterPause
  \/ \E r \in Result : FinishNode(r)
  \/ RefuseConfirm

Next == ExecNext \/ Cancel

Spec == Init /\ [][Next]_vars

(* Every runtime call returns: a command's wait is capped, a sleep ends,   *)
(* a confirmation is answered.                                             *)
FairSpec == Spec /\ WF_vars(ExecNext)
-----------------------------------------------------------------------------
TypeOK ==
  /\ workflow \in Workflow
  /\ IsFiniteSet(workflow.connections)
  /\ phase \in Phase
  /\ ready \subseteq workflow.enabled
  /\ nextReady \subseteq workflow.enabled
  /\ processed \subseteq workflow.enabled
  /\ inDegree \in [Node -> Int]
  /\ result \in [Node -> Result]
  /\ current \in workflow.enabled \cup {NoNode}
  /\ level \in Nat
  /\ ending \in Ending
  /\ cancelled \in BOOLEAN

(* Where each node is: at most one of these, and only while it may run. *)
Unsatisfied(m) == {c \in Into(m) : ~Satisfied(c)}
Asleep == IF phase = "pause" THEN {current} ELSE {}
Running == IF phase = "node" THEN {current} ELSE {}
Waiting == ready \cup nextReady \cup Asleep

(* in_degree counts the connections not yet satisfied: a node counted down  *)
(* twice would run too early, one never counted down would never run.       *)
DegreeIsExact ==
  \A m \in workflow.enabled : inDegree[m] = Cardinality(Unsatisfied(m))

(* ready and next_ready hold exactly the nodes that may run and have not:   *)
(* none is queued twice and none is forgotten.                              *)
QueuesAreExact ==
  /\ ready \cap nextReady = {}
  /\ Waiting \cap processed = {}
  /\ Asleep \cap (ready \cup nextReady) = {}
  /\ processed \cup Waiting = {m \in workflow.enabled : Unsatisfied(m) = {}}

(* A node has an answer exactly when it was started and is not running, and *)
(* a refused confirmation has ended the run.                                *)
ResultsAreExact ==
  /\ Completed = processed \ Running
  /\ Running \subseteq processed
  /\ current = NoNode <=> phase \in {"loop", "finished"}
  /\ \A n \in Completed : result[n] \in Answers(workflow.kind[n])
  /\ ending = "none" <=> phase # "finished"
  /\ \A n \in Completed : Refused(n) => ending = "terminated"

(* The bookkeeping of the loop is exact: degrees, queues and results.       *)
Inv == TypeOK /\ DegreeIsExact /\ QueuesAreExact /\ ResultsAreExact

(* "Nodes run one after another in dependency order": every connection into *)
(* a started node was satisfied, so its source had completed and had taken  *)
(* that branch, though the node may have several sources on several levels. *)
DependencyOrder ==
  \A m \in processed : \A c \in Into(m) : Satisfied(c)

(* An execution that ends "complete" leaves out only nodes that wait for a  *)
(* connection that will never be satisfied: behind a branch not taken, in a *)
(* cycle, or behind such a node.                                            *)
NothingLeftBehind ==
  ending = "complete" =>
    \A m \in workflow.enabled \ processed :
      \E c \in Into(m) : c.from \notin processed \/ ~Passes(c, result[c.from])

(* No node is started twice, whatever joins and cycles the graph has.       *)
RunsAtMostOnce ==
  [][phase' = "node" /\ phase # "node" => current' \notin processed]_vars

(* An execution ends whatever its graph is, cycles included, when every     *)
(* runtime call returns.                                                    *)
Terminates == <>(phase = "finished")

(* The reason, without fairness: a node is queued once and started once,    *)
(* and between two nodes there is at most a pause.  So every step of the    *)
(* executor leaves it fewer steps, cycles in the graph or not.              *)
Unqueued == workflow.enabled \ (processed \cup ready \cup Asleep)
Unstarted == workflow.enabled \ processed
StepsOfNode ==
  CASE phase = "finished" -> 0
    [] phase = "pause" -> 1
    [] phase = "loop" -> 2
    [] phase = "node" -> 3
StepsLeft == 3 * (Cardinality(Unqueued) + Cardinality(Unstarted)) + StepsOfNode

StepsAreBounded == StepsLeft \in 0 .. 6 * Cardinality(workflow.enabled) + 2
StepsRunOut == [][ExecNext => StepsLeft' < StepsLeft]_vars

(* The execution is a dependency-ordered run: levels, in_degree and the two *)
(* queues implement it.                                                     *)
Outcome ==
  CASE ending = "none" -> "running"
    [] ending = "terminated" -> "stopped"
    [] OTHER -> "complete"

Dependency == INSTANCE DependencyRun WITH
  nodes <- workflow.enabled, links <- Live(workflow),
  started <- processed, answered <- Completed,
  satisfied <- {c \in Live(workflow) : Satisfied(c)}, outcome <- Outcome

ImplementsDependencyRun == Dependency!Spec

=============================================================================
