---------------------------- MODULE DependencyRun ----------------------------
(***************************************************************************)
(* What a workflow execution promises, without levels, degrees or queues:  *)
(* its nodes start one after another, each at most once, each only when    *)
(* all the links into it are satisfied; links are satisfied by the answer  *)
(* of the node they leave; and the run ends either because it was stopped  *)
(* or because no further node may start.                                   *)
(* ("Nodes run one after another in dependency order",                     *)
(* crates/ops-workflow/src/executor.rs.)                                   *)
(***************************************************************************)
VARIABLES
  nodes,      \* the nodes that take part
  links,      \* the links between them: records with a from and a to
  started,    \* nodes that were started
  answered,   \* nodes that were started and gave their answer
  satisfied,  \* links satisfied so far
  outcome     \* "running", "complete" or "stopped"

depVars == <<nodes, links, started, answered, satisfied, outcome>>

LinksInto(n) == {l \in links : l.to = n}
LinksFrom(n) == {l \in links : l.from = n}

Init ==
  /\ \A l \in links : l.from \in nodes /\ l.to \in nodes
  /\ started = {}
  /\ answered = {}
  /\ satisfied = {}
  /\ outcome = IF nodes = {} THEN "complete" ELSE "running"

(* One node starts, when none is running. *)
Start(n) ==
  /\ outcome = "running"
  /\ answered = started
  /\ n \notin started
  /\ LinksInto(n) \subseteq satisfied
  /\ started' = started \cup {n}
  /\ UNCHANGED <<nodes, links, answered, satisfied, outcome>>

(* The running node answers; its answer satisfies some of its links, or    *)
(* stops the run.                                                          *)
Answer(n) ==
  /\ outcome = "running"
  /\ n \in started \ answered
  /\ answered' = answered \cup {n}
  /\ \/ /\ \E taken \in SUBSET LinksFrom(n) :
             satisfied' = satisfied \cup taken
        /\ UNCHANGED outcome
     \/ /\ outcome' = "stopped"
        /\ UNCHANGED satisfied
  /\ UNCHANGED <<nodes, links, started>>

(* The run is stopped between two nodes. *)
Stop ==
  /\ outcome = "running"
  /\ answered = started
  /\ outcome' = "stopped"
  /\ UNCHANGED <<nodes, links, started, answered, satisfied>>

(* The run is complete when no node may start any more. *)
Finish ==
  /\ outcome = "running"
  /\ answered = started
  /\ \A n \in nodes \ started : ~(LinksInto(n) \subseteq satisfied)
  /\ outcome' = "complete"
  /\ UNCHANGED <<nodes, links, started, answered, satisfied>>

Next ==
  \/ \E n \in nodes : Start(n) \/ Answer(n)
  \/ Stop
  \/ Finish

Spec == Init /\ [][Next]_depVars
=============================================================================
