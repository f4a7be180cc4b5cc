------------------------- MODULE MCWorkflowExecutor -------------------------
(* WorkflowExecutor on every small workflow of a family: the graphs the    *)
(* editor can draw (no connection of a node to itself, a branch handle on  *)
(* every connection out of a condition or switch and on no other), cycles, *)
(* joins and disabled nodes included.                                      *)
EXTENDS WorkflowExecutor, TLC

CONSTANTS
  a, b, c, d,      \* nodes
  MaxConnections   \* bound on the connections of one workflow

Handles(k) ==
  CASE k = "condition" -> {"true", "false"}
    [] k = "switch" -> Case
    [] OTHER -> {"none"}

Drawable(nodes, kind) ==
  {l \in Connection : l.from # l.to /\ {l.from, l.to} \subseteq nodes
                         /\ l.handle \in Handles(kind[l.from])}

\* The sets of at most n members of S.
UpTo(n, S) ==
  LET grow[i \in 0 .. n] ==
        IF i = 0 THEN {{}}
        ELSE grow[i - 1] \cup {s \cup {x} : s \in grow[i - 1], x \in S}
  IN grow[n]

\* Workflows drawn among the given nodes; the others are disabled and alone.
Family(nodes, n, enabledSets, kinds, intervals) ==
  UNION {[enabled : enabledSets, kind : {k @@ [o \in Node |-> "noop"]},
          connections : UpTo(n, Drawable(nodes, k)), interval : intervals] :
            k \in kinds}

\* Every kind of node before every other, all three nodes enabled, a node
\* disabled, or none enabled.
AllKinds ==
  LET nodes == {a, b, c}
  IN Family(nodes, MaxConnections - 1, {nodes},
            [nodes -> {"confirm", "work", "condition", "switch"}], {TRUE})
       \cup Family(nodes, MaxConnections - 1, {{}, {a, b}},
                    [nodes -> {"noop", "work"}], BOOLEAN)

\* More nodes and connections: a condition and a switch among commands.
Wide ==
  Family(Node, MaxConnections, {Node},
         {(a :> "condition") @@ (b :> x) @@ (c :> "work") @@ (d :> "work") :
            x \in {"switch", "work"}}, {FALSE})

Both == AllKinds \cup Wide

=============================================================================
