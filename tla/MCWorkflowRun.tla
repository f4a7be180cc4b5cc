---------------------------- MODULE MCWorkflowRun ----------------------------
(* WorkflowRun on chains and forks of two and three nodes with confirms.   *)
EXTENDS WorkflowRun, TLC

CONSTANTS a, b, c

Link(x, y, h) == [from |-> x, to |-> y, handle |-> h]
Flow(enabled, ka, kb, kc, connections, interval) ==
  [enabled |-> enabled, kind |-> (a :> ka) @@ (b :> kb) @@ (c :> kc),
   connections |-> connections, interval |-> interval]

Chain == {Link(a, b, "none"), Link(b, c, "none")}
Fork == {Link(a, b, "true"), Link(a, c, "false")}
Join == {Link(a, c, "none"), Link(b, c, "none")}
Cycle == {Link(b, c, "none"), Link(c, b, "none")}

Confirms ==
  UNION {{Flow({}, "work", "work", "work", {}, i),
          Flow(Node, "work", "confirm", "work", Chain, i),
          Flow({a, b}, "confirm", "work", "work", Chain, i),
          Flow(Node, "confirm", "confirm", "work", Chain, i),
          Flow(Node, "condition", "confirm", "noop", Fork, i),
          Flow(Node, "confirm", "confirm", "work", Join, i),
          Flow(Node, "work", "confirm", "work", Cycle, i)} : i \in BOOLEAN}

NoInterval == {w \in Confirms : ~w.interval}

=============================================================================
