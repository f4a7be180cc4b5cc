--------------------------- MODULE MCRemoteEditor ---------------------------
(* RemoteEditor for TLC.  What takes long is everybody at once; a behaviour  *)
(* has one of the following casts.                                           *)
EXTENDS RemoteEditor

CONSTANTS h1, h2, t1, o1, c1, c2, c3, s1, l1, l2, f1, f2, x1, x2, root, home

Cast(hs, opened, moves, ends, others) ==
    [hosts |-> hs, opens |-> opened, moves |-> moves, breaks |-> ends, others |-> others]

MCCasts == {
    (* the panel's user between two hosts and two directories *)
    Cast({h1, h2}, 2, TRUE, 1, {}),
    (* the panel's user between two hosts, with a transfer *)
    Cast({h1, h2}, 2, FALSE, 1, {t1}),
    (* the panel, a directory it makes, and another open *)
    Cast({h1}, 1, FALSE, 1, {c1, o1}),
    (* the panel with a directory it makes while a transfer runs *)
    Cast({h1}, 1, FALSE, 0, {c1, t1}),
    (* two calls of agents *)
    Cast({h1}, 0, FALSE, 1, {c2, c3}),
    (* an editor that loads and saves *)
    Cast({h1}, 0, FALSE, 0, {s1, l1}),
    (* an editor that loads twice *)
    Cast({h1}, 0, FALSE, 0, {l1, l2})}
=============================================================================
