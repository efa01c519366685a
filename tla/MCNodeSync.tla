----------------------------- MODULE MCNodeSync -----------------------------
(***************************************************************************)
(* Small instances of the monitor.                                          *)
(***************************************************************************)
EXTENDS NodeSync, TLC

CONSTANTS t1, t2, u1, u2, f1, f2

Node(t, b, f, p) == [type |-> t, body |-> b, flow |-> f, policy |-> p]
User(id, limit) == [id |-> id, limit |-> limit]

\* Two listeners under one tag and one under another.
BodyEdits == {Node(t1, 1, 0, 0), Node(t1, 2, 0, 0), Node(t2, 1, 0, 0)}

\* A base configuration, its tier, its policy and its body edited.
InPlaceEdits == {Node(t1, 1, 0, 0), Node(t1, 1, 1, 0), Node(t1, 1, 0, 1),
                 Node(t1, 2, 0, 0)}

OneList == {(u1 :> User(1, 1)) @@ (u2 :> None)}

\* A user comes, goes, and has the limit edited.
ListEdits == {(u1 :> User(1, 1)) @@ (u2 :> None),
              (u1 :> User(1, 2)) @@ (u2 :> User(2, 1)),
              (u1 :> None) @@ (u2 :> User(2, 1))}
=============================================================================
