----------------------------- MODULE MCLimiter -----------------------------
(***************************************************************************)
(* Small instances of the limiter.                                          *)
(***************************************************************************)
EXTENDS Limiter, TLC

CONSTANTS c1, c2, u1, ipA, ipB

User(uid, limit, rate) == [uid |-> uid, deviceLimit |-> limit, rate |-> rate]

\* One credential that is edited, passes to another user, or leaves.
EditedUsers ==
    { (u1 :> User(1, 1, 0)), (u1 :> User(1, 2, 0)), (u1 :> User(2, 1, 0)),
      (u1 :> None) }

\* One credential whose policy never changes.
OneUser == { (u1 :> User(1, 1, 5)) }

NobodyAlive == { (1 :> 0) @@ (2 :> 0) }

\* The panel counts two devices of the user, or sends a negative number.
AliveOne == { (1 :> -1), (1 :> 2) }

SymConns == Permutations(Conns)
SymConnsIPs == Permutations(Conns) \union Permutations(IPs)
=============================================================================
