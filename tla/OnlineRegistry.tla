--------------------------- MODULE OnlineRegistry ---------------------------
(***************************************************************************)
(* What the limiter promises about online devices                          *)
(* (docs/online-device-investigation.md, limiter/online.go): the devices    *)
(* of a node are the (user id, address) pairs of the connections that are   *)
(* registered right now.  A registration is made once per connection,       *)
(* belongs to the identity the connection was authenticated as, and ends    *)
(* when that connection ends, when that identity leaves the node, or when   *)
(* the node reloads, and for no other reason.                               *)
(* There are no reference counts, no table rows and no pointers here:       *)
(* Limiter implements this specification with all three.                    *)
(***************************************************************************)
CONSTANTS
    Conns,   \* connections, each used once
    Uuids,   \* credentials a connection can authenticate with
    Uids,    \* panel user ids
    IPs,     \* unmapped source addresses
    None     \* the identity of a credential that is not on the node

VARIABLES
    reg,      \* the set of current registrations
    members,  \* the user id behind each credential
    closed    \* the connections that have ended

Registration == [conn : Conns, uuid : Uuids, uid : Uids, ip : IPs]
Memberships  == [Uuids -> Uids \union {None}]

RegistryInit == reg = {} /\ members \in Memberships /\ closed = {}

(***************************************************************************)
(* A connection registers under the identity its credential has now.        *)
(***************************************************************************)
Register(c, u, ip) ==
    /\ c \notin closed
    /\ \A r \in reg : r.conn # c
    /\ members[u] # None
    /\ reg' = reg \union {[conn |-> c, uuid |-> u, uid |-> members[u], ip |-> ip]}
    /\ UNCHANGED <<members, closed>>

(***************************************************************************)
(* A connection ends; nobody else's registration is touched.                *)
(***************************************************************************)
Unregister(c) ==
    /\ c \notin closed
    /\ closed' = closed \union {c}
    /\ reg' = {r \in reg : r.conn # c}
    /\ UNCHANGED members

(***************************************************************************)
(* The user list is edited: exactly the registrations whose credential has  *)
(* left or passed to another user end.                                      *)
(***************************************************************************)
Edit(m) ==
    /\ members' = m
    /\ reg' = {r \in reg : m[r.uuid] = r.uid}
    /\ UNCHANGED closed

(***************************************************************************)
(* The node reloads, possibly with another user list.                       *)
(***************************************************************************)
Reload(m) ==
    /\ members' = m
    /\ reg' = {}
    /\ UNCHANGED closed

RegistryNext ==
    \/ \E c \in Conns, u \in Uuids, ip \in IPs : Register(c, u, ip)
    \/ \E c \in Conns : Unregister(c)
    \/ \E m \in Memberships : Edit(m) \/ Reload(m)

RegistrySpec == RegistryInit /\ [][RegistryNext]_<<reg, members, closed>>

\* The devices the node reports: distinct (user id, address) pairs.
Devices == {[uid |-> r.uid, ip |-> r.ip] : r \in reg}
=============================================================================
