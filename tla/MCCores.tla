------------------------------- MODULE MCCores -------------------------------
(***************************************************************************)
(* Small instances of what a node has in the cores and on the host: up to   *)
(* two cores with a node of every kind, and the firewall redirects of two   *)
(* nodes.  A behaviour explores one of them, the one that part names; what  *)
(* ties them together, the redirect that AddNode applies and DelNode        *)
(* removes, is a step of Cores that may fail.                               *)
(***************************************************************************)
EXTENDS Cores, PortHop

CONSTANT range1

VARIABLE part

\* The tag of one node begins with the tag of the other.
TwoTags == {<<1>>, <<1, 2>>}

\* A redirect and its edit to another port, which gives its range twice.
TwoPorts == {[port |-> 1, ranges |-> <<range1>>], [port |-> 2, ranges |-> <<range1, range1>>]}

BothFamilies == <<"iptables", "ip6tables">>

-----------------------------------------------------------------------------
CoresRest ==
    /\ cores = <<"sing">> /\ kind = "hysteria2"
    /\ CoresInit /\ option.written = "sing" /\ option.coreName = 0

\* The operator redirects to the port of the first redirect.
HopRests == HopInit /\ \A c \in DOMAIN chain, r \in Rules : chain[c][r] = 1 => r.port = 1

MCInit ==
    \/ part = "cores" /\ CoresInit /\ HopRests
    \/ part = "hop" /\ HopRests /\ CoresRest

MCNext ==
    /\ UNCHANGED part
    /\ \/ part = "cores" /\ CoresNext /\ UNCHANGED hopVars
       \/ part = "hop" /\ HopNext /\ UNCHANGED coreVars

MCSpec == MCInit /\ [][MCNext]_<<part, coreVars, hopVars>>
=============================================================================
