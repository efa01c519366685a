----------------------------- MODULE MCDispatch -----------------------------
(***************************************************************************)
(* The dispatcher from three sides: the links of connections, their traffic *)
(* and their first bytes.  Links and traffic share the set-up and the calls *)
(* of the sync task and nothing else, and sniffing is local to a            *)
(* connection, so the three are explored side by side, each with the bounds *)
(* it needs.                                                                *)
(***************************************************************************)
EXTENDS Dispatch, Sniffing

VARIABLE part

mcVars == <<dispatchVars, sniffingVars, part>>

\* Connections are numbered in the order in which they are accepted.
InOrder == \A c \in Conns : (c > 1 /\ conn'[c].at # "none") => conn'[c - 1].at # "none"

Quiet == request.path = "pipe" /\ request.network = "tcp" /\ request.sniffing = "off"
         /\ request.fake = "no" /\ ~request.routeOnly /\ ~request.excluded
         /\ request.override = {"fakedns"}

MCInit ==
    /\ DispatchInit /\ SniffInit
    /\ part \in {"links", "traffic", "sniffing"}
    /\ part # "sniffing" => Quiet
    /\ part # "traffic" => core = "xray"

MCNext ==
    /\ UNCHANGED part
    /\ \/ /\ part = "links" /\ DispatchNext /\ InOrder /\ UNCHANGED sniffingVars
          /\ moved' = moved /\ reports' = 0
       \/ /\ part = "traffic" /\ DispatchNext /\ InOrder /\ UNCHANGED sniffingVars
          /\ carrier' = {} /\ muxOn' /\ syncs' + reports' <= 3
          /\ \A u \in Users : moved'[u] <= 2
          /\ \A c \in Conns : conn'[c].kind # "link"
       \/ part = "sniffing" /\ SniffNext /\ UNCHANGED dispatchVars

MCSpec == MCInit /\ [][MCNext]_mcVars
=============================================================================
