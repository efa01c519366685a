----------------------------- MODULE MCNodeCert -----------------------------
(***************************************************************************)
(* Two nodes of one host that share a certificate, which the first one      *)
(* orders and renews.  Either the orders run on their own, with failures,   *)
(* pauses and a crash, or the nodes run, with an order that succeeds: the   *)
(* two parts are explored side by side and not multiplied.                  *)
(***************************************************************************)
EXTENDS NodeCert

MCControllers == {"c", "d"}
MCJobs == {"c", "r"}
MCKeyOf == [j \in MCJobs |-> "k"]
MCFilesOf == [j \in MCJobs |-> "f"]
MCCertFilesOf == [c \in MCControllers |-> "f"]
MCOwnerOf == [r \in {"r"} |-> "c"]

ArtX(host, public, port) == [type |-> "artx", host |-> host, public |-> public, server |-> port]

MCInfosOf ==
    [c \in MCControllers |->
        IF c = "c" THEN {ArtX("h", 8443, 8443), ArtX("h", 8443, 443)}
        ELSE {ArtX("h", 8443, 8443), ArtX("h", 9443, 9443), ArtX("none", 0, 8443)}]

VARIABLE part

MCVars == <<certVars, part>>

MCInit == /\ RedirectInit /\ NodeInit
          /\ \/ part = "orders" /\ OrderInit /\ \A c \in Controllers : info[c] = ArtX("h", 8443, 8443)
             \/ part = "nodes" /\ OrderInitWith(MaxFailures)

MCOrders == part = "orders" /\ OrderNext /\ UNCHANGED <<redirectVars, nodeVars, part>>
MCNodes == part = "nodes" /\ NodeCertNext /\ UNCHANGED part

MCOrderFairness ==
    /\ WF_MCVars(Tick /\ part = "orders" /\ UNCHANGED <<redirectVars, nodeVars, part>>)
    /\ \A j \in Jobs : WF_MCVars(/\ OrderStep(j) /\ part = "orders"
                                 /\ UNCHANGED <<redirectVars, nodeVars, part>>)

MCSpec == MCInit /\ [][MCOrders \/ MCNodes]_MCVars /\ MCOrderFairness

\* Issued (cert.go, placeCertOrder), of the orders on their own.
CertsIssued == part = "orders" => Issued
=============================================================================
