------------------------ MODULE RequestLifecycle ------------------------
(***************************************************************************)
(* What the anchoring service promises about the status of an anchoring    *)
(* request: the lifecycle drawn in docs/assets/lifecycle.puml, over the    *)
(* statuses that lib/anchoring/src/anchoring-status.ts declares.  A batch  *)
(* of requests may move together, each along one edge of the diagram.      *)
(***************************************************************************)
CONSTANT Cids

VARIABLE status

AnchoringStatus ==
  {"NOT_REQUESTED", "PENDING", "PROCESSING", "ANCHORED", "FAILED", "OUTDATED"}

\* The arrows of lifecycle.puml.
Edges == { <<"NOT_REQUESTED", "PENDING">>, <<"PENDING", "PROCESSING">>,
           <<"PROCESSING", "ANCHORED">>,   <<"PROCESSING", "FAILED">>,
           <<"PROCESSING", "OUTDATED">> }

Init == status = [c \in Cids |-> "NOT_REQUESTED"]

Next ==
  /\ status' \in [Cids -> AnchoringStatus]
  /\ \A c \in Cids : status'[c] # status[c] => <<status[c], status'[c]>> \in Edges

Spec == Init /\ [][Next]_status
=========================================================================
