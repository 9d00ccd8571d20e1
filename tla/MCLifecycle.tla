---------------------------- MODULE MCLifecycle ----------------------------
(***************************************************************************)
(* A chain of three components, client -> service -> base, with a finding  *)
(* on the first edge and one on the service itself.  The import has        *)
(* inferred that the service is bridged and the base is Rust-owned.        *)
(* MCTwoGates adds a gate that covers nothing required.                    *)
(***************************************************************************)
EXTENDS Lifecycle

MCModules  == {"client", "service", "base"}
MCEdges    == {<<"client", "service">>, <<"service", "base">>}
MCFindings == {"observer", "callback"}
MCPlace    == [f \in MCFindings |->
                 IF f = "observer" THEN <<"service">> ELSE <<"client", "service">>]
MCTwoGates == {"unit", "browser"}
MCGateTargets == [g \in MCTwoGates |-> IF g = "browser" THEN {"linux"} ELSE {}]
MCRequired == {"linux"}
MCOneGate  == {"browser"}
MCSources  == [m \in MCModules |->
                 CASE m = "client"  -> "cpp"
                   [] m = "service" -> "mixed"
                   [] m = "base"    -> "rust"]
=============================================================================
