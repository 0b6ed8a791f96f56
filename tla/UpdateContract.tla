--------------------------- MODULE UpdateContract ----------------------------
(***************************************************************************)
(* What the in-place update extension promises the Cluster API controller, *)
(* without handlers, caches, replicas or time: the desired BootstrapConfig *)
(* of a Machine reaches its node on top of the node's own identity, and    *)
(* the update is complete only after that.                                 *)
(***************************************************************************)
EXTENDS MachineConfig

CONSTANTS Machines, Bootstraps

VARIABLES
  updating,   \* Machines with an update that is not complete
  want,       \* want[m]: the BootstrapConfig m is to have
  node        \* node[m]: live machine config of m's node

SameIdentity(old, new) == \A f \in IdentityFields : new[f] = old[f]

Init ==
  /\ updating = {}
  /\ want \in [Machines -> Bootstraps]
  /\ node \in [Machines -> Config]
  /\ \A m \in Machines : Converged(node[m], want[m])

Begin(m) ==
  /\ m \notin updating
  /\ updating' = updating \cup {m}
  /\ \E b \in Bootstraps : want' = [want EXCEPT ![m] = b]
  /\ UNCHANGED node

Reconfigure(m) ==
  /\ m \in updating
  /\ \E new \in Config :
       /\ SameIdentity(node[m], new)
       /\ Converged(new, want[m])
       /\ node' = [node EXCEPT ![m] = new]
  /\ UNCHANGED <<updating, want>>

Complete(m) ==
  /\ m \in updating
  /\ Converged(node[m], want[m])
  /\ updating' = updating \ {m}
  /\ UNCHANGED <<want, node>>

Next == \E m \in Machines : Begin(m) \/ Reconfigure(m) \/ Complete(m)

Spec == Init /\ [][Next]_<<updating, want, node>>
=============================================================================
