-------------------------- MODULE MCMachineRollout ---------------------------
(***************************************************************************)
(* Instances of MachineRollout for TLC: one field of the Machine spec that *)
(* is claimed and set, one that is claimed and may be unset, one that is   *)
(* not claimed; BootstrapConfigs of every kind, with and without a spec,   *)
(* empty and not JSON.                                                     *)
(***************************************************************************)
EXTENDS MachineRollout

CONSTANTS m1, full1, full2, patches1, patches2, bad

MCOtherFields == {"readinessGates"}
MCValues      == {"a", "b", full1, full2, patches1, patches2, bad}

\* The version, failure domain and readiness gates of a Machine.
Machine(v, fd, rg) ==
  [f \in SpecFields |->
     CASE f = "version" -> v [] f = "failureDomain" -> fd [] OTHER -> rg]

NoSpec     == [k \in {"rest"} |-> "a"]
With(v)    == [k \in {"rest", "spec"} |-> IF k = "spec" THEN v ELSE "a"]
OtherRest  == [With(patches1) EXCEPT !["rest"] = "b"]

Sent(machines, bootstraps, infras) ==
  [machine : machines, bootstrap : bootstraps, infra : infras]

AllKinds ==
  Sent({Machine("a", Unset, "a"), Machine("b", "a", "a")},
       {NoSpec, Empty, NotJSON, OtherRest, With("a"), With(bad)}
         \cup {With(v) : v \in {full1, full2, patches1, patches2}},
       {With("a")})
  \cup Sent({Machine("a", "a", "b")}, {With(patches1)}, {Empty, With("a"), With("b")})
=============================================================================
