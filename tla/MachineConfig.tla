---------------------------- MODULE MachineConfig ----------------------------
(***************************************************************************)
(* The data the in-place update handlers work on: Talos machine configs,   *)
(* the strategic merge patches between them, and the BootstrapConfig       *)
(* objects that Cluster API (CAPI) sends with every hook call.             *)
(*                                                                         *)
(* A machine config is a function from fields to values.  Fields are of    *)
(* two kinds: template fields, which a BootstrapConfig sets, and identity  *)
(* fields (hostname, VLAN, MAC, IPv6), which only the live node has.       *)
(***************************************************************************)
CONSTANTS
  TemplateFields,   \* fields a BootstrapConfig template may set
  IdentityFields,   \* per-node fields injected at Day 0
  RebootFields,     \* template fields whose change takes a reboot
  Values,           \* what a field may hold ("unset" is one of them)
  None,             \* a part that is absent
  Broken            \* a part that is present and cannot be parsed

ASSUME ConfigAssumption ==
  /\ TemplateFields \cap IdentityFields = {}
  /\ RebootFields \subseteq TemplateFields
  /\ None # Broken

Fields   == TemplateFields \cup IdentityFields
Config   == [Fields -> Values]
Template == [TemplateFields -> Values]
Patch    == UNION {[S -> Values] : S \in SUBSET TemplateFields}

(***************************************************************************)
(* A BootstrapConfig as the handlers see it.                               *)
(*   json      - the raw bytes unmarshal as JSON                           *)
(*   data      - the full machine config of spec.talosConfig, spec.data,   *)
(*               spec.machineConfig or an inline spec                      *)
(*   strategic - the patches of spec.strategicPatches (CABPT), taken       *)
(*               together; the empty patch when there is none              *)
(***************************************************************************)
BootstrapConfig ==
  {b \in [json      : BOOLEAN,
          data      : Template \cup {None, Broken},
          strategic : Patch \cup {Broken}] :
     ~b.json => (b.data = None /\ b.strategic = Broken)}

\* extractBootstrapData finds a config and configloader accepts it.
Extractable(b) == b.data \notin {None, Broken}

\* A bug: the diff undoes the change.
DiffBack(c, d) == [f \in {g \in TemplateFields : c[g] # d[g]} |-> c[f]]

\* A bug: the diff leaves out what takes a reboot.
DiffLive(c, d) ==
  [f \in {g \in TemplateFields \ RebootFields : c[g] # d[g]} |-> d[f]]

\* configdiff.Patch: the template fields that change, with their new values.
Diff(c, d) == [f \in {g \in TemplateFields : c[g] # d[g]} |-> d[f]]

\* A bug: the patches are taken for the whole new config, and every other
\* field gets some value that the live config does not have.
PatchedOverBlank(live, p) ==
  [f \in Fields |-> IF f \in DOMAIN p THEN p[f]
                    ELSE CHOOSE v \in Values : v # live[f]]

\* configpatcher.Apply: the live config with the patched fields overridden.
Patched(live, p) == [f \in Fields |-> IF f \in DOMAIN p THEN p[f] ELSE live[f]]

\* The fields a BootstrapConfig asks of its node.
Target(b) == IF Extractable(b) THEN b.data ELSE b.strategic

Usable(b) == b.json /\ b.data # Broken /\ b.strategic # Broken

\* The node's config is what the BootstrapConfig asks for.
Converged(live, b) ==
  /\ Usable(b)
  /\ \A f \in DOMAIN Target(b) : live[f] = Target(b)[f]

NeedsReboot(old, new) == \E f \in RebootFields : old[f] # new[f]
=============================================================================
