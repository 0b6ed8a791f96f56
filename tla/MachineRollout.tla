--------------------------- MODULE MachineRollout ----------------------------
(***************************************************************************)
(* How a change to a Machine is rolled out: CAPI asks the extension which  *)
(* part of the change it can make in place, and makes it in place if that  *)
(* is all of it; otherwise it replaces the node.  A control plane Machine  *)
(* is asked about with CanUpdateMachine, a worker, by way of its           *)
(* MachineSet, with CanUpdateMachineSet.                                   *)
(*                                                                         *)
(* UpdateMachine is one step here for each way in which a call that CAPI   *)
(* repeats until it succeeds can turn out: config applied, success with    *)
(* nothing applied, a BootstrapConfig it cannot read, or anything that     *)
(* another attempt may get over.  InPlaceUpdate models it step by step.    *)
(* No update here finds what an earlier one has left in the extension, and *)
(* every answer of a hook arrives: InPlaceUpdate does without either.      *)
(***************************************************************************)
EXTENDS CanUpdateClaims, Naturals

CONSTANTS
  Machines,       \* CAPI Machines
  ControlPlane,   \* those that belong to the control plane
  Objects,        \* the objects a Machine may be given
  FullSpecs,      \* BootstrapConfig specs with a full machine config
  PatchSpecs,     \* those with strategicPatches, all of which load
  BadSpecs,       \* those whose strategicPatches are no array or do not load
  Mixed,          \* the config of a node that is of no one BootstrapConfig
  MaxStaleAsks    \* bound on changes that land while a rollout is under way

ASSUME RolloutAssumption ==
  /\ ControlPlane \subseteq Machines
  /\ Objects \subseteq MachineObjects
  /\ FullSpecs \subseteq Values /\ PatchSpecs \subseteq Values
  /\ BadSpecs \subseteq Values \ PatchSpecs
  /\ Mixed \notin Raw
  /\ MaxStaleAsks \in Nat

VARIABLES
  current,   \* current[m]: the objects of m, as CAPI has rolled them out
  desired,   \* desired[m]: the objects m is to have
  target,    \* target[m]: the desired objects that the rollout is about
  phase,     \* phase[m]: where m is in its rollout
  answer,    \* answer[m]: the hook's answer about target[m]
  node,      \* node[m]: the objects m's node was provisioned from, and the
             \* BootstrapConfig that it has been configured with since
  stale      \* changes that landed during a rollout so far

vars == <<current, desired, target, phase, answer, node, stale>>

\* What an answer is: patches by part, or Refused.
JSONPatch ==
  [set    : UNION {[S -> Values] : S \in SUBSET (SpecFields \cup {"rest", "spec"})},
   remove : SUBSET (SpecFields \cup {"rest", "spec"})]

PatchesByPart ==
  [machine : JSONPatch, bootstrap : JSONPatch, infra : JSONPatch]
  \cup [template : JSONPatch, bootstrapTemplate : JSONPatch,
        infraTemplate : JSONPatch]

ASSUME RefusedAssumption == Refused \notin PatchesByPart

Answers == {Refused} \cup PatchesByPart

\* In an in-place update CAPI calls UpdateMachine until it succeeds: it is to be
\* called, or has failed and may succeed next time, or has failed and will again.
Updating == {"inPlace", "interrupted", "unreadable"}

Phases == {"idle", "asking", "deciding", "replace"} \cup Updating

NodeObjects == [machine : MachineSpec, bootstrap : Raw \cup {Mixed}, infra : Raw]

Parses(o) == NotJSON \notin {o.bootstrap, o.infra}

Init ==
  /\ current \in [Machines -> {o \in Objects : Parses(o)}]
  /\ desired = current
  /\ target = current
  /\ phase = [m \in Machines |-> "idle"]
  /\ answer = [m \in Machines |-> Refused]
  /\ node = current
  /\ stale = 0

-----------------------------------------------------------------------------
\* The MachineSet objects that a worker's Machine is stamped from.
SetOf(o) == [template |-> o.machine, bootstrapTemplate |-> o.bootstrap,
             infraTemplate |-> o.infra]

Hook(m, cur, des) ==
  IF m \in ControlPlane THEN DoCanUpdateMachine(cur, des)
  ELSE DoCanUpdateMachineSet(SetOf(cur), SetOf(des))

\* A patch applied to a raw object; a part without bytes stays as it is.
ApplyToRaw(raw, p) == IF raw \in RawObject THEN ApplyJSONPatch(raw, p) ELSE raw

\* The patched objects are the desired ones: the answer covers the change.
Covers(a, cur, des) ==
  /\ ApplyJSONPatch(Marshal(cur.machine),
       IF "machine" \in DOMAIN a THEN a.machine ELSE a.template)
     = Marshal(des.machine)
  /\ ApplyToRaw(cur.bootstrap,
       IF "bootstrap" \in DOMAIN a THEN a.bootstrap ELSE a.bootstrapTemplate)
     = des.bootstrap
  /\ ApplyToRaw(cur.infra,
       IF "infra" \in DOMAIN a THEN a.infra ELSE a.infraTemplate)
     = des.infra

-----------------------------------------------------------------------------
\* Someone edits the desired state, before or during a rollout.
Change(m, o) ==
  /\ o # desired[m]
  /\ desired' = [desired EXCEPT ![m] = o]
  /\ stale' = IF phase[m] = "idle" THEN stale ELSE stale + 1
  /\ stale' <= MaxStaleAsks
  /\ UNCHANGED <<current, target, phase, answer, node>>

\* CAPI calls the hook for its kind of Machine, about the state it has read.
Ask(m) ==
  /\ phase[m] = "idle" /\ desired[m] # current[m]
  /\ target' = [target EXCEPT ![m] = desired[m]]
  /\ phase' = [phase EXCEPT ![m] = "asking"]
  /\ UNCHANGED <<current, desired, answer, node, stale>>

HookAnswers(m) ==
  /\ phase[m] = "asking"
  /\ answer' = [answer EXCEPT ![m] = Hook(m, current[m], target[m])]
  /\ phase' = [phase EXCEPT ![m] = "deciding"]
  /\ UNCHANGED <<current, desired, target, node, stale>>

\* A failed hook call: CAPI asks again, about what is desired then.
AskAgain(m) ==
  /\ phase[m] = "deciding" /\ answer[m] = Refused
  /\ phase' = [phase EXCEPT ![m] = "idle"]
  /\ UNCHANGED <<current, desired, target, answer, node, stale>>

Decide(m) ==
  /\ phase[m] = "deciding" /\ answer[m] # Refused
  /\ phase' = [phase EXCEPT ![m] =
       IF Covers(answer[m], current[m], target[m]) THEN "inPlace" ELSE "replace"]
  /\ UNCHANGED <<current, desired, target, answer, node, stale>>

RolledOut(m) ==
  /\ current' = [current EXCEPT ![m] = target[m]]
  /\ phase' = [phase EXCEPT ![m] = "idle"]
  /\ answer' = [answer EXCEPT ![m] = Refused]
  /\ UNCHANGED <<desired, target, stale>>

-----------------------------------------------------------------------------
(***************************************************************************)
(* DoUpdateMachine, which reads nothing of a request but the               *)
(* BootstrapConfig.                                                        *)
(***************************************************************************)
HasSpec(raw, specs) ==
  raw \in RawObject /\ "spec" \in DOMAIN raw /\ raw["spec"] \in specs

\* Paths A and B: the difference of two full configs, which CanUpdateMachine
\* has stored and persisted (and CanUpdateMachineSet has not).  It gives the
\* desired config to a node that has the one before.
DiffApplied(m) ==
  /\ m \in ControlPlane
  /\ HasSpec(current[m].bootstrap, FullSpecs)
  /\ HasSpec(target[m].bootstrap, FullSpecs)
  /\ \E b \in {target[m].bootstrap, Mixed} :
       /\ node[m].bootstrap \in {current[m].bootstrap, target[m].bootstrap}
            => b = target[m].bootstrap
       /\ node' = [node EXCEPT ![m].bootstrap = b]

\* Path C, without stored patches: the strategic patches of the request, which
\* are all it asks for unless it has a full config as well.
StrategicApplied(m) ==
  /\ HasSpec(target[m].bootstrap, PatchSpecs)
  /\ \E b \in {target[m].bootstrap, Mixed} :
       /\ ~HasSpec(target[m].bootstrap, FullSpecs) => b = target[m].bootstrap
       /\ node' = [node EXCEPT ![m].bootstrap = b]

Applied(m) == DiffApplied(m) \/ StrategicApplied(m)

UpdateApplies(m) ==
  /\ phase[m] = "inPlace"
  /\ Applied(m)
  /\ RolledOut(m)

\* Path C finds no strategic patches, and that counts as applied.
NothingToApply(raw) ==
  raw = Empty \/ HasSpec(raw, Values \ (PatchSpecs \cup BadSpecs))

UpdateSkips(m) ==
  /\ phase[m] = "inPlace"
  /\ NothingToApply(target[m].bootstrap)
  /\ RolledOut(m)
  /\ UNCHANGED node

\* No address, no connection, a refused config, a lost answer, or a timeout: the
\* node may have taken the config nonetheless.
Interrupted(m) ==
  /\ phase[m] = "inPlace"
  /\ phase' = [phase EXCEPT ![m] = "interrupted"]
  /\ Applied(m) \/ UNCHANGED node
  /\ UNCHANGED <<current, desired, target, answer, stale>>

\* Path C cannot get the strategic patches out of the BootstrapConfig: it is not
\* JSON, it has no spec, or a bad one.
CannotRead(raw) ==
  raw # Empty /\ ~HasSpec(raw, Values \ BadSpecs)

Unreadable(m) ==
  /\ phase[m] = "inPlace"
  /\ CannotRead(target[m].bootstrap)
  /\ phase' = [phase EXCEPT ![m] = "unreadable"]
  /\ UNCHANGED <<current, desired, target, answer, node, stale>>

\* CAPI calls UpdateMachine again.
CallAgain(m) ==
  /\ phase[m] \in {"interrupted", "unreadable"}
  /\ phase' = [phase EXCEPT ![m] = "inPlace"]
  /\ UNCHANGED <<current, desired, target, answer, node, stale>>

-----------------------------------------------------------------------------
\* CAPI deletes the Machine and provisions a node from the desired objects.
Replace(m) ==
  /\ phase[m] = "replace"
  /\ node' = [node EXCEPT ![m] = target[m]]
  /\ RolledOut(m)

Step(m) ==
  \/ Ask(m) \/ HookAnswers(m) \/ AskAgain(m) \/ Decide(m)
  \/ UpdateApplies(m) \/ UpdateSkips(m) \/ Interrupted(m) \/ Unreadable(m)
  \/ CallAgain(m) \/ Replace(m)

Next == \E m \in Machines : Step(m) \/ \E o \in Objects : Change(m, o)

Spec == Init /\ [][Next]_vars

\* CAPI takes the next step of every rollout; nobody has to edit anything.
FairSpec == Spec /\ \A m \in Machines : WF_vars(Step(m))

-----------------------------------------------------------------------------
(***************************************************************************)
(* Properties.                                                             *)
(***************************************************************************)
TypeOK ==
  /\ current \in [Machines -> Objects]
  /\ desired \in [Machines -> Objects]
  /\ target \in [Machines -> Objects]
  /\ phase \in [Machines -> Phases]
  /\ answer \in [Machines -> Answers]
  /\ node \in [Machines -> NodeObjects]
  /\ stale \in 0 .. MaxStaleAsks

\* The reference for the hooks, without patches: a raw object may change in its
\* spec only, and not lose it.
Claimable(cur, des) ==
  \/ cur = des
  \/ /\ cur \in RawObject /\ des \in RawObject
     /\ des["rest"] = cur["rest"]
     /\ "spec" \in DOMAIN des

InPlaceable(cur, des) ==
  /\ \A f \in OtherFields : des.machine[f] = cur.machine[f]
  /\ Claimable(cur.bootstrap, des.bootstrap)
  /\ Claimable(cur.infra, des.infra)

\* A node is replaced exactly when the change goes beyond what the extension
\* claims, whichever of the two hooks was asked, and also when a field or a
\* spec appears or disappears.
DecisionIsExact ==
  \A m \in Machines :
    /\ phase[m] \in Updating => InPlaceable(current[m], target[m])
    /\ phase[m] = "replace" => ~InPlaceable(current[m], target[m])

\* In what a running node may differ from the objects that its Machine has been
\* rolled out to.  It has every field that nobody claims, and an infrastructure
\* object that differs in the spec alone.  Outside an update it also has the
\* strategic patches of its BootstrapConfig, if that is what it consists of.  It
\* may be behind in the rest: version, failure domain and infrastructure spec,
\* which UpdateMachine does not look at, and a full machine config, which it
\* skips when it finds no stored patches.
NodeFollows ==
  \A m \in Machines :
    /\ \A f \in OtherFields : node[m].machine[f] = current[m].machine[f]
    /\ node[m].infra # current[m].infra =>
         Claimable(node[m].infra, current[m].infra)
    /\ (phase[m] \notin Updating
         /\ HasSpec(current[m].bootstrap, PatchSpecs \ FullSpecs))
         => node[m].bootstrap = current[m].bootstrap

\* CanUpdateMachineSet is CanUpdateMachine for the templates that a worker is
\* made from: the two fail together and decide alike about the same change.
HooksAgree ==
  \A m \in Machines :
    phase[m] = "asking" =>
      LET one == DoCanUpdateMachine(current[m], target[m])
          set == DoCanUpdateMachineSet(SetOf(current[m]), SetOf(target[m]))
      IN  /\ one = Refused <=> set = Refused
          /\ one # Refused =>
               (Covers(one, current[m], target[m])
                  <=> Covers(set, current[m], target[m]))

\* UpdateMachine fails on every attempt, whatever is asked for by now.
StuckOn(m) == phase[m] \in Updating /\ CannotRead(target[m].bootstrap)

\* Once the desired state of a Machine stays as it is, the hooks can parse what
\* they are sent, and attempts to update in place are not interrupted for ever,
\* the Machine gets to it: unless it is in an in-place update to a BootstrapConfig
\* that the hooks claimed and UpdateMachine cannot read.
ChangesLand ==
  \A m \in Machines :
    (/\ <>[][desired'[m] = desired[m]]_vars
     /\ <>[](Parses(current[m]) /\ Parses(desired[m]))
     /\ <>[](phase[m] # "interrupted"))
      => <>[](current[m] = desired[m]) \/ <>[]StuckOn(m)

-----------------------------------------------------------------------------
(***************************************************************************)
(* What a comment of the repository says, and the code is not.             *)
(***************************************************************************)
\* "The actual UpdateMachine handler will [...] report failure if a change truly
\* requires recreation" (canupdatemachine.go): after a successful rollout the
\* node is where, and on the infrastructure that, the Machine says.
RecreationIsReported ==
  \A m \in Machines : phase[m] = "idle" =>
    /\ node[m].infra = current[m].infra
    /\ node[m].machine["failureDomain"] = current[m].machine["failureDomain"]
=============================================================================
