--------------------------- MODULE CanUpdateClaims ---------------------------
(***************************************************************************)
(* What the CanUpdateMachine and CanUpdateMachineSet hooks claim: JSON     *)
(* patches to the current objects of a request, one for each of the        *)
(* Machine (or template), the BootstrapConfig and the infrastructure       *)
(* object.  A JSON object is a function from the keys it has to values.    *)
(***************************************************************************)
CONSTANTS
  OtherFields,   \* fields of a Machine spec besides the two that are claimed
  Values,        \* what a field or a raw object's key may hold
  Unset,         \* the Go zero value of a field, left out of JSON (omitempty)
  Empty,         \* raw bytes of length 0
  NotJSON,       \* raw bytes that are not a JSON object
  Refused        \* an error; as an answer, ResponseStatusFailure

ASSUME ClaimsAssumption ==
  /\ OtherFields \cap {"version", "failureDomain"} = {}
  /\ Unset \notin Values

Claimed    == {"version", "failureDomain"}
SpecFields == Claimed \cup OtherFields

MachineSpec == [SpecFields -> Values \cup {Unset}]

\* The raw BootstrapConfig and infrastructure objects (and templates): the
\* spec, which may be missing, and the rest, which is metadata and status.
RawObject == [{"rest"} -> Values] \cup [{"rest", "spec"} -> Values]
Raw       == RawObject \cup {Empty, NotJSON}

ASSUME RawAssumption == Empty # NotJSON /\ {Empty, NotJSON} \cap RawObject = {}

\* The objects of a request for a Machine, and for a MachineSet.
MachineObjects == [machine : MachineSpec, bootstrap : Raw, infra : Raw]
SetObjects     == [template : MachineSpec, bootstrapTemplate : Raw,
                   infraTemplate : Raw]

-----------------------------------------------------------------------------
\* json.Marshal of a Machine spec.
Marshal(s) == [f \in {g \in SpecFields : s[g] # Unset} |-> s[f]]

\* A bug: fields that are gone from the modified object are left alone.
AddOnlyPatch(o, n) ==
  [set    |-> [k \in {j \in DOMAIN n : j \notin DOMAIN o \/ n[j] # o[j]} |-> n[k]],
   remove |-> {}]

\* jsonpatch.CreatePatch: what turns the object o into n (RFC 6902), with add
\* and replace taken together.
CreateJSONPatch(o, n) ==
  [set    |-> [k \in {j \in DOMAIN n : j \notin DOMAIN o \/ n[j] # o[j]} |-> n[k]],
   remove |-> DOMAIN o \ DOMAIN n]

NoChange == [set |-> [k \in {} |-> k], remove |-> {}]

\* What a receiver of the patch makes of the object o.
ApplyJSONPatch(o, p) ==
  [k \in (DOMAIN o \ p.remove) \cup DOMAIN p.set |->
     IF k \in DOMAIN p.set THEN p.set[k] ELSE o[k]]

-----------------------------------------------------------------------------
\* A bug: the whole Machine spec is claimed.
ClaimWholeSpec(current, desired) == desired

\* The current Machine spec with the claimed fields of the desired one.
CanUpdateTalosMachineSpec(current, desired) ==
  [f \in SpecFields |-> IF f \in Claimed THEN desired[f] ELSE current[f]]

\* A raw object with the whole spec of the desired one, if it has a spec.
WithDesiredSpec(current, desired) ==
  [k \in DOMAIN current \cup (DOMAIN desired \cap {"spec"}) |->
     IF k = "spec" /\ "spec" \in DOMAIN desired THEN desired[k] ELSE current[k]]

\* A bug: an object without a spec is an error.
NoSpecRefused(current, desired) ==
  CASE Empty \in {current, desired} -> NoChange
    [] Empty \notin {current, desired} /\
       (\/ NotJSON \in {current, desired}
        \/ "spec" \notin DOMAIN desired) -> Refused
    [] OTHER -> CreateJSONPatch(current, WithDesiredSpec(current, desired))

CreateBootstrapConfigPatch(current, desired) ==
  CASE Empty \in {current, desired} -> NoChange
    [] Empty \notin {current, desired} /\ NotJSON \in {current, desired} -> Refused
    [] OTHER -> CreateJSONPatch(current, WithDesiredSpec(current, desired))

CreateInfraMachinePatch(current, desired) ==
  CASE Empty \in {current, desired} -> NoChange
    [] Empty \notin {current, desired} /\ NotJSON \in {current, desired} -> Refused
    [] OTHER -> CreateJSONPatch(current, WithDesiredSpec(current, desired))

-----------------------------------------------------------------------------
\* A bug: an error does not stop the hook.
AnswerAnyway(patches) == patches

\* The hook's answer: its patches, or a failure if one of them has an error.
Answer(patches) ==
  IF \E part \in DOMAIN patches : patches[part] = Refused
  THEN Refused ELSE patches

DoCanUpdateMachine(current, desired) ==
  Answer([machine   |-> CreateJSONPatch(Marshal(current.machine),
                          Marshal(CanUpdateTalosMachineSpec(current.machine,
                                                            desired.machine))),
          bootstrap |-> CreateBootstrapConfigPatch(current.bootstrap,
                                                   desired.bootstrap),
          infra     |-> CreateInfraMachinePatch(current.infra, desired.infra)])

\* A bug: the infrastructure template is not claimed.
SetWithoutInfra(current, desired) ==
  Answer([template  |-> CreateJSONPatch(Marshal(current.template),
                          Marshal(CanUpdateTalosMachineSpec(current.template,
                                                            desired.template))),
          bootstrapTemplate |->
            CreateBootstrapConfigPatch(current.bootstrapTemplate,
                                       desired.bootstrapTemplate),
          infraTemplate |-> NoChange])

DoCanUpdateMachineSet(current, desired) ==
  Answer([template  |-> CreateJSONPatch(Marshal(current.template),
                          Marshal(CanUpdateTalosMachineSpec(current.template,
                                                            desired.template))),
          bootstrapTemplate |->
            CreateBootstrapConfigPatch(current.bootstrapTemplate,
                                       desired.bootstrapTemplate),
          infraTemplate |->
            CreateInfraMachinePatch(current.infraTemplate,
                                    desired.infraTemplate)])
=============================================================================
