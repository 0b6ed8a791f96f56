------------------------ MODULE MachineRollout_proofs ------------------------
(***************************************************************************)
(* For any Machines, fields, values and objects: a patch turns an object   *)
(* into the one it was computed for, both hooks cover exactly the changes  *)
(* that InPlaceable describes without patches, and so a rollout replaces a *)
(* node when it must and only then.                                        *)
(***************************************************************************)
EXTENDS MachineRollout, TLAPS

IsObject(o) == o = [k \in DOMAIN o |-> o[k]]

\* A receiver that applies the patch from o to n gets n.
LEMMA RoundTrip ==
  ASSUME NEW o, NEW n, IsObject(n)
  PROVE  ApplyJSONPatch(o, CreateJSONPatch(o, n)) = n
<1> DEFINE p == CreateJSONPatch(o, n)
<1> DEFINE D == (DOMAIN o \ p.remove) \cup DOMAIN p.set
<1>1. /\ p.remove = DOMAIN o \ DOMAIN n
      /\ DOMAIN p.set = {j \in DOMAIN n : j \notin DOMAIN o \/ n[j] # o[j]}
      /\ \A k \in DOMAIN p.set : p.set[k] = n[k]
  BY DEF CreateJSONPatch
<1>2. D = DOMAIN n
  BY <1>1
<1>3. \A k \in DOMAIN n : (IF k \in DOMAIN p.set THEN p.set[k] ELSE o[k]) = n[k]
  BY <1>1
<1>4. ApplyJSONPatch(o, p) = [k \in D |-> IF k \in DOMAIN p.set THEN p.set[k] ELSE o[k]]
  BY DEF ApplyJSONPatch
<1> HIDE DEF p, D
<1>5. [k \in D |-> IF k \in DOMAIN p.set THEN p.set[k] ELSE o[k]]
      = [k \in DOMAIN n |-> n[k]]
  BY <1>2, <1>3
<1> QED BY <1>4, <1>5 DEF IsObject, p

\* Machine specs with the same JSON are the same.
LEMMA MarshalIsInjective ==
  ASSUME NEW s \in MachineSpec, NEW t \in MachineSpec, Marshal(s) = Marshal(t)
  PROVE  \A f \in SpecFields : s[f] = t[f]
<1> TAKE f \in SpecFields
<1>1. f \in DOMAIN Marshal(s) <=> s[f] # Unset
  BY DEF Marshal
<1>2. f \in DOMAIN Marshal(t) <=> t[f] # Unset
  BY DEF Marshal
<1>3. s[f] # Unset => Marshal(s)[f] = s[f]
  BY DEF Marshal
<1>4. t[f] # Unset => Marshal(t)[f] = t[f]
  BY DEF Marshal
<1> QED BY <1>1, <1>2, <1>3, <1>4

LEMMA ClaimedSpec ==
  ASSUME NEW s \in MachineSpec, NEW t \in MachineSpec
  PROVE  /\ CanUpdateTalosMachineSpec(s, t) \in MachineSpec
         /\ Marshal(CanUpdateTalosMachineSpec(s, t)) = Marshal(t)
              <=> \A f \in OtherFields : t[f] = s[f]
<1> DEFINE u == CanUpdateTalosMachineSpec(s, t)
<1>1. u \in MachineSpec
  BY DEF CanUpdateTalosMachineSpec, MachineSpec
<1>2. ASSUME Marshal(u) = Marshal(t)
      PROVE  \A f \in OtherFields : t[f] = s[f]
  <2>1. \A f \in SpecFields : u[f] = t[f]
    BY <1>1, <1>2, MarshalIsInjective
  <2> QED BY <2>1, ClaimsAssumption DEF CanUpdateTalosMachineSpec, SpecFields, Claimed
<1>3. ASSUME \A f \in OtherFields : t[f] = s[f]
      PROVE  Marshal(u) = Marshal(t)
  <2>1. u = t
    BY <1>3 DEF CanUpdateTalosMachineSpec, MachineSpec, SpecFields
  <2> QED BY <2>1
<1> QED BY <1>1, <1>2, <1>3

\* The Machine's patch leads to the desired spec iff only claimed fields change.
LEMMA SpecCovered ==
  ASSUME NEW s \in MachineSpec, NEW t \in MachineSpec
  PROVE  ApplyJSONPatch(Marshal(s),
           CreateJSONPatch(Marshal(s), Marshal(CanUpdateTalosMachineSpec(s, t))))
           = Marshal(t)
           <=> \A f \in OtherFields : t[f] = s[f]
<1> DEFINE n == Marshal(CanUpdateTalosMachineSpec(s, t))
<1>1. IsObject(n)
  BY DEF IsObject, Marshal
<1>2. ApplyJSONPatch(Marshal(s), CreateJSONPatch(Marshal(s), n)) = n
  BY <1>1, RoundTrip
<1> QED BY <1>2, ClaimedSpec

\* A raw object's patch leads to the desired one iff the change is claimable.
LEMMA RawCovered ==
  ASSUME NEW c \in Raw, NEW d \in Raw,
         CreateBootstrapConfigPatch(c, d) # Refused
  PROVE  ApplyToRaw(c, CreateBootstrapConfigPatch(c, d)) = d <=> Claimable(c, d)
<1> DEFINE p == CreateBootstrapConfigPatch(c, d)
<1>1. CASE Empty \in {c, d}
  <2>1. p = NoChange
    BY <1>1 DEF CreateBootstrapConfigPatch
  <2>2. ApplyToRaw(c, NoChange) = c
    <3>1. CASE c \in RawObject
      <4>1. c = [k \in DOMAIN c |-> c[k]]
        BY <3>1 DEF RawObject
      <4>2. ApplyJSONPatch(c, NoChange) = [k \in DOMAIN c |-> c[k]]
        BY DEF ApplyJSONPatch, NoChange
      <4> QED BY <3>1, <4>1, <4>2 DEF ApplyToRaw
    <3> QED BY <3>1 DEF ApplyToRaw
  <2>3. ~(c \in RawObject /\ d \in RawObject)
    BY <1>1, RawAssumption
  <2> QED BY <2>1, <2>2, <2>3 DEF Claimable
<1>2. CASE Empty \notin {c, d} /\ NotJSON \in {c, d}
  BY <1>2 DEF CreateBootstrapConfigPatch
<1>3. CASE Empty \notin {c, d} /\ NotJSON \notin {c, d}
  <2> DEFINE n == WithDesiredSpec(c, d)
  <2>1. c \in RawObject /\ d \in RawObject
    BY <1>3 DEF Raw
  <2>2. p = CreateJSONPatch(c, n)
    BY <1>3 DEF CreateBootstrapConfigPatch
  <2>3. ApplyToRaw(c, p) = n
    <3>1. IsObject(n)
      BY DEF IsObject, WithDesiredSpec
    <3> QED BY <2>1, <2>2, <3>1, RoundTrip DEF ApplyToRaw
  <2>4. CASE "spec" \in DOMAIN d
    <3>1. DOMAIN d = {"rest", "spec"} /\ "rest" \in DOMAIN c
          /\ DOMAIN c \subseteq {"rest", "spec"}
      BY <2>1, <2>4 DEF RawObject
    <3>2. d = [k \in DOMAIN d |-> d[k]]
      BY <2>1 DEF RawObject
    <3>3. /\ n = [k \in {"rest", "spec"} |-> IF k = "spec" THEN d[k] ELSE c[k]]
      BY <3>1 DEF WithDesiredSpec
    <3>4. n = d <=> d["rest"] = c["rest"]
      BY <3>1, <3>2, <3>3
    <3> QED BY <2>1, <2>3, <2>4, <3>4 DEF Claimable
  <2>5. CASE "spec" \notin DOMAIN d
    <3>1. c = [k \in DOMAIN c |-> c[k]]
      BY <2>1 DEF RawObject
    <3>2. n = [k \in DOMAIN c |-> c[k]]
      <4>1. DOMAIN d \cap {"spec"} = {}
        BY <2>5
      <4> QED BY <2>5, <4>1 DEF WithDesiredSpec
    <3> QED BY <2>3, <2>5, <3>1, <3>2 DEF Claimable
  <2> QED BY <2>4, <2>5
<1> QED BY <1>1, <1>2, <1>3

\* The two patches of raw objects are computed alike.
LEMMA InfraIsAlike ==
  \A c, d : CreateInfraMachinePatch(c, d) = CreateBootstrapConfigPatch(c, d)
BY DEF CreateInfraMachinePatch, CreateBootstrapConfigPatch

\* An answer that is no failure covers exactly the changes that can be made in
\* place, from either hook.
LEMMA AnswersExact ==
  ASSUME NEW cur \in MachineObjects, NEW des \in MachineObjects, NEW a, a # Refused,
         \/ a = DoCanUpdateMachine(cur, des)
         \/ a = DoCanUpdateMachineSet(SetOf(cur), SetOf(des))
  PROVE  Covers(a, cur, des) <=> InPlaceable(cur, des)
<1> DEFINE s == CreateJSONPatch(Marshal(cur.machine),
                  Marshal(CanUpdateTalosMachineSpec(cur.machine, des.machine)))
           b == CreateBootstrapConfigPatch(cur.bootstrap, des.bootstrap)
           i == CreateBootstrapConfigPatch(cur.infra, des.infra)
<1>1. /\ cur.machine \in MachineSpec /\ des.machine \in MachineSpec
      /\ cur.bootstrap \in Raw /\ des.bootstrap \in Raw
      /\ cur.infra \in Raw /\ des.infra \in Raw
  BY DEF MachineObjects
<1>2. b # Refused /\ i # Refused
      /\ (Covers(a, cur, des) <=>
           /\ ApplyJSONPatch(Marshal(cur.machine), s) = Marshal(des.machine)
           /\ ApplyToRaw(cur.bootstrap, b) = des.bootstrap
           /\ ApplyToRaw(cur.infra, i) = des.infra)
  <2>1. CASE a = DoCanUpdateMachine(cur, des)
    <3> DEFINE parts == [machine |-> s, bootstrap |-> b, infra |-> i]
    <3>1. a = Answer(parts)
      BY <2>1, InfraIsAlike DEF DoCanUpdateMachine
    <3> HIDE DEF s, b, i
    <3>2. DOMAIN parts = {"machine", "bootstrap", "infra"}
          /\ parts["machine"] = s /\ parts["bootstrap"] = b /\ parts["infra"] = i
      OBVIOUS
    <3>3. a = parts /\ s # Refused /\ b # Refused /\ i # Refused
      BY <3>1, <3>2 DEF Answer
    <3> QED BY <3>2, <3>3 DEF Covers
  <2>2. CASE a = DoCanUpdateMachineSet(SetOf(cur), SetOf(des))
    <3> DEFINE parts == [template |-> s, bootstrapTemplate |-> b, infraTemplate |-> i]
    <3>1. a = Answer(parts)
      BY <2>2, InfraIsAlike DEF DoCanUpdateMachineSet, SetOf
    <3> HIDE DEF s, b, i
    <3>2. DOMAIN parts = {"template", "bootstrapTemplate", "infraTemplate"}
          /\ parts["template"] = s /\ parts["bootstrapTemplate"] = b
          /\ parts["infraTemplate"] = i
      OBVIOUS
    <3>3. a = parts /\ s # Refused /\ b # Refused /\ i # Refused
      BY <3>1, <3>2 DEF Answer
    <3> QED BY <3>2, <3>3 DEF Covers
  <2> QED BY <2>1, <2>2
<1>3. ApplyJSONPatch(Marshal(cur.machine), s) = Marshal(des.machine)
        <=> \A f \in OtherFields : des.machine[f] = cur.machine[f]
  BY <1>1, SpecCovered
<1>4. ApplyToRaw(cur.bootstrap, b) = des.bootstrap
        <=> Claimable(cur.bootstrap, des.bootstrap)
  BY <1>1, <1>2, RawCovered
<1>5. ApplyToRaw(cur.infra, i) = des.infra <=> Claimable(cur.infra, des.infra)
  BY <1>1, <1>2, RawCovered
<1> QED BY <1>2, <1>3, <1>4, <1>5 DEF InPlaceable

LEMMA HooksExact ==
  ASSUME NEW m \in Machines, NEW cur \in MachineObjects, NEW des \in MachineObjects,
         Hook(m, cur, des) # Refused
  PROVE  Covers(Hook(m, cur, des), cur, des) <=> InPlaceable(cur, des)
BY AnswersExact DEF Hook

-----------------------------------------------------------------------------
(***************************************************************************)
(* The inductive invariant: a pending answer is the hook's about the       *)
(* objects of the rollout, so what is decided from it is exact.            *)
(***************************************************************************)
AnswerIsMeant ==
  \A m \in Machines : phase[m] = "deciding" =>
    answer[m] = Hook(m, current[m], target[m])

RInv == TypeOK /\ AnswerIsMeant /\ DecisionIsExact /\ NodeFollows

\* A patch between objects over known keys is a JSONPatch.
LEMMA PatchType ==
  ASSUME NEW o, NEW n,
         IsObject(n), DOMAIN o \subseteq SpecFields \cup {"rest", "spec"},
         DOMAIN n \subseteq SpecFields \cup {"rest", "spec"},
         \A k \in DOMAIN n : n[k] \in Values
  PROVE  CreateJSONPatch(o, n) \in JSONPatch
<1> DEFINE K == SpecFields \cup {"rest", "spec"}
           S == {j \in DOMAIN n : j \notin DOMAIN o \/ n[j] # o[j]}
<1>1. S \in SUBSET K /\ [k \in S |-> n[k]] \in [S -> Values]
  OBVIOUS
<1>2. [k \in S |-> n[k]] \in UNION {[T -> Values] : T \in SUBSET K}
  BY <1>1
<1>3. DOMAIN o \ DOMAIN n \in SUBSET K
  OBVIOUS
<1> QED BY <1>2, <1>3 DEF CreateJSONPatch, JSONPatch

LEMMA RawPatchType ==
  ASSUME NEW c \in Raw, NEW d \in Raw
  PROVE  CreateBootstrapConfigPatch(c, d) \in JSONPatch \cup {Refused}
<1>1. NoChange \in JSONPatch
  <2>1. [k \in {} |-> k] \in [{} -> Values]
    OBVIOUS
  <2>2. {} \in SUBSET (SpecFields \cup {"rest", "spec"})
    OBVIOUS
  <2> QED BY <2>1, <2>2 DEF NoChange, JSONPatch
<1>2. CASE c \in RawObject /\ d \in RawObject
  <2> DEFINE n == WithDesiredSpec(c, d)
  <2>1. IsObject(n)
    BY DEF IsObject, WithDesiredSpec
  <2>2. /\ DOMAIN c \subseteq {"rest", "spec"} /\ DOMAIN d \subseteq {"rest", "spec"}
        /\ \A k \in DOMAIN c : c[k] \in Values
        /\ \A k \in DOMAIN d : d[k] \in Values
    BY <1>2 DEF RawObject
  <2>3. /\ DOMAIN n \subseteq {"rest", "spec"}
        /\ \A k \in DOMAIN n : n[k] \in Values
    BY <2>2 DEF WithDesiredSpec
  <2>4. CreateJSONPatch(c, n) \in JSONPatch
    BY <2>1, <2>2, <2>3, PatchType
  <2> QED BY <1>2, <2>4, RawAssumption DEF CreateBootstrapConfigPatch
<1>3. CASE ~(c \in RawObject /\ d \in RawObject)
  BY <1>1, <1>3 DEF CreateBootstrapConfigPatch, Raw
<1> QED BY <1>2, <1>3

\* The hooks fail together, and otherwise answer with patches.
LEMMA PatchesOrRefused ==
  ASSUME NEW cur \in MachineObjects, NEW des \in MachineObjects
  PROVE  LET one == DoCanUpdateMachine(cur, des)
             set == DoCanUpdateMachineSet(SetOf(cur), SetOf(des))
         IN  \/ one = Refused /\ set = Refused
             \/ one \in PatchesByPart /\ set \in PatchesByPart
<1> DEFINE n == Marshal(CanUpdateTalosMachineSpec(cur.machine, des.machine))
           s == CreateJSONPatch(Marshal(cur.machine), n)
           b == CreateBootstrapConfigPatch(cur.bootstrap, des.bootstrap)
           i == CreateBootstrapConfigPatch(cur.infra, des.infra)
           one == [machine |-> s, bootstrap |-> b, infra |-> i]
           set == [template |-> s, bootstrapTemplate |-> b, infraTemplate |-> i]
<1>1. /\ cur.machine \in MachineSpec /\ des.machine \in MachineSpec
      /\ cur.bootstrap \in Raw /\ des.bootstrap \in Raw
      /\ cur.infra \in Raw /\ des.infra \in Raw
  BY DEF MachineObjects
<1>2. s \in JSONPatch
  <2>1. IsObject(n) /\ DOMAIN Marshal(cur.machine) \subseteq SpecFields
        /\ DOMAIN n \subseteq SpecFields
    BY DEF IsObject, Marshal
  <2>2. \A k \in DOMAIN n : n[k] \in Values
    BY <1>1, ClaimedSpec DEF Marshal, MachineSpec
  <2> QED BY <2>1, <2>2, PatchType
<1>3. b \in JSONPatch \cup {Refused} /\ i \in JSONPatch \cup {Refused}
  BY <1>1, RawPatchType
<1>4. /\ DoCanUpdateMachine(cur, des) = Answer(one)
      /\ DoCanUpdateMachineSet(SetOf(cur), SetOf(des)) = Answer(set)
  BY InfraIsAlike DEF DoCanUpdateMachine, DoCanUpdateMachineSet, SetOf
<1> HIDE DEF n, s, b, i
<1>5. CASE Refused \in {s, b, i}
  BY <1>4, <1>5 DEF Answer
<1>6. CASE Refused \notin {s, b, i}
  <2>1. one \in PatchesByPart /\ set \in PatchesByPart
    BY <1>2, <1>3, <1>6 DEF PatchesByPart
  <2>2. Answer(one) = one /\ Answer(set) = set
    BY <1>6 DEF Answer
  <2> QED BY <1>4, <2>1, <2>2
<1> QED BY <1>5, <1>6

LEMMA AnswerType ==
  ASSUME NEW m \in Machines, NEW cur \in MachineObjects, NEW des \in MachineObjects
  PROVE  Hook(m, cur, des) \in Answers
BY PatchesOrRefused DEF Hook, Answers

USE RolloutAssumption

\* A chain of claimable changes is one.
LEMMA ClaimableIsTransitive ==
  ASSUME NEW a, NEW b, NEW c, Claimable(a, b), Claimable(b, c)
  PROVE  Claimable(a, c)
BY DEF Claimable

LEMMA InitInv == Init => RInv
<1> SUFFICES ASSUME Init PROVE RInv
  OBVIOUS
<1>1. TypeOK
  BY DEF Init, TypeOK, Answers, Phases, NodeObjects, MachineObjects
<1>2. AnswerIsMeant /\ DecisionIsExact /\ NodeFollows
  BY DEF Init, AnswerIsMeant, DecisionIsExact, NodeFollows, Updating
<1> QED BY <1>1, <1>2 DEF RInv

\* What UpdateMachine may do to a node: change its config, to all that the request
\* asks for if that is strategic patches.
LEMMA AppliedEffect ==
  ASSUME TypeOK, NEW m \in Machines, Applied(m)
  PROVE  /\ node' \in [Machines -> NodeObjects]
         /\ node'[m].machine = node[m].machine /\ node'[m].infra = node[m].infra
         /\ \A x \in Machines \ {m} : node'[x] = node[x]
         /\ HasSpec(target[m].bootstrap, PatchSpecs \ FullSpecs)
              => node'[m].bootstrap = target[m].bootstrap
<1>1. PICK b \in {target[m].bootstrap, Mixed} :
        /\ node' = [node EXCEPT ![m].bootstrap = b]
        /\ HasSpec(target[m].bootstrap, PatchSpecs \ FullSpecs)
             => b = target[m].bootstrap
  BY DEF Applied, DiffApplied, StrategicApplied, HasSpec
<1>2. b \in Raw \cup {Mixed} /\ node \in [Machines -> NodeObjects]
  BY DEF TypeOK, MachineObjects
<1> QED BY <1>1, <1>2 DEF NodeObjects

\* A request that counts as applied with nothing to apply has no patches.
LEMMA NothingHasNoPatches ==
  ASSUME NEW raw, NothingToApply(raw)
  PROVE  ~HasSpec(raw, PatchSpecs \ FullSpecs)
BY RawAssumption DEF NothingToApply, HasSpec

\* The end of an in-place update, whatever it has applied.
LEMMA InPlaceInv ==
  ASSUME RInv, NEW m \in Machines, UpdateApplies(m) \/ UpdateSkips(m)
  PROVE  RInv'
<1> USE DEF RInv, TypeOK
<1>1. RolledOut(m) /\ phase[m] = "inPlace"
  BY DEF UpdateApplies, UpdateSkips
<1>2. /\ node' \in [Machines -> NodeObjects]
      /\ node'[m].machine = node[m].machine /\ node'[m].infra = node[m].infra
      /\ \A x \in Machines \ {m} : node'[x] = node[x]
      /\ HasSpec(target[m].bootstrap, PatchSpecs \ FullSpecs)
           => node'[m].bootstrap = target[m].bootstrap
  BY AppliedEffect, NothingHasNoPatches DEF UpdateApplies, UpdateSkips
<1>3. TypeOK'
  BY <1>1, <1>2 DEF RolledOut, Answers, Phases
<1>4. AnswerIsMeant' /\ DecisionIsExact'
  BY <1>1 DEF RolledOut, AnswerIsMeant, DecisionIsExact, Updating
<1>5. InPlaceable(current[m], target[m])
  BY <1>1 DEF DecisionIsExact, Updating
<1>6. current'[m] = target[m] /\ \A x \in Machines \ {m} : /\ current'[x] = current[x]
                                                           /\ phase'[x] = phase[x]
  BY <1>1 DEF RolledOut
<1>7. \A f \in OtherFields : node'[m].machine[f] = current'[m].machine[f]
  BY <1>2, <1>5, <1>6 DEF NodeFollows, InPlaceable
<1>8. node'[m].infra # current'[m].infra => Claimable(node'[m].infra, current'[m].infra)
  BY <1>2, <1>5, <1>6, ClaimableIsTransitive DEF NodeFollows, InPlaceable
<1>9. NodeFollows'
  <2> SUFFICES ASSUME NEW x \in Machines
               PROVE  /\ \A f \in OtherFields :
                           node'[x].machine[f] = current'[x].machine[f]
                      /\ node'[x].infra # current'[x].infra =>
                           Claimable(node'[x].infra, current'[x].infra)
                      /\ (phase'[x] \notin Updating
                           /\ HasSpec(current'[x].bootstrap, PatchSpecs \ FullSpecs))
                           => node'[x].bootstrap = current'[x].bootstrap
    BY DEF NodeFollows
  <2>1. CASE x = m
    BY <2>1, <1>2, <1>6, <1>7, <1>8
  <2>2. CASE x # m
    BY <2>2, <1>2, <1>6 DEF NodeFollows
  <2> QED BY <2>1, <2>2
<1> QED BY <1>3, <1>4, <1>9

\* A failing attempt, and the next one, leave the rollout where it is.
LEMMA AttemptInv ==
  ASSUME RInv, NEW m \in Machines, Interrupted(m) \/ Unreadable(m) \/ CallAgain(m)
  PROVE  RInv'
<1> USE DEF RInv, TypeOK
<1>1. PICK p \in Updating : phase' = [phase EXCEPT ![m] = p]
  BY DEF Interrupted, Unreadable, CallAgain, Updating
<1>2. /\ phase[m] \in Updating
      /\ UNCHANGED <<current, desired, target, answer, stale>>
  BY DEF Interrupted, Unreadable, CallAgain, Updating
<1>3. /\ node' \in [Machines -> NodeObjects]
      /\ node'[m].machine = node[m].machine /\ node'[m].infra = node[m].infra
      /\ \A x \in Machines \ {m} : node'[x] = node[x]
  BY AppliedEffect DEF Interrupted, Unreadable, CallAgain
<1>4. TypeOK'
  BY <1>1, <1>2, <1>3 DEF Phases
<1>5. AnswerIsMeant' /\ DecisionIsExact'
  BY <1>1, <1>2 DEF AnswerIsMeant, DecisionIsExact, Updating
<1>6. NodeFollows'
  <2> SUFFICES ASSUME NEW x \in Machines
               PROVE  /\ \A f \in OtherFields :
                           node'[x].machine[f] = current[x].machine[f]
                      /\ node'[x].infra # current[x].infra =>
                           Claimable(node'[x].infra, current[x].infra)
                      /\ (phase'[x] \notin Updating
                           /\ HasSpec(current[x].bootstrap, PatchSpecs \ FullSpecs))
                           => node'[x].bootstrap = current[x].bootstrap
    BY <1>2 DEF NodeFollows
  <2>1. CASE x = m
    BY <2>1, <1>1, <1>2, <1>3 DEF NodeFollows
  <2>2. CASE x # m
    BY <2>2, <1>1, <1>2, <1>3 DEF NodeFollows
  <2> QED BY <2>1, <2>2
<1> QED BY <1>4, <1>5, <1>6

\* A step of m that leaves the others as they are keeps the invariant if it
\* keeps it for m.
LEMMA NextInv == RInv /\ [Next]_vars => RInv'
<1> SUFFICES ASSUME RInv, [Next]_vars PROVE RInv'
  OBVIOUS
<1> USE DEF RInv, TypeOK
<1>1. CASE UNCHANGED vars
  BY <1>1 DEF vars, AnswerIsMeant, DecisionIsExact, NodeFollows
<1>2. ASSUME NEW m \in Machines, NEW o \in Objects, Change(m, o) PROVE RInv'
  <2>1. TypeOK'
    BY <1>2 DEF Change
  <2> QED BY <1>2, <2>1 DEF Change, AnswerIsMeant, DecisionIsExact, NodeFollows
<1>3. ASSUME NEW m \in Machines, Ask(m) PROVE RInv'
  <2>1. TypeOK'
    BY <1>3 DEF Ask, Phases
  <2>2. AnswerIsMeant' /\ DecisionIsExact'
    BY <1>3 DEF Ask, AnswerIsMeant, DecisionIsExact, Updating
  <2>3. NodeFollows'
    BY <1>3 DEF Ask, NodeFollows, Updating
  <2> QED BY <2>1, <2>2, <2>3
<1>4. ASSUME NEW m \in Machines, HookAnswers(m) PROVE RInv'
  <2>1. TypeOK'
    <3>1. Hook(m, current[m], target[m]) \in Answers
      BY AnswerType
    <3> QED BY <1>4, <3>1 DEF HookAnswers, Phases
  <2>2. AnswerIsMeant' /\ DecisionIsExact'
    BY <1>4 DEF HookAnswers, AnswerIsMeant, DecisionIsExact, Updating
  <2>3. NodeFollows'
    BY <1>4 DEF HookAnswers, NodeFollows, Updating
  <2> QED BY <2>1, <2>2, <2>3
<1>5. ASSUME NEW m \in Machines, AskAgain(m) PROVE RInv'
  <2>1. TypeOK'
    BY <1>5 DEF AskAgain, Phases
  <2>2. AnswerIsMeant' /\ DecisionIsExact'
    BY <1>5 DEF AskAgain, AnswerIsMeant, DecisionIsExact, Updating
  <2>3. NodeFollows'
    BY <1>5 DEF AskAgain, NodeFollows, Updating
  <2> QED BY <2>1, <2>2, <2>3
<1>6. ASSUME NEW m \in Machines, Decide(m) PROVE RInv'
  <2>1. TypeOK'
    BY <1>6 DEF Decide, Phases, Updating
  <2>2. Covers(answer[m], current[m], target[m]) <=> InPlaceable(current[m], target[m])
    BY <1>6, HooksExact DEF Decide, AnswerIsMeant
  <2>3. AnswerIsMeant'
    BY <1>6 DEF Decide, AnswerIsMeant
  <2>4. DecisionIsExact'
    BY <1>6, <2>2 DEF Decide, DecisionIsExact, Updating
  <2>5. NodeFollows'
    BY <1>6 DEF Decide, NodeFollows, Updating
  <2> QED BY <2>1, <2>3, <2>4, <2>5
<1>7. ASSUME NEW m \in Machines, UpdateApplies(m) \/ UpdateSkips(m) PROVE RInv'
  BY <1>7, InPlaceInv
<1>8. ASSUME NEW m \in Machines, Interrupted(m) \/ Unreadable(m) \/ CallAgain(m)
      PROVE  RInv'
  BY <1>8, AttemptInv
<1>9. ASSUME NEW m \in Machines, Replace(m) PROVE RInv'
  <2>1. TypeOK'
    BY <1>9 DEF Replace, RolledOut, Answers, Phases, NodeObjects, MachineObjects
  <2>2. AnswerIsMeant' /\ DecisionIsExact'
    BY <1>9 DEF Replace, RolledOut, AnswerIsMeant, DecisionIsExact, Updating
  <2>3. NodeFollows'
    BY <1>9 DEF Replace, RolledOut, NodeFollows
  <2> QED BY <2>1, <2>2, <2>3
<1> QED BY <1>1, <1>2, <1>3, <1>4, <1>5, <1>6, <1>7, <1>8, <1>9 DEF Next, Step

LEMMA AlwaysRInv == Spec => []RInv
<1>1. Init => RInv
  BY InitInv
<1>2. RInv /\ [Next]_vars => RInv'
  BY NextInv
<1> QED BY <1>1, <1>2, PTL DEF Spec

\* Every variable of a rollout keeps its type, the hooks' answers included.
THEOREM RolloutTypeCorrect == Spec => []TypeOK
<1>1. RInv => TypeOK
  BY DEF RInv
<1> QED BY <1>1, AlwaysRInv, PTL

\* Whatever is edited and when, a rollout replaces a node if the change is more
\* than the hooks claim (CanUpdateMachine, CanUpdateMachineSet), and only then.
THEOREM DecisionsExact == Spec => []DecisionIsExact
<1>1. RInv => DecisionIsExact
  BY DEF RInv
<1> QED BY <1>1, AlwaysRInv, PTL

\* A running node never falls behind in what no hook claims, nor, outside an
\* update, in strategic patches: those UpdateMachine applies or fails, whatever
\* was interrupted, skipped or applied before.
THEOREM NodesFollow == Spec => []NodeFollows
<1>1. RInv => NodeFollows
  BY DEF RInv
<1> QED BY <1>1, AlwaysRInv, PTL

\* The answer to the same change is the same from the hook for a Machine and
\* from the one for a MachineSet: a failure from both, or patches that cover the
\* change from both or from neither.
THEOREM HooksAlike == Spec => []HooksAgree
<1>1. TypeOK => HooksAgree
  <2> SUFFICES ASSUME TypeOK, NEW m \in Machines
               PROVE  LET one == DoCanUpdateMachine(current[m], target[m])
                          set == DoCanUpdateMachineSet(SetOf(current[m]), SetOf(target[m]))
                      IN  /\ one = Refused <=> set = Refused
                          /\ one # Refused =>
                               (Covers(one, current[m], target[m])
                                  <=> Covers(set, current[m], target[m]))
    BY DEF HooksAgree
  <2>1. current[m] \in MachineObjects /\ target[m] \in MachineObjects
    BY DEF TypeOK
  <2> QED BY <2>1, PatchesOrRefused, AnswersExact, RefusedAssumption
<1> QED BY <1>1, RolloutTypeCorrect, PTL
=============================================================================
