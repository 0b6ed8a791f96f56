-------------------------- MODULE FullFormat_proofs --------------------------
(***************************************************************************)
(* The update of Machines whose BootstrapConfigs have full machine configs *)
(* (paths A and B of DoUpdateMachine).  What is applied is a difference,   *)
(* computed by another hook call and kept in the memory of a replica or    *)
(* computed again from the ConfigMap.  It is right only on the config it   *)
(* was computed from, and so a node has to have that config, or the        *)
(* desired one already, whenever a difference is applied to it.            *)
(*                                                                         *)
(* The context of an abandoned call is cancelled.  A Get that fails for it *)
(* is taken for a ConfigMap without an entry, and an apply that fails for  *)
(* it starts the timer that drops the patches.  With full configs both end *)
(* on path C, which has nothing to apply, and so no call is abandoned here.*)
(***************************************************************************)
EXTENDS Contract_proofs

\* The strategic patches beside a full config, if any, ask for nothing else.
Agrees(b) ==
  b.strategic # Broken /\ \A f \in DOMAIN b.strategic : b.strategic[f] = b.data[f]

FullOnly ==
  /\ Calm /\ {"skipCheck", "abandon"} \cap Faults = {}
  /\ \A b \in Bootstraps : Extractable(b) /\ Agrees(b)

-----------------------------------------------------------------------------
(***************************************************************************)
(* The invariant.                                                          *)
(***************************************************************************)
\* The config of m's node once b is all that was applied to it.
Has(m, b) == Patched(DayZero[m], b.data)

Done(m) == node[m] = Has(m, capi[m].des)

\* The difference that the update of m is about.
NewPatches(m) == Diff(capi[m].cur.data, capi[m].des.data)

\* A patch that sets nothing but what b asks for.
Towards(p, b) == p \in Patch /\ \A f \in DOMAIN p : p[f] = b.data[f]

\* The work of a call: the config it holds is the node's until a patch is
\* merged into it, and the desired one from then on.
CallKnows(c) ==
  call[c] # None =>
    /\ call[c].awaited
    /\ call[c].cur = capi[call[c].m].cur
    /\ call[c].pc \in {"merge", "recover"} => call[c].cfg = node[call[c].m]
    /\ call[c].pc = "recover" => configPatches[call[c].r][call[c].m] = None
    /\ call[c].pc = "apply" => call[c].cfg = Has(call[c].m, call[c].des)

\* The node has the config before or the desired one, and patches that are
\* stored lead from what it has to the desired one.
MachineKnows(m) ==
  /\ Done(m) \/ node[m] = Has(m, capi[m].cur)
  /\ \A r \in Replicas :
       /\ capi[m].phase = "idle" => configPatches[r][m] = None
       /\ configPatches[r][m] # None =>
            /\ Towards(configPatches[r][m], capi[m].des)
            /\ Done(m) \/ configPatches[r][m] = NewPatches(m)

Knows ==
  /\ \A c \in Calls : CallKnows(c)
  /\ \A m \in Machines : MachineKnows(m)

\* What keeps an update from being taken for complete: until the node has the
\* config, the patches are in memory, or they can be computed again.
Safe(m) ==
  (capi[m].phase = "update" /\ ~Done(m)) =>
    \/ \A r \in Replicas : configPatches[r][m] # None
    \/ cache.data[m] = capi[m].cur /\ "recover" \notin Faults

AllSafe == \A m \in Machines : Safe(m)

-----------------------------------------------------------------------------
(***************************************************************************)
(* Lemmas about configs and differences.                                   *)
(***************************************************************************)
LEMMA FullTyped ==
  ASSUME FullOnly, NEW b \in Bootstraps
  PROVE  /\ b.json = TRUE /\ Extractable(b) /\ b.data \in Template
         /\ Usable(b) /\ Target(b) = b.data /\ Towards(b.strategic, b)
<1>0. Bootstraps \subseteq BootstrapConfig
  BY InPlaceAssumption
<1>1. b \in BootstrapConfig /\ Extractable(b) /\ Agrees(b)
  BY <1>0 DEF FullOnly
<1>2. b.data \in Template
  BY <1>1, ExtractableTyped
<1>3. /\ b.json \in BOOLEAN /\ b.data \notin {None, Broken}
      /\ b.strategic \in Patch \cup {Broken}
      /\ ~b.json => b.data = None
  BY <1>1 DEF BootstrapConfig, Extractable
<1>4. b.json = TRUE /\ b.strategic \in Patch /\ b.strategic # Broken
  BY <1>1, <1>3 DEF Agrees
<1>5. Usable(b) /\ Target(b) = b.data
  BY <1>1, <1>3, <1>4 DEF Usable, Target
<1>6. Towards(b.strategic, b)
  BY <1>1, <1>4 DEF Towards, Agrees
<1> QED
  BY <1>1, <1>2, <1>4, <1>5, <1>6

\* A full config on a node is a config, and what its BootstrapConfig asks for.
LEMMA HasConverges ==
  ASSUME FullOnly, NEW m \in Machines, NEW b \in Bootstraps
  PROVE  Has(m, b) \in Config /\ Converged(Has(m, b), b)
<1>1. /\ b.data \in [TemplateFields -> Values] /\ Usable(b)
      /\ Target(b) = b.data
  BY FullTyped DEF Template
<1>2. b.data \in Patch
  BY <1>1 DEF Patch
<1>3. Has(m, b) \in Config
  BY <1>2, PatchedTyped, InPlaceAssumption DEF Has
<1>4. \A f \in TemplateFields : Has(m, b)[f] = b.data[f]
  BY <1>1 DEF Has, Patched, Fields
<1> QED
  BY <1>1, <1>3, <1>4 DEF Converged

\* A node with one full config that is what another asks for has that one too.
LEMMA ConvergedHas ==
  ASSUME FullOnly, NEW m \in Machines, NEW b \in Bootstraps, NEW d \in Bootstraps,
         Converged(Has(m, b), d)
  PROVE  Has(m, b) = Has(m, d)
<1>1. /\ b.data \in [TemplateFields -> Values] /\ d.data \in [TemplateFields -> Values]
      /\ Target(d) = d.data
  BY FullTyped DEF Template
<1>2. \A f \in TemplateFields : Has(m, b)[f] = b.data[f]
  BY <1>1 DEF Has, Patched, Fields
<1>3. \A f \in TemplateFields : Has(m, b)[f] = d.data[f]
  BY <1>1 DEF Converged
<1>4. \A f \in TemplateFields : b.data[f] = d.data[f]
  BY <1>2, <1>3
<1>5. b.data = d.data
  BY <1>1, <1>4
<1> QED
  BY <1>5 DEF Has

\* Nothing changes a node that has the desired config already.
LEMMA TowardsStays ==
  ASSUME FullOnly, NEW m \in Machines, NEW b \in Bootstraps, NEW p, Towards(p, b)
  PROVE  Patched(Has(m, b), p) = Has(m, b)
<1>1. b.data \in [TemplateFields -> Values] /\ DOMAIN p \subseteq TemplateFields
  BY FullTyped DEF Template, Towards, Patch
<1>2. \A f \in DOMAIN p : Has(m, b)[f] = p[f]
  BY <1>1 DEF Has, Patched, Fields, Towards
<1> QED
  BY <1>2 DEF Has, Patched

\* A difference leads from the one config to the other (configdiff.Patch,
\* configpatcher.Apply).
LEMMA DiffReaches ==
  ASSUME FullOnly, NEW m \in Machines, NEW b \in Bootstraps, NEW d \in Bootstraps
  PROVE  /\ Towards(Diff(b.data, d.data), d)
         /\ Patched(Has(m, b), Diff(b.data, d.data)) = Has(m, d)
<1>1. /\ b.data \in [TemplateFields -> Values] /\ d.data \in [TemplateFields -> Values]
      /\ d.data \in Template
  BY FullTyped DEF Template
<1> DEFINE p == Diff(b.data, d.data)
           S == {g \in TemplateFields : b.data[g] # d.data[g]}
<1>2. p \in Patch
  BY <1>1, DiffTyped
<1>3. DOMAIN p = S /\ \A f \in S : p[f] = d.data[f]
  BY DEF Diff
<1>4. Towards(p, d)
  BY <1>2, <1>3 DEF Towards
<1> HIDE DEF p
<1>5. ASSUME NEW f \in Fields
      PROVE  Patched(Has(m, b), p)[f] = Has(m, d)[f]
  <2>1. CASE f \in TemplateFields
    <3>1. Has(m, b)[f] = b.data[f] /\ Has(m, d)[f] = d.data[f]
      BY <1>1, <2>1 DEF Has, Patched, Fields
    <3>2. CASE f \in S
      BY <1>3, <1>5, <3>1, <3>2 DEF Patched
    <3>3. CASE f \notin S
      BY <1>3, <1>5, <2>1, <3>1, <3>3 DEF Patched
    <3> QED
      BY <3>2, <3>3
  <2>2. CASE f \notin TemplateFields
    BY <1>1, <1>3, <1>5, <2>2 DEF Has, Patched
  <2> QED
    BY <2>1, <2>2
<1>6. Patched(Has(m, b), p) = Has(m, d)
  BY <1>5 DEF Patched, Has
<1> QED
  BY <1>4, <1>6 DEF p

-----------------------------------------------------------------------------
(***************************************************************************)
(* Lemmas about calls.                                                     *)
(***************************************************************************)
\* What is known of a call in flight and its Machine.
LEMMA Context ==
  ASSUME FullOnly, IInv, Fits, Knows, NEW c \in Calls, call[c] # None
  PROVE  LET m == call[c].m IN
         /\ call[c] \in Call /\ m \in Machines
         /\ call[c].r \in Replicas /\ Replicas = {call[c].r}
         /\ capi[m].phase \in {"check", "update"}
         /\ call[c].pc \in UpdateSteps => capi[m].phase = "update"
         /\ call[c].cur = capi[m].cur /\ call[c].des = capi[m].des
         /\ capi[m].cur \in Bootstraps /\ capi[m].des \in Bootstraps
         /\ MachineKnows(m) /\ CallKnows(c) /\ call[c].awaited
<1>0. TypeOK
  BY DEF IInv
<1>1. call[c] \in Call /\ call[c].m \in Machines /\ call[c].r \in Replicas
      /\ call[c].cur \in Bootstraps /\ call[c].des \in Bootstraps
  BY <1>0, CallTyped
<1>2. Replicas = {call[c].r}
  BY <1>1 DEF FullOnly, Calm
<1>3. call[c].cur = capi[call[c].m].cur /\ MachineKnows(call[c].m) /\ CallKnows(c)
      /\ call[c].awaited
  BY <1>1 DEF Knows, CallKnows
<1> QED
  BY <1>0, <1>1, <1>2, <1>3, InProgress

\* DoUpdateMachine falls back on the strategic patches only when the node has
\* the desired config already.
LEMMA DirectIsDone ==
  ASSUME FullOnly, IInv, Fits, Knows, AllSafe, NEW c \in Calls, Direct(c)
  PROVE  Done(call[c].m)
<1>1. /\ call[c] # None /\ call[c].pc = "recover"
      /\ ~Recoverable(call[c].m, call[c].des) \/ "recover" \in Faults
  BY Context DEF Direct, At, MayFail
<1> DEFINE m == call[c].m
<1>2. /\ m \in Machines /\ capi[m].phase = "update" /\ call[c].r \in Replicas
      /\ capi[m].cur \in Bootstraps /\ call[c].des \in Bootstraps /\ CallKnows(c)
  BY <1>1, Context DEF UpdateSteps
<1>3. configPatches[call[c].r][m] = None
  BY <1>1, <1>2 DEF CallKnows
<1>4. cache.data[m] = capi[m].cur => Recoverable(m, call[c].des)
  BY <1>2, FullTyped, NoneAssumption DEF Recoverable
<1>5. Safe(m)
  BY <1>2 DEF AllSafe
<1> QED
  BY <1>1, <1>2, <1>3, <1>4, <1>5 DEF Safe

\* Every path of DoUpdateMachine makes the desired config.
LEMMA MakesDesired ==
  ASSUME FullOnly, IInv, Fits, Knows, AllSafe, NEW c \in Calls,
         MergeStored(c) \/ MergeRecovered(c) \/ MergeDirect(c)
  PROVE  call'[c].cfg = Has(call[c].m, call[c].des)
<1>1. call[c] # None /\ call[c].pc \in {"merge", "recover"}
  BY DEF MergeStored, MergeRecovered, MergeDirect, Direct, At
<1> DEFINE m == call[c].m
           d == call[c].des
<1>2. /\ call[c] \in Call /\ m \in Machines /\ call[c].r \in Replicas
      /\ capi[m].phase = "update" /\ d = capi[m].des
      /\ capi[m].cur \in Bootstraps /\ d \in Bootstraps
      /\ MachineKnows(m) /\ call[c].cfg = node[m] /\ CallKnows(c)
  BY <1>1, Context DEF UpdateSteps, CallKnows
<1>3. ASSUME NEW p, Merge(c, p) PROVE call'[c].cfg = Patched(node[m], p)
  <2>1. call' = [call EXCEPT ![c].pc = "apply", ![c].cfg = Patched(@, p)]
    BY <1>3 DEF Merge
  <2>2. call'[c] = [call[c] EXCEPT !.pc = "apply", !.cfg = Patched(call[c].cfg, p)]
    BY <2>1 DEF IInv, TypeOK
  <2> QED
    BY <1>2, <2>2 DEF Call
<1>4. CASE Done(m)
  <2>1. PICK p : Merge(c, p) /\ Towards(p, d)
    <3>1. CASE MergeStored(c)
      BY <1>2, <3>1 DEF MergeStored, MachineKnows
    <3>2. CASE MergeRecovered(c)
      <4>1. cache.data[m] \in Bootstraps
        BY <1>1, <3>2, CallTyped DEF MergeRecovered, Recoverable, IInv
      <4> QED
        BY <1>2, <3>2, <4>1, DiffReaches DEF MergeRecovered
    <3>3. CASE MergeDirect(c)
      BY <1>2, <3>3, FullTyped DEF MergeDirect
    <3> QED
      BY <3>1, <3>2, <3>3
  <2> QED
    BY <1>2, <1>3, <1>4, <2>1, TowardsStays DEF Done
<1>5. CASE ~Done(m)
  <2>1. node[m] = Has(m, capi[m].cur)
    BY <1>2, <1>5 DEF MachineKnows
  <2>2. Merge(c, NewPatches(m))
    <3>1. CASE MergeStored(c)
      BY <1>2, <1>5, <3>1 DEF MergeStored, MachineKnows
    <3>2. CASE MergeRecovered(c)
      <4>1. configPatches[call[c].r][m] = None
        BY <1>1, <1>2, <3>2 DEF MergeRecovered, At, CallKnows
      <4>2. cache.data[m] = capi[m].cur
        BY <1>2, <1>5, <4>1 DEF AllSafe, Safe
      <4> QED
        BY <1>2, <3>2, <4>2 DEF MergeRecovered, NewPatches
    <3>3. CASE MergeDirect(c)
      BY <1>5, <3>3, DirectIsDone DEF MergeDirect
    <3> QED
      BY <3>1, <3>2, <3>3
  <2>3. Patched(Has(m, capi[m].cur), NewPatches(m)) = Has(m, d)
    BY <1>2, DiffReaches DEF NewPatches
  <2> QED
    BY <1>3, <2>1, <2>2, <2>3
<1> QED
  BY <1>4, <1>5

LEMMA FullMergesRight ==
  ASSUME FullOnly, IInv, Fits, Knows, AllSafe, NEW c \in Calls
  PROVE  MergesRight(c)
<1>1. ASSUME MergeStored(c) \/ MergeRecovered(c) \/ MergeDirect(c)
      PROVE  Converged(call'[c].cfg, call[c].des)
  <2>1. call[c] # None
    BY <1>1 DEF MergeStored, MergeRecovered, MergeDirect, Direct, At
  <2>2. call[c].m \in Machines /\ call[c].des \in Bootstraps
    BY <2>1, Context
  <2> QED
    BY <1>1, <2>2, MakesDesired, HasConverges
<1>2. NothingToApply(c) => Converged(node[call[c].m], call[c].des)
  <2> SUFFICES ASSUME NothingToApply(c) PROVE Converged(node[call[c].m], call[c].des)
    OBVIOUS
  <2>1. Direct(c) /\ call[c] # None
    BY DEF NothingToApply, Direct, At
  <2>2. /\ call[c].m \in Machines /\ call[c].des \in Bootstraps
        /\ call[c].des = capi[call[c].m].des
    BY <2>1, Context
  <2> QED
    BY <2>1, <2>2, DirectIsDone, HasConverges DEF Done
<1> QED
  BY <1>1, <1>2 DEF MergesRight

-----------------------------------------------------------------------------
(***************************************************************************)
(* Lemmas about steps.                                                     *)
(***************************************************************************)
\* A step of c leaves the other calls and Machines as they are: it is enough to
\* look at c and its Machine.
LEMMA KnowsFrame ==
  ASSUME TypeOK, Fits, Knows, NEW c \in Calls, call[c] # None,
         NEW m \in Machines, call[c].m = m,
         \A d \in Calls \ {c} : call'[d] = call[d],
         \A x \in Machines \ {m} :
           /\ capi'[x] = capi[x] /\ node'[x] = node[x]
           /\ \A r \in Replicas : configPatches'[r][x] = configPatches[r][x],
         CallKnows(c)', MachineKnows(m)'
  PROVE  Knows'
<1>1. ASSUME NEW d \in Calls \ {c} PROVE CallKnows(d)'
  <2>1. CASE call[d] = None
    BY <2>1 DEF CallKnows
  <2>2. CASE call[d] # None
    <3>1. call[d].m \in Machines \ {m} /\ call[d].r \in Replicas
      BY <2>2, CallTyped DEF Fits, OneCall
    <3>2. CallKnows(d)
      BY DEF Knows
    <3> QED
      BY <2>2, <3>1, <3>2 DEF CallKnows
  <2> QED
    BY <2>1, <2>2
<1>2. ASSUME NEW x \in Machines \ {m} PROVE MachineKnows(x)'
  <2>1. MachineKnows(x)
    BY DEF Knows
  <2> QED
    BY <2>1 DEF MachineKnows, Done, NewPatches
<1> QED
  BY <1>1, <1>2 DEF Knows

\* What a call may do to the patches of its Machine: drop them, or store some
\* that lead from what the node has to the desired config.
PatchesLead(c) ==
  LET m == call[c].m IN
  \E p \in Patch \cup {None} :
    /\ configPatches' = [configPatches EXCEPT ![call[c].r][m] = p]
    /\ p # None => /\ Towards(p, capi[m].des)
                   /\ Done(m) \/ p = NewPatches(m)

\* What a call may do to its node: nothing, or give it the desired config.
NodeLeads(c) ==
  \/ node' = node
  \/ node' = [node EXCEPT ![call[c].m] = Has(call[c].m, call[c].des)]

LEMMA PatchesKept ==
  ASSUME FullOnly, IInv, Fits, Knows, NEW c \in Calls, call[c] # None,
         \/ configPatches' = configPatches
         \/ configPatches' = Deleted(configPatches, call[c].r, call[c].m)
  PROVE  PatchesLead(c)
<1> DEFINE m == call[c].m
           r == call[c].r
<1>1. m \in Machines /\ r \in Replicas /\ MachineKnows(m)
  BY Context
<1>2. configPatches \in [Replicas -> [Machines -> Patch \cup {None}]]
  BY DEF IInv, TypeOK
<1>3. CASE configPatches' = configPatches
  <2>1. configPatches = [configPatches EXCEPT ![r][m] = configPatches[r][m]]
    BY <1>1, <1>2
  <2>2. configPatches[r][m] \in Patch \cup {None}
    BY <1>1, <1>2
  <2>3. configPatches[r][m] # None =>
          /\ Towards(configPatches[r][m], capi[m].des)
          /\ Done(m) \/ configPatches[r][m] = NewPatches(m)
    BY <1>1 DEF MachineKnows
  <2> QED
    BY <1>3, <2>1, <2>2, <2>3 DEF PatchesLead
<1>4. CASE configPatches' = Deleted(configPatches, r, m)
  BY <1>4 DEF PatchesLead, Deleted
<1> QED
  BY <1>3, <1>4

\* The Machine of a call after such a change.
LEMMA MachineStays ==
  ASSUME FullOnly, IInv, Fits, Knows, NEW c \in Calls, call[c] # None,
         NEW m \in Machines, call[c].m = m,
         PatchesLead(c), NodeLeads(c),
         capi'[m].cur = capi[m].cur, capi'[m].des = capi[m].des,
         capi'[m].phase # "idle"
  PROVE  /\ MachineKnows(m)'
         /\ \A x \in Machines \ {m} :
              /\ node'[x] = node[x]
              /\ \A r \in Replicas : configPatches'[r][x] = configPatches[r][x]
<1>0. /\ MachineKnows(m) /\ call[c].r \in Replicas /\ Replicas = {call[c].r}
      /\ call[c].des = capi[m].des
  BY Context
<1>1. /\ node \in [Machines -> Config]
      /\ configPatches \in [Replicas -> [Machines -> Patch \cup {None}]]
  BY DEF IInv, TypeOK
<1>2. PICK p \in Patch \cup {None} :
        /\ configPatches' = [configPatches EXCEPT ![call[c].r][m] = p]
        /\ p # None => /\ Towards(p, capi[m].des)
                       /\ Done(m) \/ p = NewPatches(m)
  BY DEF PatchesLead
<1>3. /\ \A r \in Replicas : configPatches'[r][m] = p
      /\ \A x \in Machines \ {m}, r \in Replicas :
           configPatches'[r][x] = configPatches[r][x]
  BY <1>0, <1>1, <1>2
<1>4. /\ node'[m] = node[m] \/ node'[m] = Has(m, capi[m].des)
      /\ \A x \in Machines \ {m} : node'[x] = node[x]
  BY <1>0, <1>1 DEF NodeLeads
<1>5. NewPatches(m)' = NewPatches(m) /\ (Done(m) => Done(m)')
  BY <1>4 DEF NewPatches, Done
<1>6. Done(m)' \/ node'[m] = Has(m, capi'[m].cur)
  BY <1>0, <1>4 DEF MachineKnows, Done
<1>7. MachineKnows(m)'
  BY <1>2, <1>3, <1>5, <1>6 DEF MachineKnows
<1> QED
  BY <1>3, <1>4, <1>7

\* A reply other than completion.
LEMMA AnswerKnows ==
  ASSUME FullOnly, IInv, Fits, Knows, NEW c \in Calls, call[c] # None,
         NEW answer \in {"claimed", "failure", "retry"}, Reply(c, answer),
         PatchesLead(c), NodeLeads(c)
  PROVE  Knows'
<1>0. PICK m \in Machines : call[c].m = m
  BY Context
<1>1. /\ TypeOK
      /\ call'[c] = None /\ \A d \in Calls \ {c} : call'[d] = call[d]
      /\ \A x \in Machines \ {m} : capi'[x] = capi[x]
      /\ capi'[m].des = capi[m].des /\ capi'[m].cur = capi[m].cur
      /\ capi'[m].phase \in {capi[m].phase, "update"}
  BY <1>0, ReplyEffect DEF IInv
<1>2. capi'[m].phase # "idle"
  BY <1>0, <1>1, Context
<1>3. CallKnows(c)'
  BY <1>1 DEF CallKnows
<1> QED
  BY <1>0, <1>1, <1>2, <1>3, MachineStays, KnowsFrame

\* The call goes on for the same request.
LEMMA GoesOnKnows ==
  ASSUME FullOnly, IInv, Fits, Knows, NEW c \in Calls, call[c] # None,
         NEW new \in Call, call' = [call EXCEPT ![c] = new],
         new.m = call[c].m, new.r = call[c].r,
         new.cur = call[c].cur, new.des = call[c].des,
         new.awaited = call[c].awaited,
         new.pc \in {"merge", "recover"} => new.cfg = node'[call[c].m],
         new.pc = "recover" => configPatches'[call[c].r][call[c].m] = None,
         new.pc = "apply" => new.cfg = Has(call[c].m, call[c].des),
         capi' = capi, PatchesLead(c), NodeLeads(c)
  PROVE  Knows'
<1>0. PICK m \in Machines : call[c].m = m
  BY Context
<1>1. /\ TypeOK /\ call'[c] = new
      /\ \A d \in Calls \ {c} : call'[d] = call[d]
  BY DEF IInv, TypeOK
<1>2. capi'[m].phase # "idle" /\ call[c].cur = capi[m].cur /\ call[c].awaited
  BY <1>0, Context
<1>3. CallKnows(c)'
  BY <1>0, <1>1, <1>2 DEF CallKnows
<1> QED
  BY <1>0, <1>1, <1>2, <1>3, MachineStays, KnowsFrame

\* The completion of an update, whether CAPI hears of it or not.
LEMMA CompletionKnows ==
  ASSUME FullOnly, IInv, Fits, Knows, NEW c \in Calls, Completes(c)
  PROVE  Knows'
<1>0. /\ call[c] # None /\ Reply(c, "done") /\ node' = node
      /\ configPatches' = Deleted(configPatches, call[c].r, call[c].m)
      /\ Settled(Mine(c))
  BY DEF Completes, At, EndUpdate, talos
<1>1. PICK m \in Machines : call[c].m = m
  BY <1>0, Context
<1>2. /\ call[c].r \in Replicas /\ Replicas = {call[c].r} /\ MachineKnows(m)
      /\ capi[m].cur \in Bootstraps /\ capi[m].des \in Bootstraps
      /\ capi[m].phase \in {"check", "update"} /\ TypeOK
  BY <1>0, <1>1, Context DEF IInv
<1>3. Done(m)
  <2>1. Converged(node[m], capi[m].des)
    BY <1>0, <1>1, <1>2 DEF Settled, Mine, Fits, MachineFits
  <2> QED
    BY <1>2, <2>1, ConvergedHas DEF MachineKnows, Done
<1>4. /\ \A r \in Replicas : configPatches'[r][m] = None
      /\ \A x \in Machines \ {m}, r \in Replicas :
           configPatches'[r][x] = configPatches[r][x]
  BY <1>0, <1>1, <1>2 DEF Deleted, TypeOK
<1>5. /\ call'[c] = None /\ \A d \in Calls \ {c} : call'[d] = call[d]
      /\ \A x \in Machines \ {m} : capi'[x] = capi[x]
      /\ capi'[m].des = capi[m].des
  BY <1>0, <1>1, <1>2, ReplyEffect
<1>6. CallKnows(c)' /\ MachineKnows(m)'
  BY <1>0, <1>3, <1>4, <1>5 DEF CallKnows, MachineKnows, Done
<1> QED
  BY <1>0, <1>1, <1>2, <1>4, <1>5, <1>6, KnowsFrame

-----------------------------------------------------------------------------
(***************************************************************************)
(* The steps.                                                              *)
(***************************************************************************)
LEMMA CanUpdateStepKnows ==
  ASSUME FullOnly, IInv, Fits, Knows, NEW c \in Calls, CanUpdateStep(c)
  PROVE  Knows'
<1> DEFINE m == call[c].m
<1>0. call[c] # None
  BY DEF At, CanUpdateStep, ClaimFails, ClaimOnly, ClaimAndStore, PersistGet,
         PersistFails, PersistCreate, PersistUpdate
<1>00. /\ call[c] \in Call /\ m \in Machines /\ call[c].r \in Replicas
       /\ call[c].cur = capi[m].cur /\ call[c].des = capi[m].des
       /\ call[c].cur \in Bootstraps /\ call[c].des \in Bootstraps
       /\ cache \in [exists : BOOLEAN, data : CacheData]
  BY <1>0, Context DEF IInv, TypeOK
<1>1. CASE ClaimAndStore(c)
  <2> DEFINE new == [call[c] EXCEPT !.pc = "persist"]
             p == Diff(call[c].cur.data, call[c].des.data)
  <2>1. /\ new \in Call /\ new.pc = "persist" /\ new.m = m /\ new.r = call[c].r
        /\ new.awaited = call[c].awaited
        /\ new.cur = call[c].cur /\ new.des = call[c].des
    BY <1>00 DEF Call, CanUpdateSteps
  <2>2. /\ call' = [call EXCEPT ![c] = new] /\ capi' = capi /\ node' = node
        /\ configPatches' = [configPatches EXCEPT ![call[c].r][m] = p]
    BY <1>1 DEF ClaimAndStore, Goto, talos
  <2>3. Towards(p, capi[m].des) /\ p = NewPatches(m)
    BY <1>00, DiffReaches DEF NewPatches
  <2>4. PatchesLead(c)
    BY <2>2, <2>3 DEF PatchesLead, Towards
  <2> HIDE DEF new
  <2> QED
    BY <1>0, <2>1, <2>2, <2>4, GoesOnKnows DEF NodeLeads
<1>2. CASE PersistGet(c)
  <2> DEFINE new == [call[c] EXCEPT
                       !.pc = IF cache.exists THEN "put" ELSE "create",
                       !.copy = IF cache.exists THEN cache.data ELSE None]
  <2>1. /\ new \in Call /\ new.pc \in {"put", "create"} /\ new.m = m
        /\ new.r = call[c].r /\ new.awaited = call[c].awaited
 /\ new.cur = call[c].cur /\ new.des = call[c].des
    BY <1>00 DEF Call, CanUpdateSteps
  <2>2. /\ call' = [call EXCEPT ![c] = new] /\ capi' = capi /\ node' = node
        /\ configPatches' = configPatches
    BY <1>2 DEF PersistGet, memory, talos
  <2> HIDE DEF new
  <2> QED
    BY <1>0, <2>1, <2>2, PatchesKept, GoesOnKnows DEF NodeLeads
<1>3. CASE ClaimFails(c) \/ ClaimOnly(c) \/ PersistFails(c) \/ PersistCreate(c)
             \/ PersistUpdate(c)
  <2>1. /\ Reply(c, "failure") \/ Reply(c, "claimed")
        /\ configPatches' = configPatches /\ node' = node
    BY <1>3 DEF ClaimFails, ClaimOnly, PersistFails, PersistCreate, PersistUpdate,
                memory, talos
  <2> QED
    BY <1>0, <2>1, PatchesKept, AnswerKnows DEF NodeLeads
<1> QED
  BY <1>1, <1>2, <1>3 DEF CanUpdateStep

LEMMA UpdateStepKnows ==
  ASSUME FullOnly, IInv, Fits, Knows, AllSafe, NEW c \in Calls, UpdateStep(c)
  PROVE  Knows'
<1> DEFINE m == call[c].m
           r == call[c].r
<1>0. call[c] # None
  BY DEF At, UpdateStep, NoAddress, TimesOut, Completes, Settles, Proceeds,
         ReadFails, ReadLive, MergeStored, NothingStored, MergeRecovered,
         Direct, DirectFails, NothingToApply, MergeDirect, MergeFails,
         NodeTakes, ApplyAccepted, ApplyUnacked, ApplyRejected,
         CleanupNotNeeded, CleanupGet, CleanupFails, CleanupUpdate
<1>00. /\ call[c] \in Call /\ m \in Machines /\ r \in Replicas
       /\ call[c].cur = capi[m].cur /\ call[c].des = capi[m].des
       /\ capi[m].cur \in Bootstraps /\ call[c].des \in Bootstraps /\ CallKnows(c)
       /\ node[m] \in Config /\ cache \in [exists : BOOLEAN, data : CacheData]
  BY <1>0, Context DEF IInv, TypeOK
\* Replies with which at most the patches are dropped.
<1>1. CASE NoAddress(c) \/ TimesOut(c) \/ Settles(c) \/ ReadFails(c)
             \/ DirectFails(c) \/ NothingToApply(c) \/ MergeFails(c)
             \/ ApplyRejected(c) \/ CleanupNotNeeded(c) \/ CleanupFails(c)
             \/ CleanupUpdate(c)
  <2>1. /\ Reply(c, "failure") \/ Reply(c, "retry")
        /\ node' = node
        /\ \/ configPatches' = configPatches
           \/ configPatches' = Deleted(configPatches, r, m)
    BY <1>1 DEF NoAddress, TimesOut, Settles, ReadFails, DirectFails,
                NothingToApply, MergeFails, ApplyRejected, CleanupNotNeeded,
                CleanupFails, CleanupUpdate, EndUpdate, DropPatches, Finish,
                RetryLater, memory, talos
  <2> QED
    BY <1>0, <2>1, PatchesKept, AnswerKnows DEF NodeLeads
<1>2. CASE Completes(c)
  BY <1>2, CompletionKnows
\* Steps with which only the call itself changes.
<1>3. CASE Proceeds(c)
  <2> DEFINE new == [call[c] EXCEPT !.pc = "read", !.loaded = Mine(c) # None]
  <2>1. /\ new \in Call /\ new.pc = "read" /\ new.m = m /\ new.r = r
        /\ new.awaited = call[c].awaited
        /\ new.cur = call[c].cur /\ new.des = call[c].des
    BY <1>00 DEF Call, UpdateSteps
  <2>2. /\ call' = [call EXCEPT ![c] = new] /\ capi' = capi /\ node' = node
        /\ configPatches' = configPatches
    BY <1>3 DEF Proceeds, memory, talos
  <2> HIDE DEF new
  <2> QED
    BY <1>0, <2>1, <2>2, PatchesKept, GoesOnKnows DEF NodeLeads
<1>4. CASE ReadLive(c)
  <2> DEFINE new == [call[c] EXCEPT !.pc = "merge", !.cfg = node[m]]
  <2>1. /\ new \in Call /\ new.pc = "merge" /\ new.m = m /\ new.r = r
        /\ new.awaited = call[c].awaited
        /\ new.cur = call[c].cur /\ new.des = call[c].des /\ new.cfg = node[m]
    BY <1>00 DEF Call, UpdateSteps
  <2>2. /\ call' = [call EXCEPT ![c] = new] /\ capi' = capi /\ node' = node
        /\ configPatches' = configPatches
    BY <1>4 DEF ReadLive, memory, talos
  <2> HIDE DEF new
  <2> QED
    BY <1>0, <2>1, <2>2, PatchesKept, GoesOnKnows DEF NodeLeads
<1>5. CASE NothingStored(c)
  <2> DEFINE new == [call[c] EXCEPT !.pc = "recover"]
  <2>1. /\ new \in Call /\ new.pc = "recover" /\ new.m = m /\ new.r = r
        /\ new.awaited = call[c].awaited
        /\ new.cur = call[c].cur /\ new.des = call[c].des /\ new.cfg = call[c].cfg
    BY <1>00 DEF Call, UpdateSteps
  <2>2. /\ call' = [call EXCEPT ![c] = new] /\ capi' = capi /\ node' = node
        /\ configPatches' = configPatches /\ configPatches[r][m] = None
        /\ call[c].pc = "merge"
    BY <1>5 DEF NothingStored, Goto, memory, talos, At
  <2>3. call[c].cfg = node[m]
    BY <1>0, <1>00, <2>2 DEF CallKnows
  <2> HIDE DEF new
  <2> QED
    BY <1>0, <2>1, <2>2, <2>3, PatchesKept, GoesOnKnows DEF NodeLeads
\* The desired config is made.
<1>6. CASE MergeStored(c) \/ MergeRecovered(c) \/ MergeDirect(c)
  <2>1. PICK p \in Patch : Merge(c, p)
    BY <1>6, MergePatch DEF IInv
  <2> DEFINE cfg == Patched(call[c].cfg, p)
             new == [call[c] EXCEPT !.pc = "apply", !.cfg = cfg]
  <2>2. call' = [call EXCEPT ![c] = new] /\ capi' = capi
    BY <2>1 DEF Merge
  <2>3. node' = node /\ call[c].pc \in {"merge", "recover"}
    BY <1>6 DEF MergeStored, MergeRecovered, MergeDirect, Direct, At, talos
  <2>4. cfg \in Config
    <3>1. call[c].cfg \in Config
      BY <1>0, <1>00, <2>3 DEF CallKnows
    <3> QED
      BY <3>1, PatchedTyped
  <2> HIDE DEF cfg
  <2>5. /\ new \in Call /\ new.pc = "apply" /\ new.m = m /\ new.r = r
        /\ new.awaited = call[c].awaited
        /\ new.cur = call[c].cur /\ new.des = call[c].des
    BY <1>00, <2>4 DEF Call, UpdateSteps
  <2>6. call'[c] = new
    BY <2>2 DEF IInv, TypeOK
  <2> HIDE DEF new
  <2>7. new.cfg = Has(m, call[c].des)
    BY <1>6, <2>6, MakesDesired
  <2>8. PatchesLead(c)
    <3>1. CASE MergeRecovered(c)
      <4> DEFINE q == Diff(cache.data[m].data, call[c].des.data)
      <4>1. cache.data[m] \in Bootstraps
        BY <1>0, <3>1, CallTyped DEF MergeRecovered, Recoverable, IInv
      <4>2. Towards(q, call[c].des)
        BY <1>00, <4>1, DiffReaches
      <4>3. Done(m) \/ q = NewPatches(m)
        <5>1. /\ capi[m].phase = "update" /\ call[c].pc = "recover"
              /\ configPatches[r][m] = None
          BY <1>0, <1>00, <3>1, Context
            DEF MergeRecovered, At, CallKnows, UpdateSteps
        <5>2. Safe(m)
          BY <1>00 DEF AllSafe
        <5> QED
          BY <1>00, <5>1, <5>2 DEF Safe, NewPatches
      <4>4. configPatches' = [configPatches EXCEPT ![r][m] = q]
        BY <3>1 DEF MergeRecovered
      <4> HIDE DEF q
      <4> QED
        BY <1>00, <4>2, <4>3, <4>4 DEF PatchesLead, Towards
    <3>2. CASE MergeStored(c) \/ MergeDirect(c)
      BY <1>0, <3>2, PatchesKept DEF MergeStored, MergeDirect, memory
    <3> QED
      BY <1>6, <3>1, <3>2
  <2> QED
    BY <1>0, <2>2, <2>3, <2>5, <2>7, <2>8, GoesOnKnows DEF NodeLeads
\* The node takes it, or may have taken it.
<1>7. CASE ApplyAccepted(c) \/ ApplyUnacked(c)
  <2>1. At(c, "apply") /\ node' = [node EXCEPT ![m] = call[c].cfg]
        /\ configPatches' = configPatches
    BY <1>7 DEF ApplyAccepted, ApplyUnacked, NodeTakes, memory
  <2>2. NodeLeads(c)
    BY <1>00, <2>1 DEF NodeLeads, CallKnows, At
  <2>3. CASE ApplyAccepted(c)
    <3> DEFINE new == [call[c] EXCEPT !.pc = "cleanup"]
    <3>1. /\ new \in Call /\ new.pc = "cleanup" /\ new.m = m /\ new.r = r
          /\ new.awaited = call[c].awaited
          /\ new.cur = call[c].cur /\ new.des = call[c].des
      BY <1>00 DEF Call, UpdateSteps
    <3>2. call' = [call EXCEPT ![c] = new] /\ capi' = capi
      BY <2>3 DEF ApplyAccepted, Goto
    <3> HIDE DEF new
    <3> QED
      BY <1>0, <2>1, <2>2, <3>1, <3>2, PatchesKept, GoesOnKnows
  <2>4. CASE ApplyUnacked(c)
    BY <1>0, <2>1, <2>2, <2>4, PatchesKept, AnswerKnows DEF ApplyUnacked, RetryLater
  <2> QED
    BY <1>7, <2>3, <2>4
<1>8. CASE CleanupGet(c)
  <2> DEFINE new == [call[c] EXCEPT !.pc = "remove", !.copy = cache.data]
  <2>1. /\ new \in Call /\ new.pc = "remove" /\ new.m = m /\ new.r = r
        /\ new.awaited = call[c].awaited
        /\ new.cur = call[c].cur /\ new.des = call[c].des
    BY <1>00 DEF Call, UpdateSteps
  <2>2. /\ call' = [call EXCEPT ![c] = new] /\ capi' = capi /\ node' = node
        /\ configPatches' = Deleted(configPatches, r, m)
    BY <1>8 DEF CleanupGet, DropPatches, talos
  <2> HIDE DEF new
  <2> QED
    BY <1>0, <2>1, <2>2, PatchesKept, GoesOnKnows DEF NodeLeads
<1> QED
  BY <1>1, <1>2, <1>3, <1>4, <1>5, <1>6, <1>7, <1>8 DEF UpdateStep

LEMMA InitKnows ==
  ASSUME FullOnly
  PROVE  Init => Knows
<1> SUFFICES ASSUME Init PROVE Knows
  OBVIOUS
<1>1. \A c \in Calls : CallKnows(c)
  BY DEF Init, CallKnows
<1>2. ASSUME NEW m \in Machines PROVE MachineKnows(m)
  <2>1. capi[m].cur \in Bootstraps /\ capi[m].des = capi[m].cur
    BY DEF Init, CapiState
  <2>2. node[m] = Patched(DayZero[m], Target(capi[m].cur))
    BY DEF Init
  <2>3. node[m] = Has(m, capi[m].cur)
    BY <2>1, <2>2, FullTyped DEF Has
  <2>4. \A r \in Replicas : configPatches[r][m] = None
    BY DEF Init
  <2> QED
    BY <2>3, <2>4 DEF MachineKnows
<1> QED
  BY <1>1, <1>2 DEF Knows

\* A new desired state finds no patches, and the node with the config it had.
LEMMA RollKnows ==
  ASSUME FullOnly, IInv, Fits, Knows, NEW m \in Machines, NEW b \in Bootstraps,
         Roll(m, b)
  PROVE  Knows'
<1>1. PICK p \in {"check", "update"} :
        capi' = [capi EXCEPT ![m].phase = p, ![m].des = b]
  BY DEF Roll
<1>2. /\ capi[m].phase = "idle" /\ capi[m] \in CapiState
      /\ call' = call /\ configPatches' = configPatches /\ node' = node
  BY DEF Roll, IInv, TypeOK, memory, talos
<1>3. /\ capi'[m].phase = p /\ capi'[m].cur = capi[m].cur
      /\ \A x \in Machines \ {m} : capi'[x] = capi[x]
  BY <1>1, <1>2 DEF IInv, TypeOK, CapiState
<1>4. MachineKnows(m)'
  <2>1. node[m] = Has(m, capi[m].cur)
    BY <1>2 DEF Fits, MachineFits, Knows, MachineKnows, Done
  <2>2. \A r \in Replicas : configPatches[r][m] = None
    BY <1>2 DEF Knows, MachineKnows
  <2> QED
    BY <1>2, <1>3, <2>1, <2>2 DEF MachineKnows
<1>5. ASSUME NEW x \in Machines \ {m} PROVE MachineKnows(x)'
  BY <1>2, <1>3 DEF Knows, MachineKnows, Done, NewPatches
<1>6. ASSUME NEW c \in Calls PROVE CallKnows(c)'
  <2>1. call[c] # None => call[c].m \in Machines
    BY CallTyped DEF IInv
  <2> QED
    BY <1>2, <1>3, <2>1 DEF Knows, CallKnows
<1> QED
  BY <1>4, <1>5, <1>6 DEF Knows

\* CAPI's records change in nothing that is known of them.
LEMMA SameKnows ==
  ASSUME TypeOK, Knows, node' = node, configPatches' = configPatches,
         \A m \in Machines : /\ capi'[m].phase = capi[m].phase
                             /\ capi'[m].cur = capi[m].cur
                             /\ capi'[m].des = capi[m].des,
         \A c \in Calls :
           \/ call'[c] = call[c] \/ CallKnows(c)'
  PROVE  Knows'
<1>1. ASSUME NEW m \in Machines PROVE MachineKnows(m)'
  BY DEF Knows, MachineKnows, Done, NewPatches
<1>2. ASSUME NEW c \in Calls, call'[c] = call[c] PROVE CallKnows(c)'
  <2>1. call[c] # None => call[c].m \in Machines
    BY CallTyped
  <2> QED
    BY <1>2, <2>1 DEF Knows, CallKnows
<1> QED
  BY <1>1, <1>2 DEF Knows

LEMMA StartCallKnows ==
  ASSUME FullOnly, IInv, Fits, Knows, NEW c \in Calls, NEW r \in Replicas,
         NEW m \in Machines, StartCall(c, r, m)
  PROVE  Knows'
<1> DEFINE new == [pc |-> IF capi[m].phase = "check" THEN "can" ELSE "load",
                   r |-> r, m |-> m, cur |-> capi[m].cur, des |-> capi[m].des,
                   awaited |-> TRUE, loaded |-> FALSE, cfg |-> None, copy |-> None]
<1>1. /\ call' = [call EXCEPT ![c] = new]
      /\ capi' = [capi EXCEPT ![m].verdict = "none"]
      /\ configPatches' = configPatches /\ node' = node
  BY DEF StartCall, memory, talos
<1>2. /\ new.pc \in {"can", "load"} /\ new.m = m /\ new.cur = capi[m].cur
      /\ new.awaited
  OBVIOUS
<1> HIDE DEF new
<1>3. call'[c] = new /\ \A d \in Calls \ {c} : call'[d] = call[d]
  BY <1>1 DEF IInv, TypeOK
<1>4. \A x \in Machines : /\ capi'[x].phase = capi[x].phase
                           /\ capi'[x].cur = capi[x].cur
                           /\ capi'[x].des = capi[x].des
  BY <1>1 DEF IInv, TypeOK, CapiState
<1>5. CallKnows(c)'
  BY <1>2, <1>3, <1>4 DEF CallKnows
<1> QED
  BY <1>1, <1>3, <1>4, <1>5, SameKnows DEF IInv

LEMMA CrashKnows ==
  ASSUME FullOnly, IInv, Fits, Knows, NEW r \in Replicas, Crash(r)
  PROVE  Knows'
<1>1. Replicas = {r}
  BY DEF FullOnly, Calm
<1>2. \A c \in Calls : call'[c] = None
  BY <1>1, CallTyped DEF Crash, IInv
<1>3. \A m \in Machines, q \in Replicas : configPatches'[q][m] = None
  BY <1>1 DEF Crash, IInv, TypeOK
<1>4. capi' = capi /\ node' = node
  BY DEF Crash, talos
<1>5. ASSUME NEW m \in Machines PROVE MachineKnows(m)'
  BY <1>3, <1>4 DEF Knows, MachineKnows, Done
<1> QED
  BY <1>2, <1>5 DEF Knows, CallKnows

\* Every step keeps what is known, as long as the patches are not lost.
LEMMA FullNext ==
  ASSUME FullOnly, IInv, Fits, Knows, AllSafe, [Next]_vars
  PROVE  Fits' /\ Knows'
<1>0. TypeOK
  BY DEF IInv
<1>1. Fits'
  BY FullMergesRight, NextKeeps DEF FullOnly
<1>2. CASE \E m \in Machines, b \in Bootstraps :
             Roll(m, b) \/ Replan(m, b) \/ Recreate(m, b)
  BY <1>1, <1>2, RollKnows DEF Replan, Recreate, Disrupt, FullOnly, Calm
<1>3. CASE \E c \in Calls, r \in Replicas, m \in Machines : StartCall(c, r, m)
  BY <1>1, <1>3, StartCallKnows
<1>4. ASSUME NEW c \in Calls, Abandon(c) PROVE Knows'
  BY <1>4 DEF Abandon, Disrupt, FullOnly
<1>5. ASSUME NEW c \in Calls, Handler(c) PROVE Knows'
  BY <1>5, CanUpdateStepKnows, UpdateStepKnows DEF Handler
<1>6. CASE \E r \in Replicas : Crash(r)
  BY <1>1, <1>6, CrashKnows
<1>7. CASE Tick \/ UNCHANGED vars
  <2>1. /\ node' = node /\ configPatches' = configPatches /\ capi' = capi
        /\ call' = call
    BY <1>7 DEF Tick, vars, memory, talos
  <2> QED
    BY <1>0, <1>1, <2>1, SameKnows
<1> QED
  BY <1>1, <1>2, <1>3, <1>4, <1>5, <1>6, <1>7 DEF Next

-----------------------------------------------------------------------------
(***************************************************************************)
(* What the invariant says of the system.                                  *)
(***************************************************************************)
LEMMA KnowsAllOrNothing ==
  ASSUME FullOnly, TypeOK, Knows
  PROVE  AllOrNothing
<1> SUFFICES ASSUME NEW m \in Machines
             PROVE  node[m] \in {Patched(DayZero[m], Target(capi[m].cur)),
                                 Patched(DayZero[m], Target(capi[m].des))}
  BY DEF AllOrNothing
<1>1. capi[m].cur \in Bootstraps /\ capi[m].des \in Bootstraps
  BY DEF TypeOK, CapiState
<1>2. Target(capi[m].cur) = capi[m].cur.data /\ Target(capi[m].des) = capi[m].des.data
  BY <1>1, FullTyped
<1> QED
  BY <1>2 DEF Knows, MachineKnows, Done, Has

\* A call that has applied its config finds its node with the desired one.
LEMMA CleanupIsDone ==
  ASSUME FullOnly, IInv, Fits, Knows, NEW c \in Calls, call[c] # None,
         call[c].pc \in {"cleanup", "remove"}
  PROVE  Done(call[c].m)
<1>1. PICK m \in Machines : call[c].m = m
  BY Context
<1>2. /\ MachineKnows(m) /\ call[c].des = capi[m].des
      /\ capi[m].cur \in Bootstraps /\ capi[m].des \in Bootstraps
  BY <1>1, Context
<1>3. Converged(node[m], capi[m].des)
  BY <1>1, <1>2 DEF Fits, CallFits
<1> QED
  BY <1>1, <1>2, <1>3, ConvergedHas DEF MachineKnows, Done
=============================================================================
