-------------------------- MODULE Contention_proofs --------------------------
(***************************************************************************)
(* Updates of any number of Machines at once, by any number of concurrent  *)
(* calls, whose BootstrapConfigs have full machine configs.  Calls of      *)
(* different Machines write one ConfigMap, refuse each other's writes, and *)
(* may leave it without an entry, or with one of an earlier update.  None  *)
(* of that matters as long as the patches in memory are not lost: that is, *)
(* without restarts, and without a node that refuses a config until its    *)
(* update has timed out.                                                   *)
(***************************************************************************)
EXTENDS FullFormat_proofs

\* The bootstrap configs differ in nothing that a control plane node refuses.
NoneRefused ==
  \/ ControlPlane = {}
  \/ \A b, d \in Bootstraps : \A f \in RebootFields : b.data[f] = d.data[f]

Undisturbed ==
  /\ FullOnly
  /\ {"crash", "apply"} \cap Faults = {}
  /\ NoneRefused

-----------------------------------------------------------------------------
(***************************************************************************)
(* The invariant.                                                          *)
(***************************************************************************)
Stored(m) == \A r \in Replicas : configPatches[r][m] # None

\* Patches are stored until the node has the config, and nothing is recorded of
\* an update before that.
MachineStored(m) ==
  /\ (capi[m].phase = "update" /\ ~Done(m)) => Stored(m)
  /\ \A r \in Replicas :
       state[r][m] # None => capi[m].phase = "update" /\ Done(m)

\* A claim stands on patches that are stored.
CallStored(c) ==
  (call[c] # None /\ call[c].pc \in {"persist", "create", "put"})
    => Stored(call[c].m)

AllStored ==
  /\ \A c \in Calls : CallStored(c)
  /\ \A m \in Machines : MachineStored(m)

-----------------------------------------------------------------------------
(***************************************************************************)
(* Lemmas.                                                                 *)
(***************************************************************************)
LEMMA StoredIsSafe ==
  ASSUME AllStored
  PROVE  AllSafe
  BY DEF AllStored, MachineStored, Stored, AllSafe, Safe

\* Every node takes the desired config.
LEMMA NoRejection ==
  ASSUME Undisturbed, IInv, Fits, Knows, NEW c \in Calls
  PROVE  ~ApplyRejected(c)
<1> SUFFICES ASSUME ApplyRejected(c) PROVE FALSE
  OBVIOUS
<1>1. call[c] # None /\ call[c].pc = "apply" /\ ~Acceptable(call[c].m, call[c].cfg)
  BY Context DEF ApplyRejected, At, MayFail, Undisturbed
<1> DEFINE m == call[c].m
<1>2. /\ m \in Machines /\ MachineKnows(m) /\ CallKnows(c)
      /\ call[c].des = capi[m].des /\ call[c].des \in Bootstraps
      /\ capi[m].cur \in Bootstraps
  BY <1>1, Context DEF Undisturbed
<1>3. PICK b \in Bootstraps : node[m] = Has(m, b)
  BY <1>2 DEF MachineKnows, Done
<1>4. call[c].cfg = Has(m, call[c].des)
  BY <1>1, <1>2 DEF CallKnows
<1>5. m \in ControlPlane /\ NeedsReboot(node[m], call[c].cfg)
  BY <1>1 DEF Acceptable, ApplyMode
<1>6. PICK f \in RebootFields : Has(m, b)[f] # Has(m, call[c].des)[f]
  BY <1>3, <1>4, <1>5 DEF NeedsReboot
<1>7. f \in TemplateFields
  BY ConfigAssumption
<1>8. /\ b.data \in [TemplateFields -> Values]
      /\ call[c].des.data \in [TemplateFields -> Values]
  BY <1>2, FullTyped DEF Template, Undisturbed
<1>9. Has(m, b)[f] = b.data[f] /\ Has(m, call[c].des)[f] = call[c].des.data[f]
  BY <1>7, <1>8 DEF Has, Patched, Fields
<1>10. b.data[f] = call[c].des.data[f]
  BY <1>2, <1>5 DEF Undisturbed, NoneRefused
<1> QED
  BY <1>6, <1>9, <1>10

\* A step of c leaves the other calls and Machines as they are.
LEMMA StoredFrame ==
  ASSUME TypeOK, Fits, AllStored, NEW c \in Calls, call[c] # None,
         NEW m \in Machines, call[c].m = m,
         \A d \in Calls \ {c} : call'[d] = call[d],
         \A x \in Machines \ {m} :
           /\ capi'[x] = capi[x] /\ node'[x] = node[x]
           /\ \A r \in Replicas : /\ configPatches'[r][x] = configPatches[r][x]
                                  /\ state'[r][x] = state[r][x],
         CallStored(c)', MachineStored(m)'
  PROVE  AllStored'
<1>1. ASSUME NEW d \in Calls \ {c} PROVE CallStored(d)'
  <2>1. CASE call[d] = None
    BY <2>1 DEF CallStored
  <2>2. CASE call[d] # None
    <3>1. call[d].m \in Machines \ {m}
      BY <2>2, CallTyped DEF Fits, OneCall
    <3>2. CallStored(d)
      BY DEF AllStored
    <3> QED
      BY <2>2, <3>1, <3>2 DEF CallStored, Stored
  <2> QED
    BY <2>1, <2>2
<1>2. ASSUME NEW x \in Machines \ {m} PROVE MachineStored(x)'
  <2>1. MachineStored(x)
    BY DEF AllStored
  <2> QED
    BY <2>1 DEF MachineStored, Stored, Done
<1> QED
  BY <1>1, <1>2 DEF AllStored

\* How a step changes the memory of a call's replica: for the call's Machine.
OwnMemory(c) ==
  /\ \E s : state' = [state EXCEPT ![call[c].r][call[c].m] = s]
  /\ \E p : configPatches' = [configPatches EXCEPT ![call[c].r][call[c].m] = p]

\* A step of c that leaves its node with the desired config, in the update.
LEMMA DoneStored ==
  ASSUME Undisturbed, IInv, Fits, Knows, AllStored, NEW c \in Calls, call[c] # None,
         NEW m \in Machines, call[c].m = m,
         \A d \in Calls \ {c} : call'[d] = call[d],
         \A x \in Machines \ {m} : capi'[x] = capi[x] /\ node'[x] = node[x],
         call'[c] = None \/ call'[c].pc \in UpdateSteps,
         OwnMemory(c), Done(m)', capi'[m].phase = "update"
  PROVE  AllStored'
<1>1. \A x \in Machines \ {m}, r \in Replicas :
        configPatches'[r][x] = configPatches[r][x] /\ state'[r][x] = state[r][x]
  BY Context DEF OwnMemory, IInv, TypeOK, Undisturbed
<1>2. CallStored(c)'
  BY DEF CallStored, UpdateSteps
<1>3. MachineStored(m)'
  BY DEF MachineStored
<1> QED
  BY <1>1, <1>2, <1>3, StoredFrame DEF IInv

\* A step of c that changes at most the call, and stores patches at most.
LEMMA PlainStored ==
  ASSUME Undisturbed, IInv, Fits, Knows, AllStored, NEW c \in Calls, call[c] # None,
         NEW m \in Machines, call[c].m = m,
         \A d \in Calls \ {c} : call'[d] = call[d],
         \A x \in Machines \ {m} : capi'[x] = capi[x],
         capi'[m].des = capi[m].des,
         capi'[m].phase # capi[m].phase => (capi'[m].phase = "update" /\ Stored(m)),
         node' = node, state' = state,
         \/ configPatches' = configPatches
         \/ \E p \in Patch :
              configPatches' = [configPatches EXCEPT ![call[c].r][m] = p],
         (call'[c] # None /\ call'[c].pc \in {"persist", "create", "put"}) =>
           call'[c].m = m /\ Stored(m)'
  PROVE  AllStored'
<1>0. call[c].r \in Replicas /\ Replicas = {call[c].r} /\ MachineStored(m)
  BY Context DEF Undisturbed, AllStored
<1>1. /\ \A x \in Machines \ {m}, r \in Replicas :
           configPatches'[r][x] = configPatches[r][x]
      /\ Stored(m) => Stored(m)'
  <2>1. CASE configPatches' = configPatches
    BY <2>1 DEF Stored
  <2>2. ASSUME NEW p \in Patch,
               configPatches' = [configPatches EXCEPT ![call[c].r][m] = p]
        PROVE  /\ \A x \in Machines \ {m}, r \in Replicas :
                    configPatches'[r][x] = configPatches[r][x]
               /\ Stored(m)'
    <3>1. configPatches \in [Replicas -> [Machines -> Patch \cup {None}]]
      BY DEF IInv, TypeOK
    <3>2. p # None
      BY NoneAssumption
    <3> QED
      BY <1>0, <2>2, <3>1, <3>2 DEF Stored
  <2> QED
    BY <2>1, <2>2
<1>2. CallStored(c)'
  BY DEF CallStored
<1>3. Done(m)' = Done(m)
  BY DEF Done
<1>4. MachineStored(m)'
  BY <1>0, <1>1, <1>3 DEF MachineStored
<1> QED
  BY <1>1, <1>2, <1>4, StoredFrame DEF IInv

-----------------------------------------------------------------------------
(***************************************************************************)
(* The steps.                                                              *)
(***************************************************************************)
LEMMA CanUpdateStepStored ==
  ASSUME Undisturbed, IInv, Fits, Knows, AllStored, NEW c \in Calls, CanUpdateStep(c)
  PROVE  AllStored'
<1>0. call[c] # None
  BY DEF At, CanUpdateStep, ClaimFails, ClaimOnly, ClaimAndStore, PersistGet,
         PersistFails, PersistCreate, PersistUpdate
<1> PICK m \in Machines : call[c].m = m
  BY <1>0, Context DEF Undisturbed
<1>00. /\ TypeOK /\ call[c] \in Call /\ call[c].r \in Replicas
       /\ call[c].cur \in Bootstraps /\ call[c].des \in Bootstraps
       /\ Replicas = {call[c].r} /\ CallStored(c)
  BY <1>0, Context, CallTyped DEF Undisturbed, AllStored, IInv
<1>1. CASE ClaimAndStore(c)
  <2> DEFINE new == [call[c] EXCEPT !.pc = "persist"]
             p == Diff(call[c].cur.data, call[c].des.data)
  <2>1. p \in Patch
    BY <1>00, FullTyped, DiffTyped DEF Undisturbed
  <2>2. new.pc = "persist" /\ new.m = m
    BY <1>00 DEF Call
  <2>3. /\ call' = [call EXCEPT ![c] = new] /\ capi' = capi /\ node' = node
        /\ configPatches' = [configPatches EXCEPT ![call[c].r][m] = p]
        /\ state' = state
    BY <1>1 DEF ClaimAndStore, Goto, talos
  <2> HIDE DEF new, p
  <2>4. call'[c] = new /\ \A d \in Calls \ {c} : call'[d] = call[d]
    BY <2>3 DEF IInv, TypeOK
  <2>5. Stored(m)'
    <3>1. configPatches \in [Replicas -> [Machines -> Patch \cup {None}]]
      BY DEF IInv, TypeOK
    <3>2. p # None
      BY <2>1, NoneAssumption
    <3> QED
      BY <1>00, <2>3, <3>1, <3>2 DEF Stored
  <2> QED
    BY <1>0, <1>00, <2>1, <2>2, <2>3, <2>4, <2>5, PlainStored
<1>2. CASE PersistGet(c)
  <2> DEFINE new == [call[c] EXCEPT
                       !.pc = IF cache.exists THEN "put" ELSE "create",
                       !.copy = IF cache.exists THEN cache.data ELSE None]
  <2>1. new.m = m
    BY <1>00 DEF Call
  <2>2. /\ call' = [call EXCEPT ![c] = new] /\ capi' = capi /\ node' = node
        /\ configPatches' = configPatches /\ state' = state /\ call[c].pc = "persist"
    BY <1>2 DEF PersistGet, memory, talos, At
  <2> HIDE DEF new
  <2>3. call'[c] = new /\ \A d \in Calls \ {c} : call'[d] = call[d]
    BY <2>2 DEF IInv, TypeOK
  <2>4. Stored(m)'
    BY <1>0, <1>00, <2>2 DEF CallStored, Stored
  <2> QED
    BY <1>0, <1>00, <2>1, <2>2, <2>3, <2>4, PlainStored
<1>3. CASE ClaimFails(c) \/ ClaimOnly(c)
  BY <1>00, <1>3, FullTyped DEF ClaimFails, ClaimOnly, Undisturbed
<1>4. CASE PersistFails(c) \/ PersistCreate(c) \/ PersistUpdate(c)
  <2>1. /\ Reply(c, "claimed") /\ configPatches' = configPatches /\ state' = state
        /\ node' = node /\ call[c].pc \in {"persist", "create", "put"}
    BY <1>4 DEF PersistFails, PersistCreate, PersistUpdate, memory, talos, At
  <2>2. /\ call'[c] = None /\ \A d \in Calls \ {c} : call'[d] = call[d]
        /\ \A x \in Machines \ {m} : capi'[x] = capi[x]
        /\ capi'[m].des = capi[m].des /\ capi'[m].phase \in {capi[m].phase, "update"}
    BY <1>0, <1>00, <2>1, ReplyEffect
  <2>3. Stored(m)
    BY <1>0, <1>00, <2>1 DEF CallStored
  <2> QED
    BY <1>0, <1>00, <2>1, <2>2, <2>3, PlainStored
<1> QED
  BY <1>1, <1>2, <1>3, <1>4 DEF CanUpdateStep

LEMMA UpdateStepStored ==
  ASSUME Undisturbed, IInv, Fits, Knows, AllStored, NEW c \in Calls, UpdateStep(c)
  PROVE  AllStored'
<1>0. call[c] # None /\ call[c].pc \in UpdateSteps
  BY DEF At, UpdateSteps, UpdateStep, NoAddress, TimesOut, Completes, Settles, Proceeds,
         ReadFails, ReadLive, MergeStored, NothingStored, MergeRecovered,
         Direct, DirectFails, NothingToApply, MergeDirect, MergeFails,
         NodeTakes, ApplyAccepted, ApplyUnacked, ApplyRejected,
         CleanupNotNeeded, CleanupGet, CleanupFails, CleanupUpdate
<1> PICK m \in Machines, r \in Replicas : call[c].m = m /\ call[c].r = r
  BY <1>0, Context DEF Undisturbed
<1>00. /\ TypeOK /\ call[c] \in Call
       /\ Replicas = {r} /\ call[c].des = capi[m].des /\ CallKnows(c)
       /\ capi[m].phase = "update" /\ MachineStored(m) /\ call[c].des \in Bootstraps
  BY <1>0, Context, CallTyped DEF Undisturbed, AllStored, IInv
<1>000. /\ node \in [Machines -> Config]
        /\ configPatches \in [Replicas -> [Machines -> Patch \cup {None}]]
        /\ state \in [Replicas -> [Machines -> UpdateState \cup {None}]]
        /\ configPatches = [configPatches EXCEPT ![r][m] = configPatches[r][m]]
        /\ state = [state EXCEPT ![r][m] = state[r][m]]
  BY <1>00 DEF TypeOK
\* Replies with which nothing else changes.
<1>1. CASE NoAddress(c) \/ Settles(c) \/ ReadFails(c) \/ DirectFails(c)
             \/ MergeFails(c)
  <2>1. /\ Reply(c, "failure") \/ Reply(c, "retry")
        /\ node' = node /\ configPatches' = configPatches /\ state' = state
    BY <1>1 DEF NoAddress, Settles, ReadFails, DirectFails, MergeFails, memory, talos
  <2>2. /\ call'[c] = None /\ \A d \in Calls \ {c} : call'[d] = call[d]
        /\ \A x \in Machines \ {m} : capi'[x] = capi[x]
        /\ capi'[m].des = capi[m].des /\ capi'[m].phase = capi[m].phase
    BY <1>0, <1>00, <2>1, ReplyEffect
  <2> QED
    BY <1>0, <1>00, <2>1, <2>2, PlainStored
\* Replies once the node has the desired config.
<1>2. CASE TimesOut(c) \/ ApplyUnacked(c) \/ NothingToApply(c)
             \/ CleanupNotNeeded(c) \/ CleanupFails(c) \/ CleanupUpdate(c)
  <2>1. Reply(c, "failure") \/ Reply(c, "retry")
    BY <1>2 DEF TimesOut, ApplyUnacked, NothingToApply, CleanupNotNeeded,
                CleanupFails, CleanupUpdate, RetryLater, Finish
  <2>2. OwnMemory(c)
    <3>1. \/ state' = state
          \/ \E s : state' = [state EXCEPT ![r][m] = s]
      BY <1>2 DEF TimesOut, EndUpdate, Deleted, ApplyUnacked, NothingToApply,
                  CleanupNotNeeded, CleanupFails, CleanupUpdate, RetryLater, Finish
    <3>2. \/ configPatches' = configPatches
          \/ \E p : configPatches' = [configPatches EXCEPT ![r][m] = p]
      BY <1>2 DEF TimesOut, EndUpdate, Deleted, ApplyUnacked, NothingToApply,
                  CleanupNotNeeded, CleanupFails, CleanupUpdate, DropPatches
    <3> QED
      BY <1>000, <3>1, <3>2 DEF OwnMemory
  <2>3. Done(m)' /\ \A x \in Machines \ {m} : node'[x] = node[x]
    <3>1. CASE ApplyUnacked(c)
      <4>1. node' = [node EXCEPT ![m] = call[c].cfg] /\ At(c, "apply")
        BY <3>1 DEF ApplyUnacked, NodeTakes
      <4>2. capi'[m].des = capi[m].des
        BY <1>0, <1>00, <2>1, ReplyEffect
      <4> QED
        BY <1>00, <1>000, <4>1, <4>2 DEF CallKnows, At, Done
    <3>2. CASE ~ApplyUnacked(c)
      <4>1. Done(m)
        <5>1. CASE TimesOut(c)
          BY <1>00, <5>1 DEF TimesOut, TimedOut, Mine, MachineStored
        <5>2. CASE NothingToApply(c)
          BY <5>2, StoredIsSafe, DirectIsDone DEF NothingToApply, Undisturbed
        <5>3. CASE CleanupNotNeeded(c) \/ CleanupFails(c) \/ CleanupUpdate(c)
          BY <1>0, <5>3, CleanupIsDone
            DEF CleanupNotNeeded, CleanupFails, CleanupUpdate, At, Undisturbed
        <5> QED
          BY <1>2, <3>2, <5>1, <5>2, <5>3
      <4>2. node' = node
        BY <1>2, <3>2 DEF TimesOut, NothingToApply, CleanupNotNeeded, CleanupFails,
                          CleanupUpdate, talos
      <4>3. capi'[m].des = capi[m].des
        BY <1>0, <1>00, <2>1, ReplyEffect
      <4> QED
        BY <4>1, <4>2, <4>3 DEF Done
    <3> QED
      BY <3>1, <3>2
  <2>4. /\ call'[c] = None /\ \A d \in Calls \ {c} : call'[d] = call[d]
        /\ \A x \in Machines \ {m} : capi'[x] = capi[x]
        /\ capi'[m].phase = "update"
    BY <1>0, <1>00, <2>1, ReplyEffect
  <2> QED
    BY <1>0, <1>00, <2>2, <2>3, <2>4, DoneStored
\* Steps with which at most patches are stored.
<1>3. CASE Proceeds(c) \/ ReadLive(c) \/ NothingStored(c) \/ MergeStored(c)
             \/ MergeRecovered(c) \/ MergeDirect(c)
  <2>1. /\ capi' = capi /\ node' = node /\ state' = state
        /\ \A d \in Calls \ {c} : call'[d] = call[d]
    BY <1>00, <1>3 DEF Proceeds, ReadLive, NothingStored, MergeStored, MergeRecovered,
                       MergeDirect, Merge, Goto, memory, talos, TypeOK
  <2>2. call'[c].pc \in {"read", "merge", "recover", "apply"}
    BY <1>00, <1>3 DEF Proceeds, ReadLive, NothingStored, MergeStored, MergeRecovered,
                       MergeDirect, Merge, Goto, TypeOK, Call
  <2>3. \/ configPatches' = configPatches
        \/ \E p \in Patch : configPatches' = [configPatches EXCEPT ![r][m] = p]
    <3>1. CASE MergeRecovered(c)
      <4> DEFINE p == Diff(cache.data[m].data, call[c].des.data)
      <4>1. p \in Patch
        BY <1>0, <1>00, <3>1, CallTyped, ExtractableTyped, DiffTyped
          DEF MergeRecovered, Recoverable
      <4> QED
        BY <3>1, <4>1 DEF MergeRecovered
    <3>2. CASE ~MergeRecovered(c)
      BY <1>3, <3>2 DEF Proceeds, ReadLive, NothingStored, MergeStored, MergeDirect,
                        memory
    <3> QED
      BY <3>1, <3>2
  <2> QED
    BY <1>0, <1>00, <2>1, <2>2, <2>3, PlainStored
\* Steps of a call that goes on with the desired config on its node.
<1>4. CASE ApplyAccepted(c) \/ CleanupGet(c)
  <2>1. /\ capi' = capi /\ state' = state
        /\ \A d \in Calls \ {c} : call'[d] = call[d]
        /\ call'[c].pc \in UpdateSteps
    BY <1>00, <1>4 DEF ApplyAccepted, CleanupGet, Goto, memory, TypeOK, Call, UpdateSteps
  <2>2. OwnMemory(c)
    BY <1>4, <1>000 DEF ApplyAccepted, CleanupGet, DropPatches, Deleted, memory, OwnMemory
  <2>3. Done(m)' /\ \A x \in Machines \ {m} : node'[x] = node[x]
    <3>1. CASE ApplyAccepted(c)
      BY <1>00, <1>000, <2>1, <3>1 DEF ApplyAccepted, NodeTakes, At, CallKnows, Done
    <3>2. CASE CleanupGet(c)
      <4>1. Done(m)
        BY <1>0, <3>2, CleanupIsDone DEF CleanupGet, At, Undisturbed
      <4> QED
        BY <2>1, <3>2, <4>1 DEF CleanupGet, talos, Done
    <3> QED
      BY <1>4, <3>1, <3>2
  <2> QED
    BY <1>0, <1>00, <2>1, <2>2, <2>3, DoneStored
<1>5. CASE ApplyRejected(c)
  BY <1>5, NoRejection
<1>6. CASE Completes(c)
  <2>1. /\ Reply(c, "done") /\ node' = node /\ Mine(c) # None
        /\ state' = Deleted(state, r, m)
        /\ configPatches' = Deleted(configPatches, r, m)
    BY <1>6 DEF Completes, EndUpdate, Settled, talos
  <2>2. /\ \A q \in Replicas : state'[q][m] = None
        /\ \A x \in Machines \ {m}, q \in Replicas :
             state'[q][x] = state[q][x] /\ configPatches'[q][x] = configPatches[q][x]
    BY <1>00, <1>000, <2>1 DEF Deleted
  <2>3. /\ call'[c] = None /\ \A d \in Calls \ {c} : call'[d] = call[d]
        /\ \A x \in Machines \ {m} : capi'[x] = capi[x]
        /\ capi'[m].des = capi[m].des
    BY <1>0, <1>00, <2>1, ReplyEffect
  <2>4. Done(m)
    BY <1>00, <2>1 DEF Mine, MachineStored
  <2>5. CallStored(c)' /\ MachineStored(m)'
    BY <2>1, <2>2, <2>3, <2>4 DEF CallStored, MachineStored, Done
  <2> QED
    BY <1>0, <1>00, <2>1, <2>2, <2>3, <2>5, StoredFrame
<1> QED
  BY <1>1, <1>2, <1>3, <1>4, <1>5, <1>6 DEF UpdateStep

LEMMA InitStored == Init => AllStored
  BY DEF Init, AllStored, CallStored, MachineStored

\* A new desired state finds no record of an earlier update.
LEMMA RollStored ==
  ASSUME Undisturbed, IInv, Fits, Knows, AllStored, NEW m \in Machines,
         NEW b \in Bootstraps, Roll(m, b)
  PROVE  AllStored'
<1>1. capi' = [capi EXCEPT ![m].phase = "check", ![m].des = b]
  BY DEF Roll, Undisturbed, FullOnly
<1>2. /\ capi[m].phase = "idle" /\ capi[m] \in CapiState
      /\ call' = call /\ configPatches' = configPatches /\ node' = node
      /\ state' = state
  BY DEF Roll, IInv, TypeOK, memory, talos
<1>3. /\ capi'[m].phase = "check" /\ \A x \in Machines \ {m} : capi'[x] = capi[x]
  BY <1>1, <1>2 DEF IInv, TypeOK, CapiState
<1>4. MachineStored(m)'
  BY <1>2, <1>3 DEF Fits, MachineFits, MachineStored
<1>5. ASSUME NEW x \in Machines \ {m} PROVE MachineStored(x)'
  BY <1>2, <1>3 DEF AllStored, MachineStored, Stored, Done
<1>6. ASSUME NEW c \in Calls PROVE CallStored(c)'
  BY <1>2 DEF AllStored, CallStored, Stored
<1> QED
  BY <1>4, <1>5, <1>6 DEF AllStored

\* CAPI's records change in nothing that matters, and memory not at all, but
\* for the time since an attempt.
LEMMA SameStored ==
  ASSUME AllStored, node' = node, configPatches' = configPatches,
         \A m \in Machines :
           /\ capi'[m].phase = capi[m].phase /\ capi'[m].des = capi[m].des
           /\ \A r \in Replicas : state[r][m] = None => state'[r][m] = None,
         \A c \in Calls :
           \/ call'[c] = call[c] \/ CallStored(c)'
  PROVE  AllStored'
<1>1. ASSUME NEW m \in Machines PROVE MachineStored(m)'
  BY DEF AllStored, MachineStored, Stored, Done
<1>2. ASSUME NEW c \in Calls, call'[c] = call[c] PROVE CallStored(c)'
  BY <1>2 DEF AllStored, CallStored, Stored
<1> QED
  BY <1>1, <1>2 DEF AllStored

LEMMA StartCallStored ==
  ASSUME Undisturbed, IInv, AllStored, NEW c \in Calls, NEW r \in Replicas,
         NEW m \in Machines, StartCall(c, r, m)
  PROVE  AllStored'
<1> DEFINE new == [pc |-> IF capi[m].phase = "check" THEN "can" ELSE "load",
                   r |-> r, m |-> m, cur |-> capi[m].cur, des |-> capi[m].des,
                   awaited |-> TRUE, loaded |-> FALSE, cfg |-> None, copy |-> None]
<1>1. /\ call' = [call EXCEPT ![c] = new]
      /\ capi' = [capi EXCEPT ![m].verdict = "none"]
      /\ configPatches' = configPatches /\ node' = node /\ state' = state
  BY DEF StartCall, memory, talos
<1>2. new.pc \in {"can", "load"}
  OBVIOUS
<1> HIDE DEF new
<1>3. call'[c] = new /\ \A d \in Calls \ {c} : call'[d] = call[d]
  BY <1>1 DEF IInv, TypeOK
<1>4. \A x \in Machines : /\ capi'[x].phase = capi[x].phase
                           /\ capi'[x].des = capi[x].des
  BY <1>1 DEF IInv, TypeOK, CapiState
<1>5. CallStored(c)'
  BY <1>2, <1>3 DEF CallStored
<1> QED
  BY <1>1, <1>3, <1>4, <1>5, SameStored

LEMMA TickStored ==
  ASSUME IInv, AllStored, Tick
  PROVE  AllStored'
<1>1. /\ call' = call /\ capi' = capi /\ node' = node
      /\ configPatches' = configPatches
      /\ state' = [r \in Replicas |-> [m \in Machines |-> Older(state[r][m])]]
  BY DEF Tick, talos
<1>2. \A r \in Replicas, m \in Machines : state[r][m] = None => state'[r][m] = None
  BY <1>1 DEF Older
<1> QED
  BY <1>1, <1>2, SameStored

LEMMA NextStored ==
  ASSUME Undisturbed, IInv, Fits, Knows, AllStored, [Next]_vars
  PROVE  AllStored'
<1>1. CASE \E m \in Machines, b \in Bootstraps :
             Roll(m, b) \/ Replan(m, b) \/ Recreate(m, b)
  BY <1>1, RollStored DEF Replan, Recreate, Disrupt, Undisturbed, FullOnly, Calm
<1>2. CASE \E c \in Calls, r \in Replicas, m \in Machines : StartCall(c, r, m)
  BY <1>2, StartCallStored
<1>3. ASSUME NEW c \in Calls, Abandon(c) PROVE AllStored'
  BY <1>3 DEF Abandon, Disrupt, Undisturbed, FullOnly
<1>4. ASSUME NEW c \in Calls, Handler(c) PROVE AllStored'
  BY <1>4, CanUpdateStepStored, UpdateStepStored DEF Handler
<1>5. CASE \E r \in Replicas : Crash(r)
  BY <1>5 DEF Crash, Disrupt, Undisturbed
<1>6. CASE Tick
  BY <1>6, TickStored
<1>7. CASE UNCHANGED vars
  BY <1>7, SameStored DEF vars, memory, talos
<1> QED
  BY <1>1, <1>2, <1>3, <1>4, <1>5, <1>6, <1>7 DEF Next

-----------------------------------------------------------------------------
(***************************************************************************)
(* The theorems.                                                           *)
(***************************************************************************)
LEMMA ContentionInvariance ==
  ASSUME Undisturbed
  PROVE  Spec => [](TypeOK /\ Fits /\ Knows /\ AllStored)
<1>0. FullOnly
  BY DEF Undisturbed
<1>1. Init => TypeOK /\ Fits /\ Knows /\ AllStored
  BY <1>0, InitInv, InitFits, InitKnows, InitStored DEF IInv
<1>2. /\ IInv /\ (TypeOK /\ Fits /\ Knows /\ AllStored)
      /\ IInv' /\ [Next]_vars
      => (TypeOK /\ Fits /\ Knows /\ AllStored)'
  <2> SUFFICES ASSUME IInv, Fits, Knows, AllStored, IInv', [Next]_vars
               PROVE  (TypeOK /\ Fits /\ Knows /\ AllStored)'
    OBVIOUS
  <2>1. Fits' /\ Knows'
    BY <1>0, StoredIsSafe, FullNext
  <2>2. AllStored'
    BY NextStored
  <2> QED
    BY <2>1, <2>2 DEF IInv
<1> QED
  BY <1>1, <1>2, Invariance, PTL DEF Spec

\* However the calls of different Machines interleave, and whichever of their
\* writes of the shared ConfigMap are refused or fail, DoUpdateMachine reports
\* an update complete only when its node has the config.
THEOREM ContentionSuccess ==
  ASSUME Undisturbed
  PROVE  Spec => []NoFalseSuccess
<1>1. Fits => NoFalseSuccess
  BY DEF Fits, MachineFits, NoFalseSuccess
<1> QED
  BY <1>1, ContentionInvariance, PTL

\* Under the same conditions the applied flag is true of the update in progress.
THEOREM ContentionFlag ==
  ASSUME Undisturbed
  PROVE  Spec => []AppliedIsTrue
<1>1. Fits => AppliedIsTrue
  BY DEF Fits, MachineFits, AppliedIsTrue
<1> QED
  BY <1>1, ContentionInvariance, PTL

\* Under the same conditions a node never has a part of a config, although the
\* ConfigMap may hold an entry of an earlier update that patches are recovered
\* from.
THEOREM ContentionAllOrNothing ==
  ASSUME Undisturbed
  PROVE  Spec => []AllOrNothing
<1>1. FullOnly
  BY DEF Undisturbed
<1>2. TypeOK /\ Knows => AllOrNothing
  BY <1>1, KnowsAllOrNothing
<1> QED
  BY <1>2, ContentionInvariance, PTL

\* Under the same conditions the handlers keep the contract with CAPI.
THEOREM ContentionImplements ==
  ASSUME Undisturbed
  PROVE  Spec => ImplementsContract
<1>1. Calm
  BY DEF Undisturbed, FullOnly
<1> QED
  BY <1>1, ContentionInvariance, FitsImplements, PTL
=============================================================================
