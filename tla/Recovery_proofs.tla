--------------------------- MODULE Recovery_proofs ---------------------------
(***************************************************************************)
(* Updates that survive restarts, for BootstrapConfigs with full machine   *)
(* configs.  The patches in memory may be lost at any moment, and with     *)
(* them the record of what has been done; what is left is the entry in the *)
(* ConfigMap.  It is there from the claim until the config is applied, and *)
(* it is the config the update started from: an entry that outlived an     *)
(* earlier update, because its cleanup failed, is overwritten by the claim.*)
(*                                                                         *)
(* That takes entries that are written and found when they should be: no   *)
(* failing persist or recovery, and no handler that loses a race for the   *)
(* ConfigMap, because one Machine at most is updated at a time, or one     *)
(* call at most is handled at a time.                                      *)
(***************************************************************************)
EXTENDS FullFormat_proofs

OneAtATime ==
  \/ \E m \in Machines : Machines = {m}
  \/ \E c \in Calls : Calls = {c}

Recorded ==
  /\ FullOnly
  /\ {"persist", "recover"} \cap Faults = {}
  /\ OneAtATime

-----------------------------------------------------------------------------
(***************************************************************************)
(* The invariant.                                                          *)
(***************************************************************************)
\* From the claim on an entry is of the update in progress, and it stays until
\* the node has the config.  When cleanups succeed, there is none left once the
\* config is recorded as applied.
MachineCached(m) ==
  /\ capi[m].phase = "update" => cache.data[m] \in {None, capi[m].cur}
  /\ (capi[m].phase = "update" /\ ~Done(m)) => cache.data[m] = capi[m].cur
  /\ "cleanup" \notin Faults =>
       /\ cache.data[m] \in {None, capi[m].cur}
       /\ capi[m].phase = "idle" => cache.data[m] = None
       /\ \A r \in Replicas :
            (state[r][m] # None /\ state[r][m].applied) => cache.data[m] = None

\* No other call has written the ConfigMap since this one read it.
CallCached(c) ==
  call[c] # None =>
    /\ call[c].pc = "create" => ~cache.exists
    /\ call[c].pc \in {"put", "remove"} => HasLatest(c)

AllCached ==
  /\ \A c \in Calls : CallCached(c)
  /\ \A m \in Machines : MachineCached(m)

-----------------------------------------------------------------------------
(***************************************************************************)
(* Lemmas.                                                                 *)
(***************************************************************************)
LEMMA Alone ==
  ASSUME Recorded, TypeOK, Fits, NEW c \in Calls, NEW d \in Calls,
         call[c] # None, call[d] # None
  PROVE  c = d
<1>1. call[c].m \in Machines /\ call[d].m \in Machines
  BY CallTyped
<1>2. CASE \E m \in Machines : Machines = {m}
  BY <1>1, <1>2 DEF Fits, OneCall
<1>3. CASE \E x \in Calls : Calls = {x}
  BY <1>3
<1> QED
  BY <1>2, <1>3 DEF Recorded, OneAtATime

LEMMA CachedIsSafe ==
  ASSUME Recorded, AllCached
  PROVE  AllSafe
  BY DEF Recorded, AllCached, MachineCached, AllSafe, Safe

\* The strategic patches are merged when there is no entry, and only then.
LEMMA DirectHasNoEntry ==
  ASSUME Recorded, IInv, Fits, Knows, AllCached, NEW c \in Calls, Direct(c),
         NEW m \in Machines, call[c].m = m
  PROVE  cache.data[m] = None
<1>1. call[c] # None /\ ~Recoverable(m, call[c].des) /\ call[c].pc = "recover"
  BY Context DEF Direct, At, MayFail, Recorded
<1>2. /\ capi[m].cur \in Bootstraps /\ call[c].des \in Bootstraps
      /\ capi[m].phase = "update"
  BY <1>1, Context DEF Recorded, UpdateSteps
<1>3. Extractable(capi[m].cur) /\ Extractable(call[c].des)
  BY <1>2, FullTyped DEF Recorded
<1> QED
  BY <1>1, <1>2, <1>3 DEF AllCached, MachineCached, Recoverable

\* A step of c leaves the other calls and Machines as they are.
LEMMA CachedFrame ==
  ASSUME Recorded, TypeOK, Fits, AllCached, NEW c \in Calls, call[c] # None,
         NEW m \in Machines,
         \A d \in Calls \ {c} : call'[d] = call[d],
         \A x \in Machines \ {m} :
           /\ capi'[x] = capi[x] /\ node'[x] = node[x]
           /\ cache'.data[x] = cache.data[x]
           /\ \A r \in Replicas : state'[r][x] = state[r][x],
         CallCached(c)', MachineCached(m)'
  PROVE  AllCached'
<1>1. ASSUME NEW d \in Calls \ {c} PROVE CallCached(d)'
  <2>1. call'[d] = None
    BY Alone
  <2> QED
    BY <2>1 DEF CallCached
<1>2. ASSUME NEW x \in Machines \ {m} PROVE MachineCached(x)'
  BY DEF AllCached, MachineCached, Done
<1> QED
  BY <1>1, <1>2 DEF AllCached

\* A step of c that leaves the ConfigMap as it is, and records nothing new.
LEMMA QuietStep ==
  ASSUME Recorded, IInv, Fits, AllCached, NEW c \in Calls, call[c] # None,
         NEW m \in Machines, call[c].m = m,
         \A d \in Calls \ {c} : call'[d] = call[d],
         \A x \in Machines \ {m} :
           /\ capi'[x] = capi[x] /\ node'[x] = node[x]
           /\ \A r \in Replicas : state'[r][x] = state[r][x],
         capi'[m].phase = capi[m].phase, capi'[m].cur = capi[m].cur,
         cache' = cache, Done(m) => Done(m)',
         \A r \in Replicas : (state'[r][m] # None /\ state'[r][m].applied) =>
           \/ state[r][m] # None /\ state[r][m].applied
           \/ cache.data[m] = None
           \/ "cleanup" \in Faults,
         CallCached(c)'
  PROVE  AllCached'
<1>1. MachineCached(m)
  BY DEF AllCached
<1>2. MachineCached(m)'
  BY <1>1 DEF MachineCached
<1> QED
  BY <1>2, CachedFrame DEF IInv

-----------------------------------------------------------------------------
(***************************************************************************)
(* The steps.                                                              *)
(***************************************************************************)
\* A claim is recorded.
LEMMA EntryWritten ==
  ASSUME Recorded, IInv, Fits, Knows, AllCached, NEW c \in Calls,
         PersistCreate(c) \/ PersistUpdate(c)
  PROVE  AllCached'
<1>0. /\ call[c] # None /\ call[c].pc \in {"create", "put"} /\ Reply(c, "claimed")
      /\ node' = node /\ state' = state
  BY DEF PersistCreate, PersistUpdate, At, memory, talos
<1> PICK m \in Machines : call[c].m = m
  BY <1>0, Context DEF Recorded
<1>1. /\ TypeOK /\ call[c].cur = capi[m].cur /\ capi[m].cur \in Bootstraps
      /\ capi[m].phase = "check" /\ CallCached(c)
      /\ cache \in [exists : BOOLEAN, data : CacheData]
  BY <1>0, Context, InProgress DEF Recorded, IInv, AllCached, TypeOK, CanUpdateSteps
<1>2. cache'.data = [cache.data EXCEPT ![m] = capi[m].cur]
  <2>1. CASE PersistCreate(c)
    <3>1. ~cache.exists
      BY <1>0, <1>1, <2>1 DEF PersistCreate, At, CallCached
    <3>2. \A x \in Machines : cache.data[x] = None
      BY <3>1 DEF IInv, WorkIsSound
    <3>3. cache'.data = OnlyEntry(cache.data, m, capi[m].cur)
      BY <1>1, <2>1, <3>1 DEF PersistCreate
    <3> QED
      BY <1>1, <3>2, <3>3 DEF OnlyEntry, CacheData
  <2>2. CASE PersistUpdate(c)
    <3>1. At(c, "put") /\ Put(c, capi[m].cur) /\ HasLatest(c)
      BY <1>0, <1>1, <2>2 DEF PersistUpdate, CallCached, At
    <3> QED
      BY <1>1, <3>1, PutEntry
  <2> QED
    BY <2>1, <2>2
<1>3. /\ cache'.data[m] = capi[m].cur
      /\ \A x \in Machines \ {m} : cache'.data[x] = cache.data[x]
  BY <1>1, <1>2 DEF CacheData
<1>4. /\ call'[c] = None /\ \A d \in Calls \ {c} : call'[d] = call[d]
      /\ \A x \in Machines \ {m} : capi'[x] = capi[x]
      /\ capi'[m].phase \in {capi[m].phase, "update"} /\ capi'[m].cur = capi[m].cur
  BY <1>0, <1>1, ReplyEffect
<1>5. \A r \in Replicas : ~(state[r][m] # None /\ state[r][m].applied)
  BY <1>1 DEF Fits, MachineFits
<1>6. CallCached(c)' /\ MachineCached(m)'
  BY <1>0, <1>1, <1>3, <1>4, <1>5 DEF CallCached, MachineCached
<1> QED
  BY <1>0, <1>1, <1>3, <1>4, <1>6, CachedFrame

LEMMA CanUpdateStepCached ==
  ASSUME Recorded, IInv, Fits, Knows, AllCached, NEW c \in Calls, CanUpdateStep(c)
  PROVE  AllCached'
<1>0. call[c] # None
  BY DEF At, CanUpdateStep, ClaimFails, ClaimOnly, ClaimAndStore, PersistGet,
         PersistFails, PersistCreate, PersistUpdate
<1> PICK m \in Machines : call[c].m = m
  BY <1>0, Context DEF Recorded
<1>00. /\ TypeOK /\ call[c] \in Call
       /\ call[c].cur \in Bootstraps /\ call[c].des \in Bootstraps
  BY <1>0, CallTyped DEF IInv
<1>1. CASE ClaimAndStore(c) \/ PersistGet(c)
  <2>1. /\ capi' = capi /\ node' = node /\ state' = state /\ cache' = cache
        /\ \A d \in Calls \ {c} : call'[d] = call[d]
    BY <1>00, <1>1 DEF ClaimAndStore, PersistGet, Goto, memory, kube, talos, TypeOK
  <2>2. CallCached(c)'
    <3>1. CASE ClaimAndStore(c)
      <4>1. call'[c].pc = "persist"
        BY <1>00, <3>1 DEF ClaimAndStore, Goto, TypeOK, Call
      <4> QED
        BY <4>1 DEF CallCached
    <3>2. CASE PersistGet(c)
      <4>1. /\ call'[c].pc = IF cache.exists THEN "put" ELSE "create"
            /\ cache.exists => c \in fresh'
        BY <1>00, <3>2 DEF PersistGet, TypeOK, Call
      <4> QED
        BY <2>1, <4>1 DEF CallCached, HasLatest
    <3> QED
      BY <1>1, <3>1, <3>2
  <2> QED
    BY <1>0, <2>1, <2>2, QuietStep DEF Done
<1>2. CASE ClaimFails(c) \/ ClaimOnly(c)
  BY <1>00, <1>2, FullTyped DEF ClaimFails, ClaimOnly, Recorded
<1>3. CASE PersistFails(c)
  BY <1>0, <1>3, Context DEF PersistFails, MayFail, Recorded
<1>4. CASE PersistCreate(c) \/ PersistUpdate(c)
  BY <1>4, EntryWritten
<1> QED
  BY <1>1, <1>2, <1>3, <1>4 DEF CanUpdateStep

\* The entry is gone once the config is recorded as applied.
LEMMA EntryRemoved ==
  ASSUME Recorded, IInv, Fits, Knows, AllCached, NEW c \in Calls, CleanupUpdate(c)
  PROVE  AllCached'
<1>0. /\ call[c] # None /\ call[c].pc = "remove" /\ Put(c, None)
      /\ Reply(c, "retry") /\ node' = node
      /\ state' = [state EXCEPT ![call[c].r][call[c].m] = JustApplied]
  BY DEF CleanupUpdate, At, Finish, talos
<1> PICK m \in Machines, r \in Replicas : call[c].m = m /\ call[c].r = r
  BY <1>0, Context DEF Recorded
<1>1. /\ TypeOK /\ capi[m].phase = "update" /\ HasLatest(c)
      /\ cache \in [exists : BOOLEAN, data : CacheData]
  BY <1>0, InProgress DEF Recorded, IInv, AllCached, CallCached, TypeOK, UpdateSteps
<1>2. cache'.data = [cache.data EXCEPT ![m] = None]
  BY <1>0, <1>1, PutEntry DEF At
<1>3. /\ cache'.data[m] = None
      /\ \A x \in Machines \ {m} : cache'.data[x] = cache.data[x]
  BY <1>1, <1>2 DEF CacheData
<1>4. \A x \in Machines \ {m}, q \in Replicas : state'[q][x] = state[q][x]
  BY <1>0, <1>1 DEF TypeOK
<1>5. /\ call'[c] = None /\ \A d \in Calls \ {c} : call'[d] = call[d]
      /\ \A x \in Machines \ {m} : capi'[x] = capi[x]
      /\ capi'[m].phase = capi[m].phase /\ capi'[m].des = capi[m].des
  BY <1>0, <1>1, ReplyEffect
<1>6. Done(m)
  BY <1>0, CleanupIsDone DEF Recorded
<1>7. CallCached(c)' /\ MachineCached(m)'
  BY <1>0, <1>1, <1>3, <1>5, <1>6 DEF CallCached, MachineCached, Done
<1> QED
  BY <1>0, <1>1, <1>3, <1>4, <1>5, <1>7, CachedFrame

LEMMA CompletionCached ==
  ASSUME Recorded, IInv, Fits, Knows, AllCached, NEW c \in Calls, Completes(c)
  PROVE  AllCached'
<1>0. /\ call[c] # None /\ call[c].pc = "load" /\ Reply(c, "done")
      /\ node' = node /\ cache' = cache /\ Settled(Mine(c))
      /\ state' = Deleted(state, call[c].r, call[c].m)
  BY DEF Completes, At, EndUpdate, kube, talos
<1> PICK m \in Machines, r \in Replicas : call[c].m = m /\ call[c].r = r
  BY <1>0, Context DEF Recorded
<1>1. TypeOK /\ Replicas = {r} /\ call[c].awaited /\ capi[m] \in CapiState
  BY <1>0, Context DEF Recorded, IInv, TypeOK
<1>2. "cleanup" \notin Faults => cache.data[m] = None
  BY <1>0 DEF Settled, Mine, AllCached, MachineCached
<1>3. /\ \A q \in Replicas : state'[q][m] = None
      /\ \A x \in Machines \ {m}, q \in Replicas : state'[q][x] = state[q][x]
  BY <1>0, <1>1 DEF Deleted, TypeOK
<1>4. /\ call'[c] = None /\ \A d \in Calls \ {c} : call'[d] = call[d]
      /\ \A x \in Machines \ {m} : capi'[x] = capi[x]
  BY <1>0, <1>1, ReplyEffect
<1>5. capi'[m].phase = "idle"
  <2>1. capi'[m] = Heard(capi[m], "done")
    BY <1>0, <1>1 DEF Reply, TypeOK
  <2> QED
    BY <1>1, <2>1 DEF Heard, CapiState
<1>6. CallCached(c)' /\ MachineCached(m)'
  BY <1>0, <1>2, <1>3, <1>4, <1>5 DEF CallCached, MachineCached
<1> QED
  BY <1>0, <1>1, <1>3, <1>4, <1>6, CachedFrame

LEMMA UpdateStepCached ==
  ASSUME Recorded, IInv, Fits, Knows, AllCached, NEW c \in Calls, UpdateStep(c)
  PROVE  AllCached'
<1>0. call[c] # None /\ call[c].pc \in UpdateSteps
  BY DEF At, UpdateSteps, UpdateStep, NoAddress, TimesOut, Completes, Settles, Proceeds,
         ReadFails, ReadLive, MergeStored, NothingStored, MergeRecovered,
         Direct, DirectFails, NothingToApply, MergeDirect, MergeFails,
         NodeTakes, ApplyAccepted, ApplyUnacked, ApplyRejected,
         CleanupNotNeeded, CleanupGet, CleanupFails, CleanupUpdate
<1> PICK m \in Machines, r \in Replicas : call[c].m = m /\ call[c].r = r
  BY <1>0, Context DEF Recorded
<1>00. /\ TypeOK /\ call[c] \in Call /\ Replicas = {r} /\ CallKnows(c)
       /\ call[c].des = capi[m].des
       /\ state \in [Replicas -> [Machines -> UpdateState \cup {None}]]
       /\ node \in [Machines -> Config]
  BY <1>0, Context, CallTyped DEF Recorded, IInv, TypeOK
\* Replies that record no config as applied.
<1>1. CASE NoAddress(c) \/ TimesOut(c) \/ Settles(c) \/ ReadFails(c) \/ DirectFails(c)
             \/ MergeFails(c) \/ ApplyRejected(c) \/ ApplyUnacked(c)
  <2>1. /\ Reply(c, "failure") \/ Reply(c, "retry")
        /\ cache' = cache
        /\ state' = state \/ state' = Deleted(state, r, m) \/ RetryLater(c)
    BY <1>1 DEF NoAddress, TimesOut, EndUpdate, Settles, ReadFails, DirectFails,
                MergeFails, ApplyRejected, ApplyUnacked, RetryLater, memory, kube
  <2>2. \A q \in Replicas :
          /\ \A x \in Machines \ {m} : state'[q][x] = state[q][x]
          /\ (state'[q][m] # None /\ state'[q][m].applied) =>
               state[q][m] # None /\ state[q][m].applied
    <3>1. CASE state' = state \/ state' = Deleted(state, r, m)
      BY <1>00, <3>1 DEF Deleted
    <3>2. CASE RetryLater(c)
      <4>1. state' = [state EXCEPT ![r][m] =
                        AfterFailedApply(state[r][m], call[c].loaded)]
        BY <3>2 DEF RetryLater
      <4> QED
        BY <1>00, <4>1 DEF AfterFailedApply
    <3> QED
      BY <2>1, <3>1, <3>2
  <2>3. /\ call'[c] = None /\ \A d \in Calls \ {c} : call'[d] = call[d]
        /\ \A x \in Machines \ {m} : capi'[x] = capi[x]
        /\ capi'[m].des = capi[m].des /\ capi'[m].phase = capi[m].phase
        /\ capi'[m].cur = capi[m].cur
    BY <1>0, <1>00, <2>1, ReplyEffect
  <2>4. /\ \A x \in Machines \ {m} : node'[x] = node[x]
        /\ Done(m) => Done(m)'
    <3>1. CASE ApplyUnacked(c)
      <4>1. node' = [node EXCEPT ![m] = call[c].cfg] /\ At(c, "apply")
        BY <3>1 DEF ApplyUnacked, NodeTakes
      <4> QED
        BY <1>00, <2>3, <4>1 DEF CallKnows, At, Done
    <3>2. CASE ~ApplyUnacked(c)
      <4>1. node' = node
        BY <1>1, <3>2 DEF NoAddress, TimesOut, Settles, ReadFails, DirectFails,
                          MergeFails, ApplyRejected, talos
      <4> QED
        BY <2>3, <4>1 DEF Done
    <3> QED
      BY <3>1, <3>2
  <2>5. CallCached(c)'
    BY <2>3 DEF CallCached
  <2> QED
    BY <1>0, <2>1, <2>2, <2>3, <2>4, <2>5, QuietStep
\* Replies that record the config as applied, with no entry to delete.
<1>2. CASE NothingToApply(c) \/ CleanupNotNeeded(c)
  <2>1. Finish(c) /\ cache' = cache /\ node' = node
    BY <1>2 DEF NothingToApply, CleanupNotNeeded, kube, talos
  <2>2. cache.data[m] = None
    BY <1>2, DirectHasNoEntry DEF NothingToApply, CleanupNotNeeded
  <2>3. \A q \in Replicas, x \in Machines \ {m} : state'[q][x] = state[q][x]
    BY <1>00, <2>1 DEF Finish
  <2>4. /\ call'[c] = None /\ \A d \in Calls \ {c} : call'[d] = call[d]
        /\ \A x \in Machines \ {m} : capi'[x] = capi[x]
        /\ capi'[m].des = capi[m].des /\ capi'[m].phase = capi[m].phase
        /\ capi'[m].cur = capi[m].cur
    BY <1>0, <1>00, <2>1, ReplyEffect DEF Finish
  <2>5. CallCached(c)'
    BY <2>4 DEF CallCached
  <2> QED
    BY <1>0, <2>1, <2>2, <2>3, <2>4, <2>5, QuietStep DEF Done
\* Steps of a call that goes on.
<1>3. CASE Proceeds(c) \/ ReadLive(c) \/ NothingStored(c) \/ MergeStored(c)
             \/ MergeRecovered(c) \/ MergeDirect(c) \/ ApplyAccepted(c) \/ CleanupGet(c)
  <2>1. /\ capi' = capi /\ state' = state /\ cache' = cache
        /\ \A d \in Calls \ {c} : call'[d] = call[d]
    BY <1>00, <1>3 DEF Proceeds, ReadLive, NothingStored, MergeStored, MergeRecovered,
                       MergeDirect, ApplyAccepted, CleanupGet, Merge, Goto, memory,
                       kube, TypeOK
  <2>2. /\ \A x \in Machines \ {m} : node'[x] = node[x]
        /\ Done(m) => Done(m)'
    <3>1. CASE ApplyAccepted(c)
      BY <1>00, <2>1, <3>1 DEF ApplyAccepted, NodeTakes, At, CallKnows, Done
    <3>2. CASE ~ApplyAccepted(c)
      <4>1. node' = node
        BY <1>3, <3>2 DEF Proceeds, ReadLive, NothingStored, MergeStored,
                          MergeRecovered, MergeDirect, CleanupGet, talos
      <4> QED
        BY <2>1, <4>1 DEF Done
    <3> QED
      BY <3>1, <3>2
  <2>3. CallCached(c)'
    <3>1. CASE CleanupGet(c)
      <4>1. call'[c].pc = "remove" /\ c \in fresh'
        BY <1>00, <3>1 DEF CleanupGet, TypeOK, Call
      <4> QED
        BY <4>1 DEF CallCached, HasLatest
    <3>2. CASE ~CleanupGet(c)
      <4>1. call'[c].pc \in {"read", "merge", "recover", "apply", "cleanup"}
        BY <1>00, <1>3, <3>2
          DEF Proceeds, ReadLive, NothingStored, MergeStored, MergeRecovered,
              MergeDirect, ApplyAccepted, Merge, Goto, TypeOK, Call
      <4> QED
        BY <4>1 DEF CallCached
    <3> QED
      BY <3>1, <3>2
  <2> QED
    BY <1>0, <2>1, <2>2, <2>3, QuietStep
\* A failing cleanup leaves the entry behind.
<1>4. CASE CleanupFails(c)
  <2>1. Finish(c) /\ cache' = cache /\ node' = node /\ "cleanup" \in Faults
    BY <1>0, <1>4, Context DEF CleanupFails, MayFail, talos, Recorded
  <2>2. \A q \in Replicas, x \in Machines \ {m} : state'[q][x] = state[q][x]
    BY <1>00, <2>1 DEF Finish
  <2>3. /\ call'[c] = None /\ \A d \in Calls \ {c} : call'[d] = call[d]
        /\ \A x \in Machines \ {m} : capi'[x] = capi[x]
        /\ capi'[m].des = capi[m].des /\ capi'[m].phase = capi[m].phase
        /\ capi'[m].cur = capi[m].cur
    BY <1>0, <1>00, <2>1, ReplyEffect DEF Finish
  <2>4. CallCached(c)'
    BY <2>3 DEF CallCached
  <2> QED
    BY <1>0, <2>1, <2>2, <2>3, <2>4, QuietStep DEF Done
<1>5. CASE CleanupUpdate(c)
  BY <1>5, EntryRemoved
<1>6. CASE Completes(c)
  BY <1>6, CompletionCached
<1> QED
  BY <1>1, <1>2, <1>3, <1>4, <1>5, <1>6 DEF UpdateStep

LEMMA InitCached == Init => AllCached
<1> SUFFICES ASSUME Init PROVE AllCached
  OBVIOUS
<1>1. \A c \in Calls : CallCached(c)
  BY DEF Init, CallCached
<1>2. ASSUME NEW m \in Machines PROVE MachineCached(m)
  BY DEF Init, MachineCached
<1> QED
  BY <1>1, <1>2 DEF AllCached

\* A new desired state finds no entry.
LEMMA RollCached ==
  ASSUME Recorded, IInv, Fits, AllCached, NEW m \in Machines, NEW b \in Bootstraps,
         Roll(m, b)
  PROVE  AllCached'
<1>1. capi' = [capi EXCEPT ![m].phase = "check", ![m].des = b]
  BY DEF Roll, Recorded, FullOnly
<1>2. /\ capi[m].phase = "idle" /\ capi[m] \in CapiState
      /\ call' = call /\ node' = node /\ state' = state /\ cache' = cache
      /\ fresh' = fresh
  BY DEF Roll, IInv, TypeOK, memory, kube, talos
<1>3. /\ capi'[m].phase = "check" /\ \A x \in Machines \ {m} : capi'[x] = capi[x]
  BY <1>1, <1>2 DEF IInv, TypeOK, CapiState
<1>4. MachineCached(m)'
  BY <1>2, <1>3 DEF Fits, MachineFits, AllCached, MachineCached
<1>5. ASSUME NEW x \in Machines \ {m} PROVE MachineCached(x)'
  BY <1>2, <1>3 DEF AllCached, MachineCached, Done
<1>6. ASSUME NEW c \in Calls PROVE CallCached(c)'
  BY <1>2 DEF AllCached, CallCached, HasLatest
<1> QED
  BY <1>4, <1>5, <1>6 DEF AllCached

\* Nothing changes but what CAPI has heard, the time since an attempt, and what
\* is lost of the state.
LEMMA SameCached ==
  ASSUME AllCached, node' = node, cache' = cache,
         \A m \in Machines :
           /\ capi'[m].phase = capi[m].phase /\ capi'[m].cur = capi[m].cur
           /\ capi'[m].des = capi[m].des
           /\ \A r \in Replicas : (state'[r][m] # None /\ state'[r][m].applied) =>
                state[r][m] # None /\ state[r][m].applied,
         \A c \in Calls :
           \/ call'[c] = call[c] /\ fresh' = fresh
           \/ CallCached(c)'
  PROVE  AllCached'
<1>1. ASSUME NEW m \in Machines PROVE MachineCached(m)'
  BY DEF AllCached, MachineCached, Done
<1>2. ASSUME NEW c \in Calls, call'[c] = call[c], fresh' = fresh PROVE CallCached(c)'
  BY <1>2 DEF AllCached, CallCached, HasLatest
<1> QED
  BY <1>1, <1>2 DEF AllCached

LEMMA StartCallCached ==
  ASSUME Recorded, IInv, AllCached, NEW c \in Calls, NEW r \in Replicas,
         NEW m \in Machines, StartCall(c, r, m)
  PROVE  AllCached'
<1> DEFINE new == [pc |-> IF capi[m].phase = "check" THEN "can" ELSE "load",
                   r |-> r, m |-> m, cur |-> capi[m].cur, des |-> capi[m].des,
                   awaited |-> TRUE, loaded |-> FALSE, cfg |-> None, copy |-> None]
<1>1. /\ call' = [call EXCEPT ![c] = new]
      /\ capi' = [capi EXCEPT ![m].verdict = "none"]
      /\ node' = node /\ state' = state /\ cache' = cache /\ fresh' = fresh
  BY DEF StartCall, memory, kube, talos
<1>2. new.pc \in {"can", "load"}
  OBVIOUS
<1> HIDE DEF new
<1>3. call'[c] = new /\ \A d \in Calls \ {c} : call'[d] = call[d]
  BY <1>1 DEF IInv, TypeOK
<1>4. \A x \in Machines : /\ capi'[x].phase = capi[x].phase
                           /\ capi'[x].cur = capi[x].cur
                           /\ capi'[x].des = capi[x].des
  BY <1>1 DEF IInv, TypeOK, CapiState
<1>5. CallCached(c)'
  BY <1>2, <1>3 DEF CallCached
<1> QED
  BY <1>1, <1>3, <1>4, <1>5, SameCached

\* A restart loses calls and memory, and leaves the ConfigMap.
LEMMA CrashCached ==
  ASSUME Recorded, IInv, AllCached, NEW r \in Replicas, Crash(r)
  PROVE  AllCached'
<1>1. Replicas = {r}
  BY DEF Recorded, FullOnly, Calm
<1>2. \A c \in Calls : call'[c] = None
  BY <1>1, CallTyped DEF Crash, IInv
<1>3. \A m \in Machines, q \in Replicas : state'[q][m] = None
  BY <1>1 DEF Crash, IInv, TypeOK
<1>4. capi' = capi /\ node' = node /\ cache' = cache
  BY DEF Crash, talos
<1>5. \A c \in Calls : CallCached(c)'
  BY <1>2 DEF CallCached
<1> QED
  BY <1>3, <1>4, <1>5, SameCached

LEMMA TickCached ==
  ASSUME IInv, AllCached, Tick
  PROVE  AllCached'
<1>1. /\ call' = call /\ capi' = capi /\ node' = node
      /\ cache' = cache /\ fresh' = fresh
      /\ state' = [r \in Replicas |-> [m \in Machines |-> Older(state[r][m])]]
  BY DEF Tick, kube, talos
<1>2. \A r \in Replicas, m \in Machines :
        (state'[r][m] # None /\ state'[r][m].applied) =>
          state[r][m] # None /\ state[r][m].applied
  <2> SUFFICES ASSUME NEW r \in Replicas, NEW m \in Machines,
                      state'[r][m] # None, state'[r][m].applied
               PROVE  state[r][m] # None /\ state[r][m].applied
    OBVIOUS
  <2>1. state'[r][m] = Older(state[r][m]) /\ state[r][m] \in UpdateState \cup {None}
    BY <1>1 DEF IInv, TypeOK
  <2> QED
    BY <2>1 DEF Older, UpdateState
<1> QED
  BY <1>1, <1>2, SameCached

LEMMA NextCached ==
  ASSUME Recorded, IInv, Fits, Knows, AllCached, [Next]_vars
  PROVE  AllCached'
<1>1. CASE \E m \in Machines, b \in Bootstraps :
             Roll(m, b) \/ Replan(m, b) \/ Recreate(m, b)
  BY <1>1, RollCached DEF Replan, Recreate, Disrupt, Recorded, FullOnly, Calm
<1>2. CASE \E c \in Calls, r \in Replicas, m \in Machines : StartCall(c, r, m)
  BY <1>2, StartCallCached
<1>3. ASSUME NEW c \in Calls, Abandon(c) PROVE AllCached'
  BY <1>3 DEF Abandon, Disrupt, Recorded, FullOnly
<1>4. ASSUME NEW c \in Calls, Handler(c) PROVE AllCached'
  BY <1>4, CanUpdateStepCached, UpdateStepCached DEF Handler
<1>5. CASE \E r \in Replicas : Crash(r)
  BY <1>5, CrashCached
<1>6. CASE Tick
  BY <1>6, TickCached
<1>7. CASE UNCHANGED vars
  BY <1>7, SameCached DEF vars, memory, kube, talos
<1> QED
  BY <1>1, <1>2, <1>3, <1>4, <1>5, <1>6, <1>7 DEF Next

-----------------------------------------------------------------------------
(***************************************************************************)
(* The theorems.                                                           *)
(***************************************************************************)
LEMMA RecoveryInvariance ==
  ASSUME Recorded
  PROVE  Spec => [](TypeOK /\ Fits /\ Knows /\ AllCached)
<1>0. FullOnly
  BY DEF Recorded
<1>1. Init => TypeOK /\ Fits /\ Knows /\ AllCached
  BY <1>0, InitInv, InitFits, InitKnows, InitCached DEF IInv
<1>2. /\ IInv /\ (TypeOK /\ Fits /\ Knows /\ AllCached)
      /\ IInv' /\ [Next]_vars
      => (TypeOK /\ Fits /\ Knows /\ AllCached)'
  <2> SUFFICES ASSUME IInv, Fits, Knows, AllCached, IInv', [Next]_vars
               PROVE  (TypeOK /\ Fits /\ Knows /\ AllCached)'
    OBVIOUS
  <2>1. Fits' /\ Knows'
    BY <1>0, CachedIsSafe, FullNext
  <2>2. AllCached'
    BY NextCached
  <2> QED
    BY <2>1, <2>2 DEF IInv
<1> QED
  BY <1>1, <1>2, Invariance, PTL DEF Spec

\* When an update is complete, nothing of it is left in memory that a later
\* update of the Machine could take for its own, whatever restarts, refusals and
\* failing exchanges it went through.
THEOREM IdleClean ==
  ASSUME Recorded
  PROVE  Spec => []IdleIsClean
<1>1. Fits /\ Knows => IdleIsClean
  BY DEF Fits, MachineFits, Knows, MachineKnows, IdleIsClean
<1> QED
  BY <1>1, RecoveryInvariance, PTL

\* When cleanups succeed (cleanupConfigCache), it leaves no entry in the ConfigMap
\* either.
THEOREM EntriesRemoved ==
  ASSUME Recorded, "cleanup" \notin Faults
  PROVE  Spec => [](\A m \in Machines :
                       capi[m].phase = "idle" => cache.data[m] = None)
<1>1. AllCached => \A m \in Machines : capi[m].phase = "idle" => cache.data[m] = None
  BY DEF AllCached, MachineCached
<1> QED
  BY <1>1, RecoveryInvariance, PTL

\* An entry that a restarted replica finds in an update is the config which that
\* update started from.
THEOREM EntryCurrent ==
  ASSUME Recorded
  PROVE  Spec => []CacheIsCurrent
<1>1. AllCached => CacheIsCurrent
  BY DEF AllCached, MachineCached, CacheIsCurrent
<1> QED
  BY <1>1, RecoveryInvariance, PTL

\* Patches that are computed again after a restart leave no node with a part of
\* a config.
THEOREM RecoveryAllOrNothing ==
  ASSUME Recorded
  PROVE  Spec => []AllOrNothing
<1>1. FullOnly
  BY DEF Recorded
<1>2. TypeOK /\ Knows => AllOrNothing
  BY <1>1, KnowsAllOrNothing
<1> QED
  BY <1>2, RecoveryInvariance, PTL

\* Restarts, failing cleanups, late calls, lost replies, refusals and timeouts do not
\* make DoUpdateMachine report an update complete that is not.
THEOREM RecoverySuccess ==
  ASSUME Recorded
  PROVE  Spec => []NoFalseSuccess
<1>1. Fits => NoFalseSuccess
  BY DEF Fits, MachineFits, NoFalseSuccess
<1> QED
  BY <1>1, RecoveryInvariance, PTL

\* Under the same conditions the applied flag is true of the update in progress.
THEOREM RecoveryFlag ==
  ASSUME Recorded
  PROVE  Spec => []AppliedIsTrue
<1>1. Fits => AppliedIsTrue
  BY DEF Fits, MachineFits, AppliedIsTrue
<1> QED
  BY <1>1, RecoveryInvariance, PTL

\* Under the same conditions the handlers keep the contract with CAPI.
THEOREM RecoveryImplements ==
  ASSUME Recorded
  PROVE  Spec => ImplementsContract
<1>1. Calm
  BY DEF Recorded, FullOnly
<1> QED
  BY <1>1, RecoveryInvariance, FitsImplements, PTL
=============================================================================
