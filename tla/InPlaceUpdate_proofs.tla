------------------------ MODULE InPlaceUpdate_proofs ------------------------
(***************************************************************************)
(* Proofs about InPlaceUpdate, for every value of its constants: any       *)
(* number of Machines, replicas and overlapping calls, and all faults.     *)
(***************************************************************************)
EXTENDS InPlaceUpdate, TLAPS

USE ConfigAssumption, InPlaceAssumption, NoneAssumption

-----------------------------------------------------------------------------
(***************************************************************************)
(* Lemmas about configs and patches.                                       *)
(***************************************************************************)

\* A patch on a config gives a config (configpatcher.Apply).
LEMMA PatchedTyped ==
  ASSUME NEW live \in Config, NEW p \in Patch
  PROVE  Patched(live, p) \in Config
  BY DEF Patched, Config, Patch, Fields

\* Patches name template fields only, so they leave the identity of the node
\* alone (the premise of DoUpdateMachine's patch mode).
LEMMA PatchedKeepsIdentity ==
  ASSUME NEW live \in Config, NEW p \in Patch, NEW f \in IdentityFields
  PROVE  Patched(live, p)[f] = live[f]
  BY DEF Patched, Config, Patch, Fields

\* The diff of two full configs is a patch (configdiff.Patch).
LEMMA DiffTyped ==
  ASSUME NEW c, NEW d \in Template
  PROVE  Diff(c, d) \in Patch
<1> DEFINE S == {g \in TemplateFields : c[g] # d[g]}
<1>1. S \in SUBSET TemplateFields
  OBVIOUS
<1>2. Diff(c, d) \in [S -> Values]
  BY DEF Diff, Template
<1> QED
  BY <1>1, <1>2 DEF Patch

\* A config that parses is a template, and so is what may be diffed.
LEMMA ExtractableTyped ==
  ASSUME NEW b \in Bootstraps, Extractable(b)
  PROVE  b.data \in Template
  BY DEF Extractable, BootstrapConfig

\* What a usable BootstrapConfig asks for is a patch.
LEMMA TargetTyped ==
  ASSUME NEW b \in Bootstraps, Usable(b)
  PROVE  Target(b) \in Patch
<1>1. CASE Extractable(b)
  <2>1. b.data \in [TemplateFields -> Values]
    BY <1>1, ExtractableTyped DEF Template
  <2> QED
    BY <1>1, <2>1 DEF Target, Patch
<1>2. CASE ~Extractable(b)
  BY <1>2 DEF Target, Usable, BootstrapConfig
<1> QED
  BY <1>1, <1>2

\* CAPI's record of a Machine stays one after any reply.
LEMMA HeardTyped ==
  ASSUME NEW k \in CapiState,
         NEW answer \in {"claimed", "done", "failure", "retry"}
  PROVE  Heard(k, answer) \in CapiState
  BY DEF Heard, CapiState

-----------------------------------------------------------------------------
(***************************************************************************)
(* Lemmas about calls and the maps of a replica.                           *)
(***************************************************************************)

\* A Store or Delete of one key of one replica's sync.Map.
LEMMA MapTyped ==
  ASSUME NEW S, NEW map \in [Replicas -> [Machines -> S]],
         NEW r \in Replicas, NEW m \in Machines, NEW v \in S
  PROVE  [map EXCEPT ![r][m] = v] \in [Replicas -> [Machines -> S]]
  OBVIOUS

\* A call in flight is a call.
LEMMA CallTyped ==
  ASSUME TypeOK, NEW c \in Calls, call[c] # None
  PROVE  /\ call[c] \in Call
         /\ call[c].r \in Replicas /\ call[c].m \in Machines
         /\ call[c].cur \in Bootstraps /\ call[c].des \in Bootstraps
         /\ state[call[c].r][call[c].m] \in UpdateState \cup {None}
         /\ cache.data[call[c].m] \in Bootstraps \cup {None}
         /\ configPatches[call[c].r][call[c].m] \in Patch \cup {None}
  BY DEF TypeOK, Call, CacheData

\* A reply ends the call and leaves CAPI's record of the Machine a record.
LEMMA ReplyTyped ==
  ASSUME TypeOK, NEW c \in Calls, call[c] # None,
         NEW answer \in {"claimed", "done", "failure", "retry"},
         Reply(c, answer)
  PROVE  /\ call' \in [Calls -> Call \cup {None}]
         /\ capi' \in [Machines -> CapiState]
         /\ call'[c] = None
         /\ \A d \in Calls \ {c} : call'[d] = call[d]
<1>1. /\ call' = [call EXCEPT ![c] = None]
      /\ capi' = IF call[c].awaited
                 THEN [capi EXCEPT ![call[c].m] = Heard(@, answer)] ELSE capi
  BY DEF Reply
<1>2. Heard(capi[call[c].m], answer) \in CapiState
  BY CallTyped, HeardTyped DEF TypeOK
<1>3. call \in [Calls -> Call \cup {None}] /\ capi \in [Machines -> CapiState]
  BY DEF TypeOK
<1> QED
  BY <1>1, <1>2, <1>3

-----------------------------------------------------------------------------
(***************************************************************************)
(* The invariant: types, and the soundness of the work of every call.      *)
(***************************************************************************)
SoundWork(c) ==
  /\ c \in fresh => /\ At(c, "put") \/ At(c, "remove")
                    /\ call[c].copy = cache.data
  /\ (At(c, "merge") \/ At(c, "recover") \/ At(c, "apply")) =>
       /\ call[c].cfg # None
       /\ \A f \in IdentityFields : call[c].cfg[f] = DayZero[call[c].m][f]

\* What a handler holds between two exchanges is sound: the config it read or
\* merged has its node's identity, and a copy of the ConfigMap that the API
\* server would still accept is what the ConfigMap holds.
WorkIsSound ==
  /\ \A c \in Calls : SoundWork(c)
  /\ cache.exists \/ (fresh = {} /\ \A m \in Machines : cache.data[m] = None)

IInv == TypeOK /\ WorkIsSound /\ IdentityPreserved

\* A step of c that leaves the work of c sound, the other calls alone, and no
\* copy of another call fresh that it outdates, leaves all work sound.
LEMMA OthersSound ==
  ASSUME WorkIsSound, NEW c \in Calls,
         \A d \in Calls \ {c} :
           call'[d] = call[d] /\ (d \in fresh' => d \in fresh /\ cache' = cache),
         SoundWork(c)',
         (cache.exists \/ (fresh = {} /\ \A m \in Machines : cache.data[m] = None))'
  PROVE  WorkIsSound'
<1> SUFFICES ASSUME NEW d \in Calls \ {c} PROVE SoundWork(d)'
  BY DEF WorkIsSound
<1>1. SoundWork(d)
  BY DEF WorkIsSound
<1>2. call'[d] = call[d] /\ (d \in fresh' => d \in fresh /\ cache' = cache)
  OBVIOUS
<1> QED
  BY <1>1, <1>2 DEF SoundWork, At

\* A reply of a call that holds no fresh copy, with the ConfigMap untouched.
LEMMA ReplySound ==
  ASSUME IInv, NEW c \in Calls, call[c] # None,
         NEW answer \in {"claimed", "done", "failure", "retry"},
         Reply(c, answer), cache' = cache, fresh' = fresh \ {c}
  PROVE  WorkIsSound'
<1>1. call'[c] = None /\ \A d \in Calls \ {c} : call'[d] = call[d]
  BY ReplyTyped DEF IInv
<1>2. SoundWork(c)'
  BY <1>1 DEF SoundWork, At
<1>3. (cache.exists \/ (fresh = {} /\ \A m \in Machines : cache.data[m] = None))'
  BY DEF IInv, WorkIsSound
<1> QED
  BY <1>1, <1>2, <1>3, OthersSound DEF IInv

\* Only a call about to write the ConfigMap has a fresh copy of it.
LEMMA NoCopy ==
  ASSUME IInv, NEW c \in Calls, ~At(c, "put"), ~At(c, "remove")
  PROVE  fresh \ {c} = fresh
  BY DEF IInv, WorkIsSound, SoundWork

\* A reply by which nothing but the memory of the replica may change.
LEMMA PlainReply ==
  ASSUME IInv, NEW c \in Calls, call[c] # None, ~At(c, "put"), ~At(c, "remove"),
         NEW answer \in {"claimed", "done", "failure", "retry"},
         Reply(c, answer), UNCHANGED <<kube, talos, disruptions>>,
         state' \in [Replicas -> [Machines -> UpdateState \cup {None}]],
         configPatches' \in [Replicas -> [Machines -> Patch \cup {None}]]
  PROVE  IInv'
<1>1. TypeOK'
  BY ReplyTyped DEF IInv, TypeOK, kube, talos
<1>2. WorkIsSound'
  BY NoCopy, ReplySound DEF kube
<1>3. IdentityPreserved'
  BY DEF IInv, IdentityPreserved, talos
<1> QED
  BY <1>1, <1>2, <1>3 DEF IInv

\* A step after which c goes on, and nothing but the memory of the replica and
\* c itself may have changed.
LEMMA PlainAdvance ==
  ASSUME IInv, NEW c \in Calls,
         NEW new \in Call, call' = [call EXCEPT ![c] = new], SoundWork(c)',
         UNCHANGED <<kube, talos, capi, disruptions>>,
         state' \in [Replicas -> [Machines -> UpdateState \cup {None}]],
         configPatches' \in [Replicas -> [Machines -> Patch \cup {None}]]
  PROVE  IInv'
<1>1. /\ call' \in [Calls -> Call \cup {None}]
      /\ \A d \in Calls \ {c} : call'[d] = call[d]
  BY DEF IInv, TypeOK
<1>2. TypeOK'
  BY <1>1 DEF IInv, TypeOK, kube, talos
<1>3. (cache.exists \/ (fresh = {} /\ \A m \in Machines : cache.data[m] = None))'
  BY DEF IInv, WorkIsSound, kube
<1>4. WorkIsSound'
  BY <1>1, <1>3, OthersSound DEF IInv, kube
<1>5. IdentityPreserved'
  BY DEF IInv, IdentityPreserved, talos
<1> QED
  BY <1>2, <1>4, <1>5 DEF IInv

\* An Update of the ConfigMap changes the entry of one Machine.
LEMMA PutEntry ==
  ASSUME IInv, NEW c \in Calls, At(c, "put") \/ At(c, "remove"),
         NEW b \in Bootstraps \cup {None}, Put(c, b)
  PROVE  \/ HasLatest(c) /\ fresh' = {} /\ cache.exists
            /\ cache' = [exists |-> TRUE,
                         data |-> [cache.data EXCEPT ![call[c].m] = b]]
         \/ ~HasLatest(c) /\ UNCHANGED kube
<1>1. CASE HasLatest(c)
  <2>1. call[c].copy = cache.data /\ cache.exists
    BY <1>1 DEF HasLatest, IInv, WorkIsSound, SoundWork
  <2>2. fresh' = {}
        /\ cache' = [cache EXCEPT !.data = [cache.data EXCEPT ![call[c].m] = b]]
    BY <1>1, <2>1 DEF Put, WithEntry
  <2>3. cache \in [exists : BOOLEAN, data : CacheData]
    BY DEF IInv, TypeOK
  <2> QED
    BY <1>1, <2>1, <2>2, <2>3
<1>2. CASE ~HasLatest(c)
  BY <1>2 DEF Put
<1> QED
  BY <1>1, <1>2

\* An Update leaves the ConfigMap typed.
LEMMA PutTyped ==
  ASSUME IInv, NEW c \in Calls, At(c, "put") \/ At(c, "remove"),
         NEW b \in Bootstraps \cup {None}, Put(c, b)
  PROVE  cache' \in [exists : BOOLEAN, data : CacheData] /\ fresh' \subseteq Calls
<1>1. cache \in [exists : BOOLEAN, data : CacheData] /\ fresh \subseteq Calls
  BY DEF IInv, TypeOK
<1>2. call[c].m \in Machines
  BY CallTyped DEF IInv, At
<1>3. [cache.data EXCEPT ![call[c].m] = b] \in CacheData
  BY <1>1, <1>2 DEF CacheData
<1>4. CASE UNCHANGED kube
  BY <1>1, <1>4 DEF kube
<1>5. CASE /\ fresh' = {}
           /\ cache' = [exists |-> TRUE,
                        data |-> [cache.data EXCEPT ![call[c].m] = b]]
  BY <1>3, <1>5
<1> QED
  BY <1>4, <1>5, PutEntry

\* An Update that is answered leaves the work of every call sound: it outdates
\* all copies when it succeeds, and is refused when its own is outdated.
LEMMA PutSound ==
  ASSUME IInv, NEW c \in Calls, At(c, "put") \/ At(c, "remove"),
         NEW b \in Bootstraps \cup {None}, Put(c, b),
         NEW answer \in {"claimed", "done", "failure", "retry"}, Reply(c, answer)
  PROVE  WorkIsSound'
<1>1. call'[c] = None /\ \A d \in Calls \ {c} : call'[d] = call[d]
  BY ReplyTyped DEF IInv, At
<1>2. c \notin fresh' /\ \A d \in fresh' : d \in fresh /\ cache' = cache
  BY PutEntry DEF HasLatest, kube
<1>3. (cache.exists \/ (fresh = {} /\ \A m \in Machines : cache.data[m] = None))'
  BY PutEntry DEF kube, IInv, WorkIsSound
<1>4. SoundWork(c)'
  BY <1>1, <1>2 DEF SoundWork, At
<1> QED
  BY <1>1, <1>2, <1>3, <1>4, OthersSound DEF IInv

-----------------------------------------------------------------------------
(***************************************************************************)
(* The steps of DoCanUpdateMachine.                                        *)
(***************************************************************************)
LEMMA CanUpdateStepInv ==
  ASSUME IInv, NEW c \in Calls, CanUpdateStep(c), UNCHANGED disruptions
  PROVE  IInv'
<1> USE DEF At
<1>0. /\ TypeOK /\ call[c] # None /\ call[c] \in Call
      /\ cache \in [exists : BOOLEAN, data : CacheData]
      /\ state \in [Replicas -> [Machines -> UpdateState \cup {None}]]
      /\ configPatches \in [Replicas -> [Machines -> Patch \cup {None}]]
  <2>1. call[c] # None
    BY DEF CanUpdateStep, ClaimFails, ClaimOnly, ClaimAndStore, PersistGet,
           PersistFails, PersistCreate, PersistUpdate
  <2> QED
    BY <2>1 DEF IInv, TypeOK
<1>1. CASE ClaimFails(c)
  BY <1>0, <1>1, PlainReply DEF ClaimFails, memory
<1>2. CASE ClaimOnly(c)
  BY <1>0, <1>2, PlainReply DEF ClaimOnly, memory
<1>3. CASE ClaimAndStore(c)
  <2> DEFINE p == Diff(call[c].cur.data, call[c].des.data)
             new == [call[c] EXCEPT !.pc = "persist"]
  <2>1. p \in Patch
    BY <1>0, <1>3, CallTyped, ExtractableTyped, DiffTyped DEF ClaimAndStore
  <2> HIDE DEF p
  <2>2. configPatches' \in [Replicas -> [Machines -> Patch \cup {None}]]
    <3>1. configPatches' = [configPatches EXCEPT ![call[c].r][call[c].m] = p]
      BY <1>3 DEF ClaimAndStore, p
    <3> QED
      BY <1>0, <2>1, <3>1, CallTyped, MapTyped
  <2>3. new \in Call /\ new.pc = "persist"
    BY <1>0 DEF Call, CanUpdateSteps
  <2>4. call' = [call EXCEPT ![c] = new] /\ capi' = capi
    BY <1>3 DEF ClaimAndStore, Goto
  <2>5. c \notin fresh
    BY <1>3, NoCopy DEF ClaimAndStore
  <2>6. call'[c] = new
    BY <2>4 DEF IInv, TypeOK
  <2> HIDE DEF new
  <2>7. SoundWork(c)'
    BY <1>3, <2>3, <2>5, <2>6 DEF ClaimAndStore, SoundWork, kube
  <2> QED
    BY <1>0, <1>3, <2>2, <2>3, <2>4, <2>7, PlainAdvance DEF ClaimAndStore
<1>4. CASE PersistGet(c)
  <2> DEFINE new == [call[c] EXCEPT
                       !.pc = IF cache.exists THEN "put" ELSE "create",
                       !.copy = IF cache.exists THEN cache.data ELSE None]
  <2>1. /\ new \in Call
        /\ cache.exists => new.pc = "put" /\ new.copy = cache.data
        /\ ~cache.exists => new.pc = "create"
    BY <1>0 DEF Call, CanUpdateSteps
  <2>2. call' = [call EXCEPT ![c] = new]
    BY <1>4 DEF PersistGet
  <2> HIDE DEF new
  <2>3. /\ call' \in [Calls -> Call \cup {None}] /\ call'[c] = new
        /\ \A d \in Calls \ {c} : call'[d] = call[d]
    BY <2>1, <2>2 DEF IInv, TypeOK
  <2>4. /\ cache' = cache
        /\ fresh' = IF cache.exists THEN fresh \cup {c} ELSE fresh
        /\ UNCHANGED <<memory, talos, capi, disruptions>>
    BY <1>4 DEF PersistGet
  <2>5. TypeOK'
    BY <2>3, <2>4 DEF IInv, TypeOK, memory, talos
  <2>6. c \notin fresh
    BY <1>4, NoCopy DEF PersistGet
  <2>7. SoundWork(c)'
    BY <2>1, <2>3, <2>4, <2>6 DEF SoundWork
  <2>8. (cache.exists \/ (fresh = {} /\ \A m \in Machines : cache.data[m] = None))'
    BY <2>4 DEF IInv, WorkIsSound
  <2>9. WorkIsSound'
    BY <2>3, <2>4, <2>7, <2>8, OthersSound DEF IInv
  <2> QED
    BY <2>4, <2>5, <2>9 DEF IInv, IdentityPreserved, talos
<1>5. CASE PersistFails(c)
  <2>1. TypeOK'
    BY <1>0, <1>5, ReplyTyped DEF PersistFails, TypeOK, memory, talos
  <2>2. WorkIsSound'
    BY <1>0, <1>5, ReplySound DEF PersistFails
  <2> QED
    BY <1>5, <2>1, <2>2 DEF PersistFails, IInv, IdentityPreserved, talos
<1>6. CASE PersistCreate(c)
  <2>1. Reply(c, "claimed") /\ UNCHANGED <<memory, fresh, talos, disruptions>>
    BY <1>6 DEF PersistCreate
  <2>2. CASE cache.exists
    BY <1>0, <1>6, <2>1, <2>2, PlainReply DEF PersistCreate, memory, kube
  <2>3. CASE ~cache.exists
    <3>1. cache' = [exists |-> TRUE,
                    data |-> OnlyEntry(cache.data, call[c].m, call[c].cur)]
      BY <1>6, <2>3 DEF PersistCreate
    <3>2. OnlyEntry(cache.data, call[c].m, call[c].cur) \in CacheData
      BY <1>0, CallTyped DEF OnlyEntry, CacheData
    <3>3. TypeOK'
      BY <1>0, <2>1, <3>1, <3>2, ReplyTyped DEF TypeOK, memory, talos
    <3>4. fresh' = {} /\ cache'.exists
      BY <2>1, <2>3, <3>1 DEF IInv, WorkIsSound
    <3>5. SoundWork(c)' /\ \A d \in Calls \ {c} : call'[d] = call[d]
      BY <1>0, <2>1, <3>4, ReplyTyped DEF SoundWork
    <3>6. WorkIsSound'
      BY <3>4, <3>5, OthersSound DEF IInv
    <3> QED
      BY <2>1, <3>3, <3>6 DEF IInv, IdentityPreserved, talos
  <2> QED
    BY <2>2, <2>3
<1>7. CASE PersistUpdate(c)
  <2>1. /\ Put(c, call[c].cur) /\ Reply(c, "claimed")
        /\ UNCHANGED <<memory, talos, disruptions>>
    BY <1>7 DEF PersistUpdate
  <2>2. At(c, "put") /\ call[c].cur \in Bootstraps \cup {None}
    BY <1>0, <1>7, CallTyped DEF PersistUpdate
  <2>3. cache' \in [exists : BOOLEAN, data : CacheData] /\ fresh' \subseteq Calls
    BY <1>0, <2>1, <2>2, PutTyped
  <2>4. TypeOK'
    BY <1>0, <2>1, <2>3, ReplyTyped DEF TypeOK, memory, talos
  <2>5. WorkIsSound'
    BY <1>0, <2>1, <2>2, PutSound
  <2> QED
    BY <2>1, <2>4, <2>5 DEF IInv, IdentityPreserved, talos
<1> QED
  BY <1>1, <1>2, <1>3, <1>4, <1>5, <1>6, <1>7 DEF CanUpdateStep

-----------------------------------------------------------------------------
(***************************************************************************)
(* The steps of DoUpdateMachine.                                           *)
(***************************************************************************)

\* The maps of the replica of c after the writes that DoUpdateMachine makes.
LEMMA MemoryTyped ==
  ASSUME TypeOK, NEW c \in Calls, call[c] # None
  PROVE  /\ Deleted(state, call[c].r, call[c].m)
              \in [Replicas -> [Machines -> UpdateState \cup {None}]]
         /\ Deleted(configPatches, call[c].r, call[c].m)
              \in [Replicas -> [Machines -> Patch \cup {None}]]
         /\ [state EXCEPT ![call[c].r][call[c].m] = JustApplied]
              \in [Replicas -> [Machines -> UpdateState \cup {None}]]
         /\ \A loaded \in BOOLEAN :
              [state EXCEPT ![call[c].r][call[c].m] = AfterFailedApply(@, loaded)]
                \in [Replicas -> [Machines -> UpdateState \cup {None}]]
<1>1. /\ state \in [Replicas -> [Machines -> UpdateState \cup {None}]]
      /\ configPatches \in [Replicas -> [Machines -> Patch \cup {None}]]
      /\ call[c].r \in Replicas /\ call[c].m \in Machines
  BY CallTyped DEF TypeOK
<1>2. /\ JustApplied \in UpdateState
      /\ \A s \in UpdateState \cup {None}, loaded \in BOOLEAN :
           AfterFailedApply(s, loaded) \in UpdateState \cup {None}
  BY DEF JustApplied, AfterFailedApply, UpdateState
<1>3. Deleted(state, call[c].r, call[c].m)
        \in [Replicas -> [Machines -> UpdateState \cup {None}]]
  BY <1>1, MapTyped DEF Deleted
<1>4. Deleted(configPatches, call[c].r, call[c].m)
        \in [Replicas -> [Machines -> Patch \cup {None}]]
  BY <1>1, MapTyped DEF Deleted
<1>5. [state EXCEPT ![call[c].r][call[c].m] = JustApplied]
        \in [Replicas -> [Machines -> UpdateState \cup {None}]]
  BY <1>1, <1>2, MapTyped
<1>6. ASSUME NEW loaded \in BOOLEAN
      PROVE  [state EXCEPT ![call[c].r][call[c].m] = AfterFailedApply(@, loaded)]
               \in [Replicas -> [Machines -> UpdateState \cup {None}]]
  BY <1>1, <1>2
<1> QED
  BY <1>3, <1>4, <1>5, <1>6

\* Merging a patch into a config read from a node keeps the node's identity.
LEMMA MergeInv ==
  ASSUME IInv, NEW c \in Calls, At(c, "merge") \/ At(c, "recover"),
         NEW p \in Patch, Merge(c, p), UNCHANGED <<kube, talos, disruptions>>,
         state' \in [Replicas -> [Machines -> UpdateState \cup {None}]],
         configPatches' \in [Replicas -> [Machines -> Patch \cup {None}]]
  PROVE  IInv'
<1> DEFINE cfg == Patched(call[c].cfg, p)
           new == [call[c] EXCEPT !.pc = "apply", !.cfg = cfg]
<1>1. /\ call[c] # None /\ call[c] \in Call /\ call[c].cfg \in Config
      /\ \A f \in IdentityFields : call[c].cfg[f] = DayZero[call[c].m][f]
  BY DEF At, IInv, TypeOK, WorkIsSound, SoundWork, Call
<1>2. cfg \in Config /\ \A f \in IdentityFields : cfg[f] = DayZero[call[c].m][f]
  BY <1>1, PatchedTyped, PatchedKeepsIdentity
<1>3. call' = [call EXCEPT ![c] = new] /\ capi' = capi
  BY DEF Merge
<1> HIDE DEF cfg
<1>4. new \in Call /\ new.pc = "apply" /\ new.cfg = cfg /\ new.m = call[c].m
  BY <1>1, <1>2 DEF Call, UpdateSteps
<1>5. call'[c] = new
  BY <1>3 DEF IInv, TypeOK
<1>6. c \notin fresh'
  BY NoCopy DEF At, kube
<1> HIDE DEF new
<1>7. SoundWork(c)'
  BY <1>2, <1>4, <1>5, <1>6 DEF SoundWork, At
<1> QED
  BY <1>3, <1>4, <1>7, PlainAdvance

\* A step of c to another step, in which nothing else changes.
LEMMA GotoInv ==
  ASSUME IInv, NEW c \in Calls, call[c] # None, ~At(c, "put"), ~At(c, "remove"),
         NEW new \in Call, call' = [call EXCEPT ![c] = new],
         new.pc \notin {"put", "remove"},
         new.pc \in {"merge", "recover", "apply"} =>
           /\ new.cfg # None
           /\ \A f \in IdentityFields : new.cfg[f] = DayZero[new.m][f],
         UNCHANGED <<memory, kube, talos, capi, disruptions>>
  PROVE  IInv'
<1>1. call'[c] = new
  BY DEF IInv, TypeOK
<1>2. c \notin fresh'
  BY NoCopy DEF kube
<1>3. SoundWork(c)'
  BY <1>1, <1>2 DEF SoundWork, At
<1>4. /\ state' \in [Replicas -> [Machines -> UpdateState \cup {None}]]
      /\ configPatches' \in [Replicas -> [Machines -> Patch \cup {None}]]
  BY DEF IInv, TypeOK, memory
<1> QED
  BY <1>3, <1>4, PlainAdvance

\* A node that takes the config of a call keeps its identity.
LEMMA NodeTakesTyped ==
  ASSUME IInv, NEW c \in Calls, call[c] # None, NodeTakes(c)
  PROVE  /\ node' \in [Machines -> Config] /\ rebooted' \subseteq Machines
         /\ IdentityPreserved'
<1>1. /\ call[c].m \in Machines /\ call[c].cfg \in Config
      /\ \A f \in IdentityFields : call[c].cfg[f] = DayZero[call[c].m][f]
  BY DEF NodeTakes, IInv, TypeOK, WorkIsSound, SoundWork, Call
<1>2. node' = [node EXCEPT ![call[c].m] = call[c].cfg]
  BY DEF NodeTakes
<1>3. node \in [Machines -> Config] /\ rebooted \subseteq Machines
  BY DEF IInv, TypeOK
<1>4. rebooted' \subseteq Machines
  BY <1>1, <1>3 DEF NodeTakes
<1>5. IdentityPreserved'
  BY <1>1, <1>2, <1>3 DEF IInv, IdentityPreserved
<1> QED
  BY <1>1, <1>2, <1>3, <1>4, <1>5

LEMMA UpdateStepInv ==
  ASSUME IInv, NEW c \in Calls, UpdateStep(c), UNCHANGED disruptions
  PROVE  IInv'
<1>0. /\ TypeOK /\ call[c] # None /\ call[c] \in Call
      /\ cache \in [exists : BOOLEAN, data : CacheData]
      /\ state \in [Replicas -> [Machines -> UpdateState \cup {None}]]
      /\ configPatches \in [Replicas -> [Machines -> Patch \cup {None}]]
  <2>1. call[c] # None
    BY DEF At, UpdateStep, NoAddress, TimesOut, Completes, Settles, Proceeds,
           ReadFails, ReadLive, MergeStored, NothingStored, MergeRecovered,
           Direct, DirectFails, NothingToApply, MergeDirect, MergeFails,
           NodeTakes, ApplyAccepted, ApplyUnacked, ApplyRejected,
           CleanupNotNeeded, CleanupGet, CleanupFails, CleanupUpdate
  <2> QED
    BY <2>1 DEF IInv, TypeOK
<1>1. CASE NoAddress(c)
  BY <1>0, <1>1, PlainReply DEF NoAddress, At, memory
<1>2. CASE TimesOut(c)
  BY <1>0, <1>2, PlainReply, MemoryTyped DEF TimesOut, EndUpdate, At
<1>3. CASE Completes(c)
  BY <1>0, <1>3, PlainReply, MemoryTyped DEF Completes, EndUpdate, At
<1>4. CASE Settles(c)
  BY <1>0, <1>4, PlainReply DEF Settles, At, memory
<1>5. CASE Proceeds(c)
  <2> DEFINE new == [call[c] EXCEPT !.pc = "read", !.loaded = Mine(c) # None]
  <2>1. new \in Call /\ new.pc = "read"
    BY <1>0 DEF Call, UpdateSteps
  <2>2. call' = [call EXCEPT ![c] = new]
    BY <1>5 DEF Proceeds
  <2> HIDE DEF new
  <2> QED
    BY <1>0, <1>5, <2>1, <2>2, GotoInv DEF Proceeds, At
<1>6. CASE ReadFails(c)
  BY <1>0, <1>6, PlainReply DEF ReadFails, At, memory
<1>7. CASE ReadLive(c)
  <2> DEFINE new == [call[c] EXCEPT !.pc = "merge", !.cfg = node[call[c].m]]
  <2>1. node[call[c].m] \in Config /\ call[c].m \in Machines
    BY <1>0, CallTyped DEF TypeOK
  <2>2. new \in Call /\ new.pc = "merge" /\ new.cfg = node[call[c].m]
        /\ new.m = call[c].m
    BY <1>0, <2>1 DEF Call, UpdateSteps
  <2>3. call' = [call EXCEPT ![c] = new]
    BY <1>7 DEF ReadLive
  <2>4. \A f \in IdentityFields : node[call[c].m][f] = DayZero[call[c].m][f]
    BY <2>1 DEF IInv, IdentityPreserved
  <2> HIDE DEF new
  <2>5. /\ new.cfg # None
        /\ \A f \in IdentityFields : new.cfg[f] = DayZero[new.m][f]
    BY <2>1, <2>2, <2>4
  <2>6. /\ ~At(c, "put") /\ ~At(c, "remove")
        /\ UNCHANGED <<memory, kube, talos, capi, disruptions>>
    BY <1>7 DEF ReadLive, At
  <2> QED
    BY <1>0, <2>2, <2>3, <2>5, <2>6, GotoInv
<1>8. CASE MergeStored(c)
  BY <1>0, <1>8, CallTyped, MergeInv DEF MergeStored, memory
<1>9. CASE NothingStored(c)
  <2> DEFINE new == [call[c] EXCEPT !.pc = "recover"]
  <2>1. new \in Call /\ new.pc = "recover" /\ new.cfg = call[c].cfg
        /\ new.m = call[c].m
    BY <1>0 DEF Call, UpdateSteps
  <2>2. call' = [call EXCEPT ![c] = new] /\ capi' = capi
    BY <1>9 DEF NothingStored, Goto
  <2>3. /\ call[c].cfg # None
        /\ \A f \in IdentityFields : call[c].cfg[f] = DayZero[call[c].m][f]
    BY <1>9 DEF NothingStored, IInv, WorkIsSound, SoundWork
  <2> HIDE DEF new
  <2> QED
    BY <1>0, <1>9, <2>1, <2>2, <2>3, GotoInv DEF NothingStored, At
<1>10. CASE MergeRecovered(c)
  <2> DEFINE p == Diff(cache.data[call[c].m].data, call[c].des.data)
  <2>1. p \in Patch
    BY <1>0, <1>10, CallTyped, ExtractableTyped, DiffTyped
      DEF MergeRecovered, Recoverable
  <2>2. /\ configPatches' = [configPatches EXCEPT ![call[c].r][call[c].m] = p]
        /\ Merge(c, p) /\ At(c, "recover") /\ UNCHANGED <<state, kube, talos>>
    BY <1>10 DEF MergeRecovered
  <2> HIDE DEF p
  <2>3. configPatches' \in [Replicas -> [Machines -> Patch \cup {None}]]
    BY <1>0, <2>1, <2>2, CallTyped, MapTyped
  <2> QED
    BY <1>0, <2>1, <2>2, <2>3, MergeInv
<1>11. CASE DirectFails(c)
  BY <1>0, <1>11, PlainReply DEF DirectFails, Direct, At, memory
<1>12. CASE NothingToApply(c)
  BY <1>0, <1>12, PlainReply, MemoryTyped DEF NothingToApply, Direct, Finish, At
<1>13. CASE MergeDirect(c)
  <2>1. call[c].des.strategic \in Patch
    BY <1>0, <1>13, CallTyped DEF MergeDirect, BootstrapConfig
  <2> QED
    BY <1>0, <1>13, <2>1, MergeInv DEF MergeDirect, Direct, memory
<1>14. CASE MergeFails(c)
  BY <1>0, <1>14, PlainReply DEF MergeFails, At, memory
<1>15. CASE ApplyAccepted(c)
  <2>1. /\ NodeTakes(c) /\ Goto(c, "cleanup")
        /\ UNCHANGED <<memory, kube, disruptions>>
    BY <1>15 DEF ApplyAccepted
  <2> DEFINE new == [call[c] EXCEPT !.pc = "cleanup"]
  <2>2. new \in Call /\ new.pc = "cleanup"
    BY <1>0 DEF Call, UpdateSteps
  <2>3. call' = [call EXCEPT ![c] = new] /\ capi' = capi
    BY <2>1 DEF Goto
  <2> HIDE DEF new
  <2>4. /\ call' \in [Calls -> Call \cup {None}] /\ call'[c] = new
        /\ \A d \in Calls \ {c} : call'[d] = call[d]
    BY <2>2, <2>3 DEF IInv, TypeOK
  <2>5. /\ node' \in [Machines -> Config] /\ rebooted' \subseteq Machines
        /\ IdentityPreserved'
    BY <1>0, <2>1, NodeTakesTyped
  <2>6. TypeOK'
    BY <2>1, <2>3, <2>4, <2>5 DEF IInv, TypeOK, memory, kube
  <2>7. c \notin fresh'
    BY <2>1, NoCopy DEF NodeTakes, At, kube
  <2>8. SoundWork(c)'
    BY <2>2, <2>4, <2>7 DEF SoundWork, At
  <2>9. WorkIsSound'
    <3>1. (cache.exists \/ (fresh = {} /\ \A m \in Machines : cache.data[m] = None))'
      BY <2>1 DEF IInv, WorkIsSound, kube
    <3> QED
      BY <2>1, <2>4, <2>8, <3>1, OthersSound DEF IInv, kube
  <2> QED
    BY <2>5, <2>6, <2>9 DEF IInv
<1>16. CASE ApplyUnacked(c)
  <2>1. /\ NodeTakes(c) /\ Reply(c, "retry")
        /\ state' = [state EXCEPT ![call[c].r][call[c].m] =
                       AfterFailedApply(@, call[c].loaded)]
        /\ UNCHANGED <<configPatches, kube, disruptions>>
    BY <1>16 DEF ApplyUnacked, RetryLater
  <2>2. /\ node' \in [Machines -> Config] /\ rebooted' \subseteq Machines
        /\ IdentityPreserved'
    BY <1>0, <2>1, NodeTakesTyped
  <2>3. call[c].loaded \in BOOLEAN
    BY <1>0 DEF Call
  <2>4. TypeOK'
    BY <1>0, <2>1, <2>2, <2>3, ReplyTyped, MemoryTyped DEF TypeOK, kube
  <2>5. WorkIsSound'
    BY <1>0, <2>1, NoCopy, ReplySound DEF NodeTakes, At, kube
  <2> QED
    BY <2>2, <2>4, <2>5 DEF IInv
<1>17. CASE ApplyRejected(c)
  <2>1. call[c].loaded \in BOOLEAN
    BY <1>0 DEF Call
  <2> QED
    BY <1>0, <1>17, <2>1, PlainReply, MemoryTyped DEF ApplyRejected, RetryLater, At
<1>18. CASE CleanupNotNeeded(c)
  BY <1>0, <1>18, PlainReply, MemoryTyped
    DEF CleanupNotNeeded, DropPatches, Finish, At
<1>19. CASE CleanupGet(c)
  <2> DEFINE new == [call[c] EXCEPT !.pc = "remove", !.copy = cache.data]
  <2>1. new \in Call /\ new.pc = "remove" /\ new.copy = cache.data
    BY <1>0 DEF Call, UpdateSteps
  <2>2. call' = [call EXCEPT ![c] = new]
    BY <1>19 DEF CleanupGet
  <2> HIDE DEF new
  <2>3. /\ call' \in [Calls -> Call \cup {None}] /\ call'[c] = new
        /\ \A d \in Calls \ {c} : call'[d] = call[d]
    BY <2>1, <2>2 DEF IInv, TypeOK
  <2>4. /\ cache' = cache /\ fresh' = fresh \cup {c}
        /\ configPatches' = Deleted(configPatches, call[c].r, call[c].m)
        /\ UNCHANGED <<state, talos, capi, disruptions>>
    BY <1>19 DEF CleanupGet, DropPatches
  <2>5. TypeOK'
    BY <1>0, <2>3, <2>4, MemoryTyped DEF TypeOK, talos
  <2>6. SoundWork(c)'
    BY <2>1, <2>3, <2>4 DEF SoundWork, At
  <2>7. cache.exists
    BY <1>0, <1>19, CallTyped DEF CleanupGet, IInv, WorkIsSound
  <2>8. WorkIsSound'
    BY <2>3, <2>4, <2>6, <2>7, OthersSound DEF IInv
  <2> QED
    BY <2>4, <2>5, <2>8 DEF IInv, IdentityPreserved, talos
<1>20. CASE CleanupFails(c)
  <2>1. /\ Reply(c, "retry") /\ cache' = cache /\ fresh' = fresh \ {c}
        /\ state' = [state EXCEPT ![call[c].r][call[c].m] = JustApplied]
        /\ UNCHANGED <<talos, disruptions>>
    BY <1>20 DEF CleanupFails, Finish
  <2>2. configPatches' \in [Replicas -> [Machines -> Patch \cup {None}]]
    BY <1>0, <1>20, MemoryTyped DEF CleanupFails, DropPatches
  <2>3. TypeOK'
    BY <1>0, <2>1, <2>2, ReplyTyped, MemoryTyped DEF TypeOK, talos
  <2>4. WorkIsSound'
    BY <1>0, <2>1, ReplySound
  <2> QED
    BY <2>1, <2>3, <2>4 DEF IInv, IdentityPreserved, talos
<1>21. CASE CleanupUpdate(c)
  <2>1. /\ At(c, "remove") /\ Put(c, None) /\ Reply(c, "retry")
        /\ state' = [state EXCEPT ![call[c].r][call[c].m] = JustApplied]
        /\ UNCHANGED <<configPatches, talos, disruptions>>
    BY <1>21 DEF CleanupUpdate, Finish
  <2>2. cache' \in [exists : BOOLEAN, data : CacheData] /\ fresh' \subseteq Calls
    BY <2>1, PutTyped
  <2>3. TypeOK'
    BY <1>0, <2>1, <2>2, ReplyTyped, MemoryTyped DEF TypeOK, talos
  <2>4. WorkIsSound'
    BY <2>1, PutSound
  <2> QED
    BY <2>1, <2>3, <2>4 DEF IInv, IdentityPreserved, talos
<1> QED
  BY <1>1, <1>2, <1>3, <1>4, <1>5, <1>6, <1>7, <1>8, <1>9, <1>10, <1>11,
     <1>12, <1>13, <1>14, <1>15, <1>16, <1>17, <1>18, <1>19, <1>20, <1>21
    DEF UpdateStep

-----------------------------------------------------------------------------
(***************************************************************************)
(* The steps of CAPI and of the environment.                               *)
(***************************************************************************)
LEMMA InitInv == Init => IInv
<1> SUFFICES ASSUME Init PROVE IInv
  OBVIOUS
<1>1. capi \in [Machines -> CapiState]
      /\ \A m \in Machines : Usable(capi[m].cur) /\ capi[m].cur \in Bootstraps
  BY DEF Init, CapiState
<1>2. ASSUME NEW m \in Machines
      PROVE  /\ node[m] = Patched(DayZero[m], Target(capi[m].cur))
             /\ Target(capi[m].cur) \in Patch /\ DayZero[m] \in Config
  BY <1>1, TargetTyped DEF Init
<1>3. ASSUME NEW m \in Machines
      PROVE  /\ node[m] \in Config
             /\ \A f \in IdentityFields : node[m][f] = DayZero[m][f]
  BY <1>2, PatchedTyped, PatchedKeepsIdentity
<1>4. node = [m \in Machines |-> node[m]]
  BY DEF Init
<1>5. node \in [Machines -> Config]
  BY <1>3, <1>4
<1>6. cache \in [exists : BOOLEAN, data : CacheData]
  BY DEF Init, CacheData
<1>7. TypeOK
  BY <1>1, <1>5, <1>6 DEF Init, TypeOK
<1>8. WorkIsSound
  BY DEF Init, WorkIsSound, SoundWork, At
<1>9. IdentityPreserved
  BY <1>3 DEF IdentityPreserved
<1> QED
  BY <1>7, <1>8, <1>9 DEF IInv

\* Steps of CAPI that change what it asks for.
LEMMA RecreateInv ==
  ASSUME IInv, NEW m \in Machines, NEW b \in Bootstraps, Recreate(m, b)
  PROVE  IInv'
<1> DEFINE new == Patched(DayZero[m], Target(b))
<1>1. DayZero[m] \in Config /\ Target(b) \in Patch
  BY InPlaceAssumption, TargetTyped DEF Recreate
<1>2. new \in Config /\ \A f \in IdentityFields : new[f] = DayZero[m][f]
  BY <1>1, PatchedTyped, PatchedKeepsIdentity
<1> HIDE DEF new
<1>3. TypeOK'
  <2>1. [phase |-> "idle", cur |-> b, des |-> b, verdict |-> "none"] \in CapiState
    BY DEF CapiState
  <2> QED
    BY <1>2, <2>1 DEF IInv, TypeOK, Recreate, Disrupt, memory, kube, new
<1>4. WorkIsSound'
  BY DEF IInv, WorkIsSound, SoundWork, At, Recreate, kube
<1>5. IdentityPreserved'
  BY <1>2 DEF IInv, TypeOK, IdentityPreserved, Recreate, new
<1> QED
  BY <1>3, <1>4, <1>5 DEF IInv

LEMMA PlanInv ==
  ASSUME IInv, NEW m \in Machines, NEW d \in Bootstraps, Roll(m, d) \/ Replan(m, d)
  PROVE  IInv'
<1>1. capi[m] \in CapiState /\ capi \in [Machines -> CapiState]
      /\ disruptions \in 0 .. MaxDisruptions
  BY DEF IInv, TypeOK
<1>2. UNCHANGED <<memory, kube, talos, call>>
  BY DEF Roll, Replan
<1>3. capi' \in [Machines -> CapiState]
  <2>1. CASE Roll(m, d)
    <3>1. PICK p \in {"check", "update"} :
            capi' = [capi EXCEPT ![m].phase = p, ![m].des = d]
      BY <2>1 DEF Roll
    <3>2. [capi[m] EXCEPT !.phase = p, !.des = d] \in CapiState
      BY <1>1 DEF CapiState
    <3> QED
      BY <1>1, <3>1, <3>2
  <2>2. CASE Replan(m, d)
    <3>1. [capi[m] EXCEPT !.phase = "check", !.des = d, !.verdict = "none"]
            \in CapiState
      BY <1>1 DEF CapiState
    <3> QED
      BY <1>1, <2>2, <3>1 DEF Replan
  <2> QED
    BY <2>1, <2>2
<1>4. disruptions' \in 0 .. MaxDisruptions
  BY <1>1 DEF Roll, Replan, Disrupt
<1>5. TypeOK'
  BY <1>2, <1>3, <1>4 DEF IInv, TypeOK, memory, kube, talos
<1>6. WorkIsSound'
  BY <1>2 DEF IInv, WorkIsSound, SoundWork, At, kube
<1>7. IdentityPreserved'
  BY <1>2 DEF IInv, IdentityPreserved, talos
<1> QED
  BY <1>5, <1>6, <1>7 DEF IInv

LEMMA StartCallInv ==
  ASSUME IInv, NEW c \in Calls, NEW r \in Replicas, NEW m \in Machines,
         StartCall(c, r, m)
  PROVE  IInv'
<1> DEFINE new == [pc |-> IF capi[m].phase = "check" THEN "can" ELSE "load",
                   r |-> r, m |-> m, cur |-> capi[m].cur, des |-> capi[m].des,
                   awaited |-> TRUE, loaded |-> FALSE, cfg |-> None, copy |-> None]
<1>1. capi[m] \in CapiState /\ capi \in [Machines -> CapiState]
  BY DEF IInv, TypeOK
<1>2. new \in Call /\ new.pc \in {"can", "load"}
  BY <1>1 DEF Call, CapiState, CanUpdateSteps, UpdateSteps
<1>3. /\ call[c] = None /\ call' = [call EXCEPT ![c] = new]
      /\ capi' = [capi EXCEPT ![m].verdict = "none"]
      /\ UNCHANGED <<memory, kube, talos, disruptions>>
  BY DEF StartCall
<1> HIDE DEF new
<1>4. /\ call' \in [Calls -> Call \cup {None}] /\ call'[c] = new
      /\ \A d \in Calls \ {c} : call'[d] = call[d]
  BY <1>2, <1>3 DEF IInv, TypeOK
<1>5. capi' \in [Machines -> CapiState]
  <2>1. [capi[m] EXCEPT !.verdict = "none"] \in CapiState
    BY <1>1 DEF CapiState
  <2> QED
    BY <1>1, <1>3, <2>1
<1>6. TypeOK'
  BY <1>3, <1>4, <1>5 DEF IInv, TypeOK, memory, kube, talos
<1>7. c \notin fresh'
  BY <1>3 DEF IInv, WorkIsSound, SoundWork, At, kube
<1>8. SoundWork(c)'
  BY <1>2, <1>4, <1>7 DEF SoundWork, At
<1>9. (cache.exists \/ (fresh = {} /\ \A x \in Machines : cache.data[x] = None))'
  BY <1>3 DEF IInv, WorkIsSound, kube
<1>10. WorkIsSound'
  BY <1>3, <1>4, <1>8, <1>9, OthersSound DEF IInv, kube
<1>11. IdentityPreserved'
  BY <1>3 DEF IInv, IdentityPreserved, talos
<1> QED
  BY <1>6, <1>10, <1>11 DEF IInv

LEMMA AbandonInv ==
  ASSUME IInv, NEW c \in Calls, Abandon(c)
  PROVE  IInv'
<1> DEFINE new == [call[c] EXCEPT !.awaited = FALSE]
<1>1. call[c] # None /\ call[c] \in Call
  BY DEF Abandon, IInv, TypeOK
<1>2. /\ call' = [call EXCEPT ![c] = new]
      /\ UNCHANGED <<memory, kube, talos, capi>>
      /\ disruptions' = disruptions + 1 /\ disruptions < MaxDisruptions
  BY DEF Abandon, Disrupt
<1>3. /\ new \in Call /\ new.pc = call[c].pc /\ new.copy = call[c].copy
      /\ new.cfg = call[c].cfg /\ new.m = call[c].m
  BY <1>1 DEF Call
<1> HIDE DEF new
<1>4. /\ call' \in [Calls -> Call \cup {None}] /\ call'[c] = new
      /\ \A d \in Calls \ {c} : call'[d] = call[d]
  BY <1>2, <1>3 DEF IInv, TypeOK
<1>5. disruptions' \in 0 .. MaxDisruptions
  BY <1>2 DEF IInv, TypeOK
<1>6. TypeOK'
  BY <1>2, <1>4, <1>5 DEF IInv, TypeOK, memory, kube, talos
<1>7. SoundWork(c)'
  <2>1. SoundWork(c)
    BY DEF IInv, WorkIsSound
  <2> QED
    BY <1>1, <1>2, <1>3, <1>4, <2>1 DEF SoundWork, At, kube
<1>8. (cache.exists \/ (fresh = {} /\ \A x \in Machines : cache.data[x] = None))'
  BY <1>2 DEF IInv, WorkIsSound, kube
<1>9. WorkIsSound'
  BY <1>2, <1>4, <1>7, <1>8, OthersSound DEF IInv, kube
<1>10. IdentityPreserved'
  BY <1>2 DEF IInv, IdentityPreserved, talos
<1> QED
  BY <1>6, <1>9, <1>10 DEF IInv

LEMMA CrashInv ==
  ASSUME IInv, NEW r \in Replicas, Crash(r)
  PROVE  IInv'
<1>1. /\ call' = [c \in Calls |-> IF call[c] # None /\ call[c].r = r
                                  THEN None ELSE call[c]]
      /\ fresh' = {c \in fresh : call'[c] # None}
      /\ UNCHANGED <<cache, talos, capi>>
      /\ disruptions' = disruptions + 1 /\ disruptions < MaxDisruptions
  BY DEF Crash, Disrupt
<1>2. /\ state' \in [Replicas -> [Machines -> UpdateState \cup {None}]]
      /\ configPatches' \in [Replicas -> [Machines -> Patch \cup {None}]]
  BY DEF Crash, IInv, TypeOK
<1>3. call' \in [Calls -> Call \cup {None}]
  BY <1>1 DEF IInv, TypeOK
<1>4. disruptions' \in 0 .. MaxDisruptions /\ fresh' \subseteq Calls
  BY <1>1 DEF IInv, TypeOK
<1>5. TypeOK'
  BY <1>1, <1>2, <1>3, <1>4 DEF IInv, TypeOK, talos
<1>6. ASSUME NEW c \in Calls PROVE SoundWork(c)'
  <2>1. SoundWork(c)
    BY DEF IInv, WorkIsSound
  <2>2. call'[c] = None \/ call'[c] = call[c]
    BY <1>1
  <2> QED
    BY <1>1, <2>1, <2>2 DEF SoundWork, At
<1>7. WorkIsSound'
  BY <1>1, <1>6 DEF IInv, WorkIsSound
<1>8. IdentityPreserved'
  BY <1>1 DEF IInv, IdentityPreserved, talos
<1> QED
  BY <1>5, <1>7, <1>8 DEF IInv

LEMMA TickInv ==
  ASSUME IInv, Tick
  PROVE  IInv'
<1>1. /\ state' = [r \in Replicas |-> [m \in Machines |-> Older(state[r][m])]]
      /\ UNCHANGED <<configPatches, kube, talos, call, capi, disruptions>>
  BY DEF Tick
<1>2. \A s \in UpdateState \cup {None} : Older(s) \in UpdateState \cup {None}
  BY DEF Older, TimedOut, UpdateState
<1>3. state \in [Replicas -> [Machines -> UpdateState \cup {None}]]
  BY DEF IInv, TypeOK
<1>4. state' \in [Replicas -> [Machines -> UpdateState \cup {None}]]
  BY <1>1, <1>2, <1>3
<1>5. TypeOK'
  BY <1>1, <1>4 DEF IInv, TypeOK, kube, talos
<1>6. WorkIsSound'
  BY <1>1 DEF IInv, WorkIsSound, SoundWork, At, kube
<1>7. IdentityPreserved'
  BY <1>1 DEF IInv, IdentityPreserved, talos
<1> QED
  BY <1>5, <1>6, <1>7 DEF IInv

LEMMA StutterInv ==
  ASSUME IInv, UNCHANGED vars
  PROVE  IInv'
<1>1. TypeOK'
  BY DEF IInv, TypeOK, vars, memory, kube, talos
<1>2. WorkIsSound'
  BY DEF IInv, WorkIsSound, SoundWork, At, vars, kube
<1>3. IdentityPreserved'
  BY DEF IInv, IdentityPreserved, vars, talos
<1> QED
  BY <1>1, <1>2, <1>3 DEF IInv

\* Every step keeps the invariant.
LEMMA NextInv == IInv /\ [Next]_vars => IInv'
<1> SUFFICES ASSUME IInv, [Next]_vars PROVE IInv'
  OBVIOUS
<1>1. CASE \E m \in Machines, d \in Bootstraps :
             Roll(m, d) \/ Replan(m, d) \/ Recreate(m, d)
  BY <1>1, PlanInv, RecreateInv
<1>2. CASE \E c \in Calls, r \in Replicas, m \in Machines : StartCall(c, r, m)
  BY <1>2, StartCallInv
<1>3. ASSUME NEW c \in Calls, Abandon(c) PROVE IInv'
  BY <1>3, AbandonInv
<1>4. ASSUME NEW c \in Calls, Handler(c) PROVE IInv'
  BY <1>4, CanUpdateStepInv, UpdateStepInv DEF Handler
<1>5. CASE \E r \in Replicas : Crash(r)
  BY <1>5, CrashInv
<1>6. CASE Tick
  BY <1>6, TickInv
<1>7. CASE UNCHANGED vars
  BY <1>7, StutterInv
<1> QED
  BY <1>1, <1>2, <1>3, <1>4, <1>5, <1>6, <1>7 DEF Next

LEMMA Invariance == Spec => []IInv
<1>1. Init => IInv
  BY InitInv
<1>2. IInv /\ [Next]_vars => IInv'
  BY NextInv
<1> QED
  BY <1>1, <1>2, PTL DEF Spec

-----------------------------------------------------------------------------
(***************************************************************************)
(* The theorems.                                                           *)
(***************************************************************************)

\* Every variable keeps its type: in particular ages stay bounded, and no
\* reply takes a Machine's record in CAPI out of its states.
THEOREM TypeCorrect == Spec => []TypeOK
<1>1. IInv => TypeOK
  BY DEF IInv
<1> QED
  BY <1>1, Invariance, PTL

\* Patch mode preserves per-node identity, whichever of the three paths an
\* update takes and whatever fails, restarts or overlaps.
THEOREM Identity == Spec => []IdentityPreserved
<1>1. IInv => IdentityPreserved
  BY DEF IInv
<1> QED
  BY <1>1, Invariance, PTL

\* Only a node that takes a config changes or reboots, or one that is replaced.
LEMMA TalosChanges ==
  ASSUME [Next]_vars
  PROVE  \/ UNCHANGED talos \/ \E c \in Calls : NodeTakes(c)
         \/ \E m \in Machines, b \in Bootstraps : Recreate(m, b)
<1>1. ASSUME NEW c \in Calls, CanUpdateStep(c) PROVE UNCHANGED talos
  BY <1>1 DEF CanUpdateStep, ClaimFails, ClaimOnly, ClaimAndStore, PersistGet,
              PersistFails, PersistCreate, PersistUpdate
<1>2. ASSUME NEW c \in Calls, UpdateStep(c) PROVE UNCHANGED talos \/ NodeTakes(c)
  BY <1>2 DEF UpdateStep, NoAddress, TimesOut, Completes, Settles, Proceeds,
              ReadFails, ReadLive, MergeStored, NothingStored, MergeRecovered,
              DirectFails, NothingToApply, MergeDirect, MergeFails,
              ApplyAccepted, ApplyUnacked, ApplyRejected,
              CleanupNotNeeded, CleanupGet, CleanupFails, CleanupUpdate
<1> QED
  BY <1>1, <1>2 DEF Next, Handler, Roll, Replan, Recreate, StartCall, Abandon,
                    Crash, Tick, vars

\* No-reboot mode keeps every update from rebooting a control plane node.
THEOREM NoReboot == Spec => []ControlPlaneNeverRebooted
<1>1. Init => ControlPlaneNeverRebooted
  BY DEF Init, ControlPlaneNeverRebooted
<1>2. ControlPlaneNeverRebooted /\ [Next]_vars => ControlPlaneNeverRebooted'
  <2> SUFFICES ASSUME ControlPlaneNeverRebooted, [Next]_vars
               PROVE  ControlPlaneNeverRebooted'
    OBVIOUS
  <2>1. CASE UNCHANGED talos
    BY <2>1 DEF ControlPlaneNeverRebooted, talos
  <2>2. ASSUME NEW c \in Calls, NodeTakes(c)
        PROVE  ControlPlaneNeverRebooted'
    <3>1. NeedsReboot(node[call[c].m], call[c].cfg) => call[c].m \notin ControlPlane
      BY <2>2 DEF NodeTakes, Acceptable, ApplyMode
    <3> QED
      BY <2>2, <3>1 DEF NodeTakes, ControlPlaneNeverRebooted
  <2>3. ASSUME NEW m \in Machines, NEW b \in Bootstraps, Recreate(m, b)
        PROVE  ControlPlaneNeverRebooted'
    BY <2>3 DEF Recreate, ControlPlaneNeverRebooted
  <2> QED
    BY <2>1, <2>2, <2>3, TalosChanges
<1> QED
  BY <1>1, <1>2, PTL DEF Spec

\* Only these steps write the ConfigMap.
LEMMA CacheChanges ==
  ASSUME [Next]_vars
  PROVE  \/ cache' = cache
         \/ \E c \in Calls : PersistCreate(c) \/ PersistUpdate(c) \/ CleanupUpdate(c)
<1>1. ASSUME NEW c \in Calls, CanUpdateStep(c)
      PROVE  cache' = cache \/ PersistCreate(c) \/ PersistUpdate(c)
  BY <1>1 DEF CanUpdateStep, ClaimFails, ClaimOnly, ClaimAndStore, PersistGet,
              PersistFails, kube
<1>2. ASSUME NEW c \in Calls, UpdateStep(c)
      PROVE  cache' = cache \/ CleanupUpdate(c)
  BY <1>2 DEF UpdateStep, NoAddress, TimesOut, Completes, Settles, Proceeds,
              ReadFails, ReadLive, MergeStored, NothingStored, MergeRecovered,
              DirectFails, NothingToApply, MergeDirect, MergeFails,
              ApplyAccepted, ApplyUnacked, ApplyRejected,
              CleanupNotNeeded, CleanupGet, CleanupFails, kube
<1> QED
  BY <1>1, <1>2 DEF Next, Handler, Roll, Replan, Recreate, StartCall, Abandon,
                    Crash, Tick, vars, kube

\* The check of the resourceVersion suffices for any number of handlers to
\* share the ConfigMap: no entry is changed but by a call for its Machine.
THEOREM EntriesKept == Spec => NoLostCacheEntry
<1> DEFINE A == \A m \in Machines : cache'.data[m] # cache.data[m] =>
                  \E c \in InFlight(m) : call'[c] # call[c]
<1>1. IInv /\ [Next]_vars => [A]_vars
  <2> SUFFICES ASSUME IInv, [Next]_vars,
                      NEW m \in Machines, cache'.data[m] # cache.data[m]
               PROVE  \E c \in InFlight(m) : call'[c] # call[c]
    OBVIOUS
  <2>1. PICK c \in Calls : PersistCreate(c) \/ PersistUpdate(c) \/ CleanupUpdate(c)
    BY CacheChanges
  <2>2. call[c] # None /\ call'[c] = None
    <3>1. call[c] # None
      BY <2>1 DEF PersistCreate, PersistUpdate, CleanupUpdate, At
    <3>2. Reply(c, "claimed") \/ Reply(c, "retry")
      BY <2>1 DEF PersistCreate, PersistUpdate, CleanupUpdate, Finish
    <3> QED
      BY <3>1, <3>2, ReplyTyped DEF IInv
  <2>3. call[c].m = m
    <3>1. cache.data \in CacheData /\ call[c].m \in Machines
          /\ call[c].cur \in Bootstraps
      BY <2>2, CallTyped DEF IInv, TypeOK
    <3>2. CASE PersistCreate(c)
      <4>1. ~cache.exists /\ cache.data[m] = None
            /\ cache'.data = OnlyEntry(cache.data, call[c].m, call[c].cur)
        BY <3>2 DEF PersistCreate, IInv, WorkIsSound
      <4> QED
        BY <4>1 DEF OnlyEntry
    <3>3. ASSUME NEW b \in Bootstraps \cup {None}, Put(c, b),
                 At(c, "put") \/ At(c, "remove")
          PROVE  call[c].m = m
      BY <3>1, <3>3, PutEntry DEF CacheData, kube
    <3>4. CASE PersistUpdate(c)
      BY <3>1, <3>3, <3>4 DEF PersistUpdate
    <3>5. CASE CleanupUpdate(c)
      BY <3>3, <3>5 DEF CleanupUpdate
    <3> QED
      BY <2>1, <3>2, <3>4, <3>5
  <2> QED
    BY <2>2, <2>3 DEF InFlight
<1> QED
  BY <1>1, Invariance, PTL DEF Spec, NoLostCacheEntry
=============================================================================
