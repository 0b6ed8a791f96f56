--------------------------- MODULE Contract_proofs ---------------------------
(***************************************************************************)
(* What the formats of a BootstrapConfig have in common: if every config   *)
(* that a call is about to apply is what its request asks for, the         *)
(* handlers keep UpdateContract, and CAPI is never told that an update is  *)
(* complete when it is not.                                                *)
(*                                                                         *)
(* That needs what the violated runs take away: one replica, and a CAPI    *)
(* that neither overlaps calls for a Machine nor changes its mind in an    *)
(* update.  Restarts, abandoned and late calls, lost replies and failing   *)
(* exchanges of every kind are allowed, for any number of Machines.        *)
(***************************************************************************)
EXTENDS InPlaceUpdate_proofs

Calm ==
  /\ {"overlap", "replan", "recreate"} \cap Faults = {}
  /\ \E r \in Replicas : Replicas = {r}

-----------------------------------------------------------------------------
(***************************************************************************)
(* The invariant.                                                          *)
(***************************************************************************)
\* A Machine has at most one call in flight.
OneCall ==
  \A c, d \in Calls :
    (call[c] # None /\ call[d] # None /\ call[c].m = call[d].m) => c = d

\* A call is for the update in progress, and at its step of it: a config about
\* to be applied has all the update asks for, and so has the node after that.
CallFits(c) ==
  call[c] # None =>
    /\ call[c].des = capi[call[c].m].des
    /\ call[c].pc \in CanUpdateSteps => capi[call[c].m].phase = "check"
    /\ call[c].pc \in UpdateSteps => capi[call[c].m].phase = "update"
    /\ call[c].pc = "apply" => Converged(call[c].cfg, call[c].des)
    /\ call[c].pc \in {"cleanup", "remove"} =>
         Converged(node[call[c].m], call[c].des)

\* The applied flag is true of the update in progress; between updates there is
\* no state, and the node has its config.
MachineFits(m) ==
  /\ \A r \in Replicas :
       (state[r][m] # None /\ state[r][m].applied) =>
         capi[m].phase = "update" /\ Converged(node[m], capi[m].des)
  /\ capi[m].phase = "idle" =>
       /\ capi[m].cur = capi[m].des
       /\ Converged(node[m], capi[m].cur)
       /\ \A r \in Replicas : state[r][m] = None

Fits ==
  /\ OneCall
  /\ \A c \in Calls : CallFits(c)
  /\ \A m \in Machines : MachineFits(m)

\* What a format has to provide: the config that a call makes of the live one
\* has all its request asks for, and it finds nothing to apply only when the
\* node has that already.
MergesRight(c) ==
  /\ (MergeStored(c) \/ MergeRecovered(c) \/ MergeDirect(c)) =>
       Converged(call'[c].cfg, call[c].des)
  /\ NothingToApply(c) => Converged(node[call[c].m], call[c].des)

-----------------------------------------------------------------------------
(***************************************************************************)
(* Lemmas.                                                                 *)
(***************************************************************************)
\* What a reply does to CAPI's record of the Machine.
LEMMA ReplyEffect ==
  ASSUME TypeOK, NEW c \in Calls, call[c] # None,
         NEW answer \in {"claimed", "done", "failure", "retry"}, Reply(c, answer)
  PROVE  LET m == call[c].m IN
         /\ call'[c] = None /\ \A d \in Calls \ {c} : call'[d] = call[d]
         /\ \A x \in Machines \ {m} : capi'[x] = capi[x]
         /\ capi'[m].des = capi[m].des
         /\ answer \in {"failure", "retry"} =>
              capi'[m].phase = capi[m].phase /\ capi'[m].cur = capi[m].cur
         /\ answer = "claimed" =>
              capi'[m].phase \in {capi[m].phase, "update"} /\ capi'[m].cur = capi[m].cur
         /\ answer = "done" =>
              \/ capi'[m] = capi[m]
              \/ capi'[m].phase = "idle" /\ capi'[m].cur = capi[m].des
<1>1. call'[c] = None /\ \A d \in Calls \ {c} : call'[d] = call[d]
  BY ReplyTyped
<1>2. call[c].m \in Machines /\ capi \in [Machines -> CapiState]
  BY CallTyped DEF TypeOK
<1>3. capi[call[c].m] \in CapiState
  BY <1>2
<1>4. capi' = capi \/ capi' = [capi EXCEPT ![call[c].m] = Heard(capi[call[c].m], answer)]
  BY DEF Reply
<1> DEFINE k == capi[call[c].m]
           h == Heard(k, answer)
<1>5. /\ h.des = k.des
      /\ answer \in {"failure", "retry"} => h.phase = k.phase /\ h.cur = k.cur
      /\ answer = "claimed" => h.phase = "update" /\ h.cur = k.cur
      /\ answer = "done" => h.phase = "idle" /\ h.cur = k.des
  <2> HIDE DEF k
  <2>0. k \in CapiState
    BY <1>3 DEF k
  <2>1. CASE answer = "claimed"
    BY <2>0, <2>1 DEF Heard, CapiState
  <2>2. CASE answer = "done"
    BY <2>0, <2>2 DEF Heard, CapiState
  <2>3. CASE answer = "failure"
    BY <2>0, <2>3 DEF Heard, CapiState
  <2>4. CASE answer = "retry"
    BY <2>0, <2>4 DEF Heard, CapiState
  <2> QED
    BY <2>1, <2>2, <2>3, <2>4
<1>6. CASE capi' = capi
  BY <1>1, <1>6
<1>7. CASE capi' = [capi EXCEPT ![call[c].m] = Heard(capi[call[c].m], answer)]
  <2>1. capi'[call[c].m] = h /\ \A x \in Machines \ {call[c].m} : capi'[x] = capi[x]
    BY <1>2, <1>7
  <2> HIDE DEF h
  <2> QED
    BY <1>1, <1>5, <2>1 DEF k
<1> QED
  BY <1>4, <1>6, <1>7

\* A step of c leaves the other calls and Machines as they are: it is enough to
\* look at c and its Machine.
LEMMA Frame ==
  ASSUME Fits, NEW c \in Calls, call[c] # None, NEW m \in Machines, call[c].m = m,
         \A d \in Calls \ {c} : call'[d] = call[d],
         call'[c] # None => call'[c].m = m,
         \A x \in Machines \ {m} : /\ capi'[x] = capi[x] /\ node'[x] = node[x]
                                   /\ \A r \in Replicas : state'[r][x] = state[r][x],
         TypeOK, CallFits(c)', MachineFits(m)'
  PROVE  Fits'
<1>1. OneCall'
  BY DEF Fits, OneCall
<1>2. ASSUME NEW d \in Calls \ {c} PROVE CallFits(d)'
  <2>1. CASE call[d] = None
    BY <2>1 DEF CallFits
  <2>2. CASE call[d] # None
    <3>1. call[d].m \in Machines \ {m}
      BY <2>2, CallTyped DEF Fits, OneCall
    <3> QED
      BY <2>2, <3>1 DEF Fits, CallFits
  <2> QED
    BY <2>1, <2>2
<1>3. ASSUME NEW x \in Machines \ {m} PROVE MachineFits(x)'
  BY DEF Fits, MachineFits
<1> QED
  BY <1>1, <1>2, <1>3 DEF Fits

\* A call in flight is for a Machine with an update in progress.
LEMMA InProgress ==
  ASSUME TypeOK, Fits, NEW c \in Calls, call[c] # None
  PROVE  /\ call[c].m \in Machines /\ capi[call[c].m].phase \in {"check", "update"}
         /\ call[c].des = capi[call[c].m].des
         /\ call[c].pc \in CanUpdateSteps => capi[call[c].m].phase = "check"
         /\ call[c].pc \in UpdateSteps => capi[call[c].m].phase = "update"
<1>1. call[c].m \in Machines /\ call[c].pc \in CanUpdateSteps \cup UpdateSteps
  BY CallTyped DEF Call
<1> QED
  BY <1>1 DEF Fits, CallFits

\* A reply other than completion.  What the step does to the Machine's state
\* may only set the applied flag if the node has the config.
LEMMA AnswerKeeps ==
  ASSUME TypeOK, Fits, NEW c \in Calls, call[c] # None, NEW m \in Machines,
         call[c].m = m,
         NEW answer \in {"claimed", "failure", "retry"}, Reply(c, answer),
         \A x \in Machines \ {m} :
           node'[x] = node[x] /\ \A r \in Replicas : state'[r][x] = state[r][x],
         \A r \in Replicas : (state'[r][m] # None /\ state'[r][m].applied) =>
           capi[m].phase = "update" /\ Converged(node'[m], capi[m].des)
  PROVE  Fits'
<1>1. /\ call'[c] = None /\ \A d \in Calls \ {c} : call'[d] = call[d]
      /\ \A x \in Machines \ {m} : capi'[x] = capi[x]
      /\ capi'[m].des = capi[m].des
      /\ capi'[m].phase \in {capi[m].phase, "update"}
  BY ReplyEffect
<1>2. capi[m].phase \in {"check", "update"}
  BY InProgress
<1>3. CallFits(c)'
  BY <1>1 DEF CallFits
<1>4. MachineFits(m)'
  BY <1>1, <1>2 DEF MachineFits
<1> QED
  BY <1>1, <1>3, <1>4, Frame

\* The completion of an update that the node has the config of.
LEMMA CompletionKeeps ==
  ASSUME TypeOK, Fits, NEW c \in Calls, call[c] # None, NEW m \in Machines,
         call[c].m = m, Reply(c, "done"), node' = node,
         \A r \in Replicas : /\ state'[r][m] = None
                             /\ \A x \in Machines \ {m} : state'[r][x] = state[r][x],
         capi[m].phase = "update", Converged(node[m], capi[m].des)
  PROVE  Fits'
<1>1. /\ call'[c] = None /\ \A d \in Calls \ {c} : call'[d] = call[d]
      /\ \A x \in Machines \ {m} : capi'[x] = capi[x]
      /\ capi'[m].des = capi[m].des
      /\ \/ capi'[m] = capi[m]
         \/ capi'[m].phase = "idle" /\ capi'[m].cur = capi[m].des
  BY ReplyEffect
<1>2. CallFits(c)'
  BY <1>1 DEF CallFits
<1>3. MachineFits(m)'
  <2>1. CASE capi'[m] = capi[m]
    BY <2>1 DEF MachineFits
  <2>2. CASE capi'[m].phase = "idle" /\ capi'[m].cur = capi[m].des
    BY <1>1, <2>2 DEF MachineFits
  <2> QED
    BY <1>1, <2>1, <2>2
<1> QED
  BY <1>1, <1>2, <1>3, Frame

\* The call goes on, for the same request, and at most its node changes.
LEMMA GoingOnKeeps ==
  ASSUME TypeOK, Fits, NEW c \in Calls, call[c] # None, NEW m \in Machines,
         call[c].m = m,
         NEW new \in Call, call' = [call EXCEPT ![c] = new],
         new.m = m, new.des = call[c].des,
         \/ call[c].pc \in CanUpdateSteps /\ new.pc \in CanUpdateSteps
         \/ call[c].pc \in UpdateSteps /\ new.pc \in UpdateSteps,
         new.pc = "apply" => Converged(new.cfg, new.des),
         new.pc \in {"cleanup", "remove"} => Converged(node'[m], new.des),
         node' = node \/ Converged(node'[m], new.des),
         \A x \in Machines \ {m} : node'[x] = node[x],
         capi' = capi, state' = state
  PROVE  Fits'
<1>1. call'[c] = new /\ \A d \in Calls \ {c} : call'[d] = call[d]
  BY DEF TypeOK
<1>2. /\ new.des = capi[m].des /\ capi[m].phase \in {"check", "update"}
      /\ call[c].pc \in CanUpdateSteps => capi[m].phase = "check"
      /\ call[c].pc \in UpdateSteps => capi[m].phase = "update"
  BY InProgress
<1>3. CanUpdateSteps \cap UpdateSteps = {}
      /\ {"apply", "cleanup", "remove"} \cap CanUpdateSteps = {}
  BY DEF CanUpdateSteps, UpdateSteps
<1>4. CallFits(c)'
  BY <1>1, <1>2, <1>3 DEF CallFits
<1>5. MachineFits(m)'
  BY <1>2 DEF Fits, MachineFits
<1> QED
  BY <1>1, <1>4, <1>5, Frame

\* What is merged into the live config is a patch, wherever it comes from.
LEMMA MergePatch ==
  ASSUME TypeOK, NEW c \in Calls,
         MergeStored(c) \/ MergeRecovered(c) \/ MergeDirect(c)
  PROVE  \E p \in Patch : Merge(c, p)
<1>0. call[c] # None
  BY DEF MergeStored, MergeRecovered, MergeDirect, Direct, At
<1>1. CASE MergeStored(c)
  BY <1>0, <1>1, CallTyped DEF MergeStored
<1>2. CASE MergeRecovered(c)
  <2> DEFINE p == Diff(cache.data[call[c].m].data, call[c].des.data)
  <2>1. p \in Patch
    BY <1>0, <1>2, CallTyped, ExtractableTyped, DiffTyped
      DEF MergeRecovered, Recoverable
  <2> QED
    BY <1>2, <2>1 DEF MergeRecovered
<1>3. CASE MergeDirect(c)
  <2>1. call[c].des \in BootstrapConfig
    <3>1. call[c].des \in Bootstraps
      BY <1>0, CallTyped
    <3> QED
      BY <3>1, InPlaceAssumption
  <2>2. call[c].des.strategic \in Patch
    BY <1>3, <2>1 DEF MergeDirect, BootstrapConfig
  <2> QED
    BY <1>3, <2>2 DEF MergeDirect
<1> QED
  BY <1>1, <1>2, <1>3

-----------------------------------------------------------------------------
(***************************************************************************)
(* The steps.                                                              *)
(***************************************************************************)
LEMMA CanUpdateStepKeeps ==
  ASSUME Calm, TypeOK, Fits, NEW c \in Calls, CanUpdateStep(c)
  PROVE  Fits'
<1>0. call[c] # None /\ call[c] \in Call /\ call[c].m \in Machines
  <2>1. call[c] # None
    BY DEF At, CanUpdateStep, ClaimFails, ClaimOnly, ClaimAndStore, PersistGet,
           PersistFails, PersistCreate, PersistUpdate
  <2> QED
    BY <2>1, CallTyped
<1>1. CASE ClaimAndStore(c)
  <2> DEFINE new == [call[c] EXCEPT !.pc = "persist"]
  <2>1. /\ new \in Call /\ new.pc = "persist" /\ new.m = call[c].m
        /\ new.des = call[c].des
    BY <1>0 DEF Call, CanUpdateSteps
  <2>2. /\ call' = [call EXCEPT ![c] = new] /\ capi' = capi /\ state' = state
        /\ node' = node /\ call[c].pc = "can"
    BY <1>1 DEF ClaimAndStore, Goto, talos, At
  <2> HIDE DEF new
  <2> QED
    BY <1>0, <2>1, <2>2, GoingOnKeeps DEF CanUpdateSteps
<1>2. CASE PersistGet(c)
  <2> DEFINE new == [call[c] EXCEPT
                       !.pc = IF cache.exists THEN "put" ELSE "create",
                       !.copy = IF cache.exists THEN cache.data ELSE None]
  <2>1. /\ new \in Call /\ new.pc \in {"put", "create"} /\ new.m = call[c].m
        /\ new.des = call[c].des
    BY <1>0 DEF Call, CanUpdateSteps, TypeOK
  <2>2. /\ call' = [call EXCEPT ![c] = new] /\ capi' = capi /\ state' = state
        /\ node' = node /\ call[c].pc = "persist"
    BY <1>2 DEF PersistGet, memory, talos, Fits, At
  <2> HIDE DEF new
  <2> QED
    BY <1>0, <2>1, <2>2, GoingOnKeeps DEF CanUpdateSteps
<1>3. CASE ClaimFails(c) \/ ClaimOnly(c) \/ PersistFails(c) \/ PersistCreate(c)
             \/ PersistUpdate(c)
  <2>1. /\ Reply(c, "failure") \/ Reply(c, "claimed")
        /\ state' = state /\ node' = node
    BY <1>3 DEF ClaimFails, ClaimOnly, PersistFails, PersistCreate, PersistUpdate,
                memory, talos, Fits
  <2> QED
    BY <1>0, <2>1, AnswerKeeps DEF Fits, MachineFits
<1> QED
  BY <1>1, <1>2, <1>3 DEF CanUpdateStep

LEMMA UpdateStepKeeps ==
  ASSUME Calm, TypeOK, IInv, Fits, NEW c \in Calls, UpdateStep(c), MergesRight(c)
  PROVE  Fits'
<1> DEFINE m == call[c].m
           r == call[c].r
<1>0. /\ call[c] # None /\ call[c] \in Call /\ m \in Machines /\ r \in Replicas
      /\ Replicas = {r} /\ call[c].des \in Bootstraps
  <2>1. call[c] # None
    BY DEF At, UpdateStep, NoAddress, TimesOut, Completes, Settles, Proceeds,
           ReadFails, ReadLive, MergeStored, NothingStored, MergeRecovered,
           Direct, DirectFails, NothingToApply, MergeDirect, MergeFails,
           NodeTakes, ApplyAccepted, ApplyUnacked, ApplyRejected,
           CleanupNotNeeded, CleanupGet, CleanupFails, CleanupUpdate
  <2> QED
    BY <2>1, CallTyped DEF Calm
<1>00. /\ state \in [Replicas -> [Machines -> UpdateState \cup {None}]]
       /\ configPatches \in [Replicas -> [Machines -> Patch \cup {None}]]
       /\ node \in [Machines -> Config]
       /\ MachineFits(m) /\ call[c].des = capi[m].des
  BY <1>0, InProgress DEF TypeOK, Fits
\* Replies with which nothing else changes.
<1>1. CASE NoAddress(c) \/ Settles(c) \/ ReadFails(c) \/ DirectFails(c)
             \/ MergeFails(c)
  <2>1. /\ Reply(c, "failure") \/ Reply(c, "retry")
        /\ state' = state /\ node' = node
    BY <1>1, <1>00 DEF NoAddress, Settles, ReadFails, DirectFails, MergeFails,
                       memory, talos
  <2> QED
    BY <1>0, <1>00, <2>1, AnswerKeeps DEF MachineFits
<1>2. CASE TimesOut(c)
  <2>1. /\ Reply(c, "failure") /\ node' = node
        /\ state' = Deleted(state, r, m)
    BY <1>00, <1>2 DEF TimesOut, EndUpdate, talos
  <2>2. /\ \A q \in Replicas : state'[q][m] = None
        /\ \A x \in Machines \ {m}, q \in Replicas : state'[q][x] = state[q][x]
    BY <1>0, <1>00, <2>1 DEF Deleted
  <2> QED
    BY <1>0, <1>00, <2>1, <2>2, AnswerKeeps
<1>3. CASE Completes(c)
  <2>1. /\ Reply(c, "done") /\ node' = node
        /\ state' = Deleted(state, r, m) /\ Settled(state[r][m])
    BY <1>00, <1>3 DEF Completes, EndUpdate, talos, Mine
  <2>2. /\ \A q \in Replicas : state'[q][m] = None
        /\ \A x \in Machines \ {m}, q \in Replicas : state'[q][x] = state[q][x]
    BY <1>0, <1>00, <2>1 DEF Deleted
  <2>3. capi[m].phase = "update" /\ Converged(node[m], capi[m].des)
    BY <1>0, <1>00, <2>1 DEF Settled, MachineFits
  <2> QED
    BY <1>0, <2>1, <2>2, <2>3, CompletionKeeps
\* Steps with which only the call itself changes.
<1>4. CASE Proceeds(c) \/ ReadLive(c) \/ NothingStored(c)
  <2>1. PICK pc \in {"read", "merge", "recover"}, loaded \in BOOLEAN,
             cfg \in Config \cup {None} :
          call' = [call EXCEPT ![c] =
            [call[c] EXCEPT !.pc = pc, !.loaded = loaded, !.cfg = cfg]]
    <3>1. call[c] = [call[c] EXCEPT !.loaded = call[c].loaded, !.cfg = call[c].cfg]
          /\ call[c].loaded \in BOOLEAN /\ call[c].cfg \in Config \cup {None}
      BY <1>0 DEF Call
    <3>2. CASE Proceeds(c)
      <4> DEFINE new == [call[c] EXCEPT !.pc = "read", !.loaded = Mine(c) # None,
                                        !.cfg = call[c].cfg]
      <4>1. new = [call[c] EXCEPT !.pc = "read", !.loaded = Mine(c) # None]
        BY <1>0 DEF Call
      <4>2. call' = [call EXCEPT ![c] = new]
        BY <3>2, <4>1 DEF Proceeds
      <4> QED
        BY <3>1, <4>2
    <3>3. CASE ReadLive(c)
      <4> DEFINE new == [call[c] EXCEPT !.pc = "merge", !.loaded = call[c].loaded,
                                        !.cfg = node[m]]
      <4>1. new = [call[c] EXCEPT !.pc = "merge", !.cfg = node[m]]
        BY <1>0 DEF Call
      <4>2. call' = [call EXCEPT ![c] = new] /\ node[m] \in Config
        BY <1>0, <1>00, <3>3, <4>1 DEF ReadLive
      <4> QED
        BY <3>1, <4>2
    <3>4. CASE NothingStored(c)
      <4> DEFINE new == [call[c] EXCEPT !.pc = "recover", !.cfg = call[c].cfg,
                                        !.loaded = call[c].loaded]
      <4>1. [call[c] EXCEPT !.pc = "recover", !.loaded = call[c].loaded,
                            !.cfg = call[c].cfg] = [call[c] EXCEPT !.pc = "recover"]
        BY <1>0 DEF Call
      <4>2. call' = [call EXCEPT ![c] = [call[c] EXCEPT !.pc = "recover"]]
        BY <3>4 DEF NothingStored, Goto
      <4> QED
        BY <3>1, <4>1, <4>2
    <3> QED
      BY <1>4, <3>2, <3>3, <3>4
  <2> DEFINE new == [call[c] EXCEPT !.pc = pc, !.loaded = loaded, !.cfg = cfg]
  <2>2. /\ new \in Call /\ new.pc = pc /\ new.m = m /\ new.des = call[c].des
    BY <1>0 DEF Call, UpdateSteps
  <2>3. /\ call' = [call EXCEPT ![c] = new] /\ capi' = capi /\ state' = state
        /\ node' = node /\ call[c].pc \in UpdateSteps
    BY <1>4, <1>00, <2>1 DEF Proceeds, ReadLive, NothingStored, Goto, memory, talos, At, UpdateSteps
  <2> HIDE DEF new
  <2> QED
    BY <1>0, <2>2, <2>3, GoingOnKeeps DEF UpdateSteps
\* A config is made, which has all the update asks for.
<1>5. CASE MergeStored(c) \/ MergeRecovered(c) \/ MergeDirect(c)
  <2>1. PICK p \in Patch : Merge(c, p)
    BY <1>0, <1>5, MergePatch
  <2> DEFINE cfg == Patched(call[c].cfg, p)
             new == [call[c] EXCEPT !.pc = "apply", !.cfg = cfg]
  <2>2. /\ At(c, "merge") \/ At(c, "recover")
        /\ state' = state /\ node' = node
    BY <1>5 DEF MergeStored, MergeRecovered, MergeDirect, Direct, memory, talos
  <2>3. call' = [call EXCEPT ![c] = new] /\ capi' = capi
    BY <2>1 DEF Merge
  <2>4. cfg \in Config
    <3>1. call[c].cfg \in Config
      BY <1>0, <2>2 DEF IInv, WorkIsSound, SoundWork, Call
    <3> QED
      BY <3>1, PatchedTyped
  <2> HIDE DEF cfg
  <2>5. /\ new \in Call /\ new.pc = "apply" /\ new.m = m /\ new.des = call[c].des
        /\ new.cfg = cfg
    BY <1>0, <2>4 DEF Call, UpdateSteps
  <2>6. call'[c] = new
    BY <2>3 DEF TypeOK
  <2> HIDE DEF new
  <2>7. Converged(new.cfg, new.des)
    BY <1>5, <2>5, <2>6 DEF MergesRight
  <2> QED
    BY <1>0, <2>2, <2>3, <2>5, <2>7, GoingOnKeeps DEF UpdateSteps, At
\* The node takes the config, or may have taken it.
<1>7. CASE ApplyAccepted(c)
  <2> DEFINE new == [call[c] EXCEPT !.pc = "cleanup"]
  <2>1. /\ At(c, "apply") /\ node' = [node EXCEPT ![m] = call[c].cfg]
        /\ call' = [call EXCEPT ![c] = new] /\ capi' = capi /\ state' = state
    BY <1>7, <1>00 DEF ApplyAccepted, NodeTakes, Goto, memory
  <2>2. new \in Call /\ new.pc = "cleanup" /\ new.m = m /\ new.des = call[c].des
    BY <1>0 DEF Call, UpdateSteps
  <2>3. Converged(call[c].cfg, call[c].des)
    BY <1>0, <2>1 DEF Fits, CallFits, At
  <2>4. node'[m] = call[c].cfg /\ \A x \in Machines \ {m} : node'[x] = node[x]
    BY <1>0, <1>00, <2>1
  <2>5. Converged(node'[m], new.des)
    BY <2>2, <2>3, <2>4
  <2> HIDE DEF new
  <2> QED
    BY <1>0, <2>1, <2>2, <2>4, <2>5, GoingOnKeeps DEF UpdateSteps, At
<1>8. CASE ApplyUnacked(c) \/ ApplyRejected(c)
  <2>1. /\ Reply(c, "retry")
        /\ state' = [state EXCEPT ![r][m] = AfterFailedApply(@, call[c].loaded)]
        /\ node' = node \/ node' = [node EXCEPT ![m] = call[c].cfg]
        /\ At(c, "apply")
    BY <1>8, <1>00 DEF ApplyUnacked, ApplyRejected, NodeTakes, RetryLater, talos
  <2>2. Converged(call[c].cfg, capi[m].des)
    BY <1>0, <1>00, <2>1 DEF Fits, CallFits, At
  <2>3. /\ \A x \in Machines \ {m} : node'[x] = node[x]
        /\ node'[m] = node[m] \/ node'[m] = call[c].cfg
        /\ \A x \in Machines \ {m}, q \in Replicas : state'[q][x] = state[q][x]
        /\ state'[r][m] = state[r][m] \/ ~state'[r][m].applied
    BY <1>0, <1>00, <2>1 DEF AfterFailedApply
  <2>4. node'[m] = node[m] \/ Converged(node'[m], capi[m].des)
    BY <2>2, <2>3
  <2>5. (state'[r][m] # None /\ state'[r][m].applied) =>
          capi[m].phase = "update" /\ Converged(node'[m], capi[m].des)
    BY <1>0, <1>00, <2>3, <2>4 DEF MachineFits
  <2>6. \A q \in Replicas : (state'[q][m] # None /\ state'[q][m].applied) =>
          capi[m].phase = "update" /\ Converged(node'[m], capi[m].des)
    BY <1>0, <2>5
  <2> HIDE DEF m, r
  <2> QED
    BY <1>0, <2>1, <2>3, <2>6, AnswerKeeps DEF m
\* The update is recorded as applied.
<1>9. CASE CleanupGet(c)
  <2> DEFINE new == [call[c] EXCEPT !.pc = "remove", !.copy = cache.data]
  <2>1. /\ At(c, "cleanup") /\ call' = [call EXCEPT ![c] = new] /\ capi' = capi
        /\ state' = state /\ node' = node
    BY <1>9, <1>00 DEF CleanupGet, DropPatches, talos
  <2>2. new \in Call /\ new.pc = "remove" /\ new.m = m /\ new.des = call[c].des
    BY <1>0 DEF Call, UpdateSteps, TypeOK
  <2>3. Converged(node'[m], new.des)
    <3>1. Converged(node[m], call[c].des)
      BY <1>0, <2>1 DEF Fits, CallFits, At
    <3> QED
      BY <2>1, <2>2, <3>1
  <2> HIDE DEF new
  <2> QED
    BY <1>0, <2>1, <2>2, <2>3, GoingOnKeeps DEF UpdateSteps, At
<1>10. CASE NothingToApply(c) \/ CleanupNotNeeded(c) \/ CleanupFails(c)
              \/ CleanupUpdate(c)
  <2>1. Finish(c) /\ node' = node
    BY <1>10, <1>00 DEF NothingToApply, CleanupNotNeeded, CleanupFails,
                        CleanupUpdate, DropPatches, talos
  <2>2. Converged(node[m], call[c].des)
    <3>1. CASE NothingToApply(c)
      BY <1>0, <3>1 DEF MergesRight
    <3>2. CASE At(c, "cleanup") \/ At(c, "remove")
      BY <1>0, <3>2 DEF Fits, CallFits, At
    <3> QED
      BY <1>10, <3>1, <3>2 DEF CleanupNotNeeded, CleanupFails, CleanupUpdate
  <2>3. capi[m].phase = "update"
    <3>1. call[c].pc \in UpdateSteps
      BY <1>10 DEF NothingToApply, Direct, CleanupNotNeeded, CleanupFails,
                   CleanupUpdate, At, UpdateSteps
    <3> QED
      BY <1>0, <3>1, InProgress
  <2>4. /\ Reply(c, "retry")
        /\ \A x \in Machines \ {m}, q \in Replicas : state'[q][x] = state[q][x]
    BY <1>0, <1>00, <2>1 DEF Finish
  <2>5. Converged(node'[m], capi[m].des)
    BY <1>00, <2>1, <2>2
  <2> HIDE DEF m, r
  <2> QED
    BY <1>0, <2>1, <2>3, <2>4, <2>5, AnswerKeeps DEF m
<1> QED
  BY <1>1, <1>2, <1>3, <1>4, <1>5, <1>7, <1>8, <1>9, <1>10 DEF UpdateStep

-----------------------------------------------------------------------------
(***************************************************************************)
(* The steps of CAPI and of the environment.                               *)
(***************************************************************************)
LEMMA InitFits == Init => Fits
<1> SUFFICES ASSUME Init PROVE Fits
  OBVIOUS
<1>1. OneCall /\ \A c \in Calls : CallFits(c)
  BY DEF Init, OneCall, CallFits
<1>2. ASSUME NEW m \in Machines PROVE MachineFits(m)
  <2>1. /\ capi[m].des = capi[m].cur /\ Usable(capi[m].cur)
        /\ capi[m].cur \in Bootstraps
    BY <1>2 DEF Init, CapiState
  <2>2. node[m] = Patched(DayZero[m], Target(capi[m].cur))
    BY <1>2 DEF Init
  <2>3. Target(capi[m].cur) \in Patch
    BY <2>1, TargetTyped
  <2>4. DOMAIN Target(capi[m].cur) \subseteq Fields
    BY <2>3 DEF Patch, Fields
  <2>5. Converged(node[m], capi[m].cur)
    BY <2>1, <2>2, <2>4 DEF Converged, Patched
  <2>6. \A r \in Replicas : state[r][m] = None
    BY <1>2 DEF Init
  <2> QED
    BY <2>1, <2>5, <2>6 DEF MachineFits
<1> QED
  BY <1>1, <1>2 DEF Fits

\* A Machine that is up to date has no call in flight that a new desired state
\* could overtake.
LEMMA RollKeeps ==
  ASSUME TypeOK, Fits, NEW m \in Machines, NEW b \in Bootstraps, Roll(m, b)
  PROVE  Fits'
<1>1. PICK p \in {"check", "update"} :
        capi' = [capi EXCEPT ![m].phase = p, ![m].des = b]
  BY DEF Roll
<1>2. /\ capi[m].phase = "idle" /\ capi[m] \in CapiState
      /\ UNCHANGED <<memory, kube, talos, call, disruptions>>
  BY DEF Roll, TypeOK
<1>3. /\ capi'[m].phase = p /\ \A x \in Machines \ {m} : capi'[x] = capi[x]
      /\ call' = call /\ state' = state /\ configPatches' = configPatches
      /\ node' = node
  BY <1>1, <1>2 DEF TypeOK, CapiState, memory, talos
<1>4. ASSUME NEW c \in Calls, call[c] # None
      PROVE  call[c].m \in Machines \ {m}
  BY <1>2, <1>4, InProgress
<1>5. \A c \in Calls : CallFits(c)'
  BY <1>3, <1>4 DEF Fits, CallFits
<1>6. MachineFits(m)'
  <2>1. \A r \in Replicas : state[r][m] = None
    BY <1>2 DEF Fits, MachineFits
  <2> QED
    BY <1>3, <2>1 DEF MachineFits
<1>7. \A x \in Machines \ {m} : MachineFits(x)'
  BY <1>3 DEF Fits, MachineFits
<1> QED
  BY <1>3, <1>5, <1>6, <1>7 DEF Fits, OneCall

LEMMA StartCallKeeps ==
  ASSUME Calm, TypeOK, Fits, NEW c \in Calls, NEW r \in Replicas,
         NEW m \in Machines, StartCall(c, r, m)
  PROVE  Fits'
<1> DEFINE new == [pc |-> IF capi[m].phase = "check" THEN "can" ELSE "load",
                   r |-> r, m |-> m, cur |-> capi[m].cur, des |-> capi[m].des,
                   awaited |-> TRUE, loaded |-> FALSE, cfg |-> None, copy |-> None]
<1>1. /\ InFlight(m) = {} /\ capi[m].phase # "idle"
      /\ call' = [call EXCEPT ![c] = new]
      /\ capi' = [capi EXCEPT ![m].verdict = "none"]
      /\ UNCHANGED <<memory, kube, talos, disruptions>>
  BY DEF StartCall, Calm
<1>2. /\ new.m = m /\ new.des = capi[m].des
      /\ IF capi[m].phase = "check" THEN new.pc = "can" ELSE new.pc = "load"
  OBVIOUS
<1> HIDE DEF new
<1>3. /\ call'[c] = new /\ \A d \in Calls \ {c} : call'[d] = call[d]
      /\ state' = state /\ configPatches' = configPatches /\ node' = node
  BY <1>1 DEF TypeOK, memory, talos
<1>4. capi[m] \in CapiState
  BY DEF TypeOK
<1>5. /\ \A x \in Machines : /\ capi'[x].phase = capi[x].phase
                              /\ capi'[x].des = capi[x].des
                              /\ capi'[x].cur = capi[x].cur
  BY <1>1 DEF TypeOK, CapiState
<1>6. \A d \in Calls : call[d] # None => call[d].m # m
  BY <1>1 DEF InFlight
<1>7. OneCall'
  BY <1>2, <1>3, <1>6 DEF Fits, OneCall
<1>8. CallFits(c)'
  BY <1>1, <1>2, <1>3, <1>4, <1>5 DEF CallFits, CanUpdateSteps, UpdateSteps, CapiState
<1>9. ASSUME NEW d \in Calls \ {c} PROVE CallFits(d)'
  <2>1. call[d] # None => call[d].m \in Machines
    BY CallTyped
  <2> QED
    BY <1>3, <1>5, <2>1 DEF Fits, CallFits
<1>10. ASSUME NEW x \in Machines PROVE MachineFits(x)'
  BY <1>3, <1>5 DEF Fits, MachineFits
<1> QED
  BY <1>3, <1>7, <1>8, <1>9, <1>10 DEF Fits

\* CAPI gives up on a call: what the call is for does not change.
LEMMA AbandonKeeps ==
  ASSUME TypeOK, Fits, NEW c \in Calls, Abandon(c)
  PROVE  Fits'
<1> DEFINE new == [call[c] EXCEPT !.awaited = FALSE]
<1>1. /\ call[c] # None /\ call' = [call EXCEPT ![c] = new] /\ capi' = capi
      /\ state' = state /\ node' = node
  BY DEF Abandon, memory, talos, Fits
<1>2. call[c] \in Call
  BY <1>1, CallTyped
<1>3. /\ new \in Call /\ new.m = call[c].m /\ new.des = call[c].des
      /\ new.pc = call[c].pc /\ new.cfg = call[c].cfg
  BY <1>2 DEF Call
<1> HIDE DEF new
<1>4. /\ call[c].m \in Machines
      /\ call[c].pc \in CanUpdateSteps \/ call[c].pc \in UpdateSteps
  BY <1>2 DEF Call
<1>5. /\ call[c].pc = "apply" => Converged(call[c].cfg, call[c].des)
      /\ call[c].pc \in {"cleanup", "remove"} =>
           Converged(node[call[c].m], call[c].des)
  BY <1>1 DEF Fits, CallFits
<1> QED
  BY <1>1, <1>3, <1>4, <1>5, GoingOnKeeps

\* A restart loses the one replica's memory and all calls.
LEMMA CrashKeeps ==
  ASSUME Calm, TypeOK, Fits, NEW r \in Replicas, Crash(r)
  PROVE  Fits'
<1>1. Replicas = {r}
  BY DEF Calm
<1>2. \A c \in Calls : call'[c] = None
  BY <1>1, CallTyped DEF Crash
<1>3. \A m \in Machines, q \in Replicas :
        state'[q][m] = None /\ configPatches'[q][m] = None
  BY <1>1 DEF Crash, TypeOK
<1>4. capi' = capi /\ node' = node
  BY DEF Crash, talos
<1>5. OneCall' /\ \A c \in Calls : CallFits(c)'
  BY <1>2 DEF OneCall, CallFits
<1>6. \A m \in Machines : MachineFits(m)'
  BY <1>3, <1>4 DEF Fits, MachineFits
<1> QED
  BY <1>3, <1>5, <1>6 DEF Fits

LEMMA TickKeeps ==
  ASSUME TypeOK, Fits, Tick
  PROVE  Fits'
<1>1. /\ call' = call /\ capi' = capi /\ node' = node
      /\ configPatches' = configPatches
      /\ state' = [r \in Replicas |-> [m \in Machines |-> Older(state[r][m])]]
  BY DEF Tick, talos
<1>2. ASSUME NEW r \in Replicas, NEW m \in Machines
      PROVE  /\ state[r][m] = None => state'[r][m] = None
             /\ state'[r][m].applied = state[r][m].applied
  <2>1. state'[r][m] = Older(state[r][m])
    BY <1>1
  <2>2. state[r][m] \in UpdateState \cup {None}
    BY DEF TypeOK
  <2> QED
    BY <2>1, <2>2 DEF Older, UpdateState
<1>3. \A m \in Machines : MachineFits(m)'
  BY <1>1, <1>2 DEF Fits, MachineFits
<1>4. OneCall' /\ \A c \in Calls : CallFits(c)'
  BY <1>1 DEF Fits, OneCall, CallFits
<1> QED
  BY <1>3, <1>4 DEF Fits

LEMMA StutterKeeps ==
  ASSUME Fits, UNCHANGED vars
  PROVE  Fits'
<1>1. call' = call /\ capi' = capi /\ node' = node /\ state' = state
      /\ configPatches' = configPatches
  BY DEF vars, memory, talos
<1> QED
  BY <1>1 DEF Fits, OneCall, CallFits, MachineFits

\* Every step keeps the invariant.
LEMMA NextKeeps ==
  ASSUME Calm, IInv, Fits, [Next]_vars, \A c \in Calls : MergesRight(c)
  PROVE  Fits'
<1>0. TypeOK
  BY DEF IInv
<1>1. CASE \E m \in Machines, b \in Bootstraps :
             Roll(m, b) \/ Replan(m, b) \/ Recreate(m, b)
  BY <1>0, <1>1, RollKeeps DEF Replan, Recreate, Disrupt, Calm
<1>2. CASE \E c \in Calls, r \in Replicas, m \in Machines : StartCall(c, r, m)
  BY <1>0, <1>2, StartCallKeeps
<1>3. ASSUME NEW c \in Calls, Abandon(c) PROVE Fits'
  BY <1>0, <1>3, AbandonKeeps
<1>4. ASSUME NEW c \in Calls, Handler(c) PROVE Fits'
  BY <1>0, <1>4, CanUpdateStepKeeps, UpdateStepKeeps DEF Handler
<1>5. CASE \E r \in Replicas : Crash(r)
  BY <1>0, <1>5, CrashKeeps
<1>6. CASE Tick
  BY <1>0, <1>6, TickKeeps
<1>7. CASE UNCHANGED vars
  BY <1>7, StutterKeeps
<1> QED
  BY <1>1, <1>2, <1>3, <1>4, <1>5, <1>6, <1>7 DEF Next

-----------------------------------------------------------------------------
(***************************************************************************)
(* The refinement: every step is a step of UpdateContract or a stutter.    *)
(***************************************************************************)
Updating == {m \in Machines : capi[m].phase # "idle"}
Want     == [m \in Machines |-> capi[m].des]

\* The contract speaks of the same configs.
LEMMA SameConfigs ==
  /\ Contract!Config = Config
  /\ \A live, b : Contract!Converged(live, b) <=> Converged(live, b)
<1>1. Contract!Config = Config
  BY DEF Contract!Config, Contract!Fields, Config, Fields
<1>2. ASSUME NEW b
      PROVE  Contract!Target(b) = Target(b) /\ Contract!Usable(b) = Usable(b)
  BY DEF Contract!Target, Contract!Extractable, Contract!Usable,
         Target, Extractable, Usable
<1>3. ASSUME NEW live, NEW b
      PROVE  Contract!Converged(live, b) <=> Converged(live, b)
  BY <1>2 DEF Contract!Converged, Converged
<1> QED
  BY <1>1, <1>3

\* What CAPI learns from a reply other than completion is nothing to the
\* contract.
LEMMA AnswerMaps ==
  ASSUME TypeOK, Fits, NEW c \in Calls, call[c] # None,
         NEW answer \in {"claimed", "failure", "retry"}, Reply(c, answer)
  PROVE  Updating' = Updating /\ Want' = Want
<1>1. PICK m \in Machines : call[c].m = m
  BY CallTyped
<1>2. /\ \A x \in Machines \ {m} : capi'[x] = capi[x]
      /\ capi'[m].des = capi[m].des
      /\ capi'[m].phase \in {capi[m].phase, "update"}
  BY <1>1, ReplyEffect
<1>3. capi[m].phase \in {"check", "update"}
  BY <1>1, InProgress
<1>4. \A x \in Machines :
        capi'[x].des = capi[x].des /\ (capi'[x].phase = "idle" <=> capi[x].phase = "idle")
  BY <1>2, <1>3
<1> QED
  BY <1>4 DEF Updating, Want

LEMMA InitMaps == Init => Contract!Init
<1> SUFFICES ASSUME Init PROVE Contract!Init
  OBVIOUS
<1>1. Fits /\ TypeOK
  BY InitFits, InitInv DEF IInv
<1>2. Updating = {} /\ Want \in [Machines -> Bootstraps] /\ node \in [Machines -> Config]
  BY <1>1 DEF Init, TypeOK, CapiState, Updating, Want
<1>3. \A m \in Machines : Converged(node[m], Want[m])
  BY <1>1 DEF Init, Fits, MachineFits, Want
<1> QED
  BY <1>2, <1>3, SameConfigs DEF Contract!Init, Updating, Want

\* A new desired state begins an update.
LEMMA RollMaps ==
  ASSUME TypeOK, Fits, NEW m \in Machines, NEW b \in Bootstraps, Roll(m, b)
  PROVE  Contract!Next
<1>1. PICK p \in {"check", "update"} :
        capi' = [capi EXCEPT ![m].phase = p, ![m].des = b]
  BY DEF Roll
<1>2. /\ capi[m].phase = "idle" /\ capi[m] \in CapiState
      /\ node' = node
  BY DEF Roll, TypeOK, talos
<1>3. /\ capi'[m].phase = p /\ capi'[m].des = b
      /\ \A x \in Machines \ {m} : capi'[x] = capi[x]
  BY <1>1, <1>2 DEF TypeOK, CapiState
<1>4. m \notin Updating
  BY <1>2 DEF Updating
<1>5. Updating' = Updating \cup {m}
  BY <1>3 DEF Updating
<1>6. Want' = [Want EXCEPT ![m] = b]
  BY <1>3 DEF Want
<1>7. Contract!Begin(m)
  BY <1>2, <1>4, <1>5, <1>6 DEF Contract!Begin, Updating, Want
<1> QED
  BY <1>7 DEF Contract!Next

\* A node that takes the config of a call is reconfigured as the update in
\* progress asks, however long ago the call read the node.
LEMMA TakesMaps ==
  ASSUME IInv, Fits, NEW c \in Calls, NodeTakes(c), Updating' = Updating, Want' = Want
  PROVE  Contract!Next
<1>1. TypeOK /\ call[c] # None /\ call[c].pc = "apply"
  BY DEF NodeTakes, At, IInv
<1>2. PICK m \in Machines : call[c].m = m
  BY <1>1, CallTyped
<1>3. PICK new \in Config : call[c].cfg = new
  BY <1>1, CallTyped DEF IInv, WorkIsSound, SoundWork, At, Call
<1>4. m \in Updating /\ Converged(new, Want[m])
  <2>1. capi[m].phase = "update" /\ call[c].des = capi[m].des
    BY <1>1, <1>2, InProgress DEF UpdateSteps
  <2> QED
    BY <1>1, <1>3, <2>1 DEF Fits, CallFits, Updating, Want
<1>5. \A f \in IdentityFields : new[f] = node[m][f]
  BY <1>1, <1>2, <1>3 DEF IInv, WorkIsSound, SoundWork, IdentityPreserved, At
<1>6. node' = [node EXCEPT ![m] = new]
  BY <1>2, <1>3 DEF NodeTakes
<1>7. Contract!Reconfigure(m)
  BY <1>3, <1>4, <1>5, <1>6, SameConfigs
    DEF Contract!Reconfigure, Contract!SameIdentity, Updating, Want
<1> QED
  BY <1>7 DEF Contract!Next

\* Completion, whether CAPI hears of it or not.
LEMMA CompletionMaps ==
  ASSUME TypeOK, Fits, NEW c \in Calls, Completes(c)
  PROVE  Contract!Next \/ UNCHANGED <<Updating, Want, node>>
<1>1. call[c] # None /\ Reply(c, "done") /\ node' = node /\ Settled(Mine(c))
  BY DEF Completes, At, talos
<1>2. PICK m \in Machines : call[c].m = m
  BY <1>1, CallTyped
<1>3. capi[m].phase = "update" /\ Converged(node[m], capi[m].des)
  BY <1>1, <1>2, CallTyped DEF Settled, Mine, Fits, MachineFits
<1>4. /\ \A x \in Machines \ {m} : capi'[x] = capi[x]
      /\ capi'[m].des = capi[m].des
      /\ \/ capi'[m] = capi[m]
         \/ capi'[m].phase = "idle"
  BY <1>1, <1>2, ReplyEffect
<1>5. Want' = Want
  BY <1>4 DEF Want
<1>6. CASE capi'[m] = capi[m]
  <2>1. Updating' = Updating
    BY <1>4, <1>6 DEF Updating
  <2> QED
    BY <1>1, <1>5, <2>1
<1>7. CASE capi'[m].phase = "idle"
  <2>1. Updating' = Updating \ {m} /\ m \in Updating
    BY <1>3, <1>4, <1>7 DEF Updating
  <2>2. Converged(node[m], Want[m])
    BY <1>3 DEF Want
  <2>3. Contract!Complete(m)
    BY <1>1, <1>5, <2>1, <2>2, SameConfigs DEF Contract!Complete, Updating, Want
  <2> QED
    BY <2>3 DEF Contract!Next
<1> QED
  BY <1>4, <1>6, <1>7

LEMMA HandlerMaps ==
  ASSUME IInv, Fits, NEW c \in Calls, Handler(c)
  PROVE  Contract!Next \/ UNCHANGED <<Updating, Want, node>>
<1>0. TypeOK
  BY DEF IInv
<1>1. ASSUME capi' = capi PROVE Updating' = Updating /\ Want' = Want
  BY <1>1 DEF Updating, Want
<1>2. ASSUME CanUpdateStep(c)
      PROVE  /\ node' = node /\ call[c] # None
             /\ capi' = capi \/ Reply(c, "claimed") \/ Reply(c, "failure")
  BY <1>2 DEF CanUpdateStep, ClaimFails, ClaimOnly, ClaimAndStore, PersistGet,
              PersistFails, PersistCreate, PersistUpdate, Goto, At, talos
<1>3. ASSUME UpdateStep(c), ~Completes(c)
      PROVE  /\ node' = node \/ NodeTakes(c)
             /\ call[c] # None
             /\ capi' = capi \/ Reply(c, "retry") \/ Reply(c, "failure")
  BY <1>3 DEF UpdateStep, NoAddress, TimesOut, Settles, Proceeds,
              ReadFails, ReadLive, MergeStored, NothingStored, MergeRecovered,
              Direct, DirectFails, NothingToApply, MergeDirect, MergeFails,
              NodeTakes, ApplyAccepted, ApplyUnacked, ApplyRejected,
              CleanupNotNeeded, CleanupGet, CleanupFails, CleanupUpdate,
              Goto, Merge, RetryLater, Finish, At, talos
<1>4. CASE CanUpdateStep(c)
  BY <1>0, <1>1, <1>2, <1>4, AnswerMaps
<1>5. CASE UpdateStep(c) /\ ~Completes(c)
  <2>1. Updating' = Updating /\ Want' = Want
    BY <1>0, <1>1, <1>3, <1>5, AnswerMaps
  <2> QED
    BY <1>3, <1>5, <2>1, TakesMaps
<1>6. CASE Completes(c)
  BY <1>0, <1>6, CompletionMaps
<1> QED
  BY <1>4, <1>5, <1>6 DEF Handler

LEMMA NextMaps ==
  ASSUME Calm, IInv, Fits, [Next]_vars
  PROVE  Contract!Next \/ UNCHANGED <<Updating, Want, node>>
<1>0. TypeOK
  BY DEF IInv
<1>1. CASE \E m \in Machines, b \in Bootstraps :
             Roll(m, b) \/ Replan(m, b) \/ Recreate(m, b)
  BY <1>0, <1>1, RollMaps DEF Replan, Recreate, Disrupt, Calm
<1>2. ASSUME NEW c \in Calls, NEW r \in Replicas, NEW m \in Machines,
             StartCall(c, r, m)
      PROVE  UNCHANGED <<Updating, Want, node>>
  <2>1. capi' = [capi EXCEPT ![m].verdict = "none"] /\ node' = node
    BY <1>2 DEF StartCall, talos
  <2>2. \A x \in Machines :
          capi'[x].phase = capi[x].phase /\ capi'[x].des = capi[x].des
    BY <1>0, <2>1 DEF TypeOK, CapiState
  <2> QED
    BY <2>1, <2>2 DEF Updating, Want
<1>3. CASE \E c \in Calls : Handler(c)
  BY <1>3, HandlerMaps
<1>4. CASE (\E c \in Calls : Abandon(c)) \/ (\E r \in Replicas : Crash(r)) \/ Tick
           \/ UNCHANGED vars
  BY <1>4 DEF Abandon, Crash, Tick, Updating, Want, talos, vars
<1> QED
  BY <1>1, <1>2, <1>3, <1>4 DEF Next

\* In a behaviour that keeps the invariant, the handlers keep the contract.
LEMMA FitsImplements ==
  ASSUME Calm
  PROVE  Spec /\ []Fits => ImplementsContract
<1>1. Init => Contract!Init
  BY InitMaps
<1>2. IInv /\ Fits /\ [Next]_vars => [Contract!Next]_<<Updating, Want, node>>
  BY NextMaps
<1> QED
  BY <1>1, <1>2, Invariance, PTL
    DEF Spec, ImplementsContract, Contract!Spec, Updating, Want
=============================================================================
