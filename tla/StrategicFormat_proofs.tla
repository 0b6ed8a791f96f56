----------------------- MODULE StrategicFormat_proofs -----------------------
(***************************************************************************)
(* The update of Machines whose BootstrapConfigs have strategic patches    *)
(* only (CABPT, path C of DoUpdateMachine): nothing is stored or persisted *)
(* for them, so every attempt makes its config of the live one and the     *)
(* request, and no restart or failure of an exchange takes that away.      *)
(***************************************************************************)
EXTENDS Contract_proofs

StrategicOnly ==
  /\ Calm
  /\ \A b \in Bootstraps : b.data = None

-----------------------------------------------------------------------------
(***************************************************************************)
(* The invariant.                                                          *)
(***************************************************************************)
NoPatches == \A r \in Replicas, m \in Machines : configPatches[r][m] = None

SInv == Fits /\ NoPatches

\* Strategic patches on the live config give what the update asks for.
LEMMA DirectConverges ==
  ASSUME StrategicOnly, NEW b \in Bootstraps, b.strategic # Broken,
         NEW live \in Config
  PROVE  /\ Converged(Patched(live, b.strategic), b)
         /\ DOMAIN b.strategic = {} => Converged(live, b)
<1>1. /\ b \in BootstrapConfig /\ b.data = None /\ b.json = TRUE
      /\ b.strategic \in Patch
  BY InPlaceAssumption DEF StrategicOnly, BootstrapConfig
<1>2. Usable(b) /\ Target(b) = b.strategic
  BY <1>1, ConfigAssumption DEF Usable, Target, Extractable
<1>3. DOMAIN b.strategic \subseteq Fields
  BY <1>1 DEF Patch, Fields
<1>4. ASSUME NEW f \in DOMAIN b.strategic
      PROVE  Patched(live, b.strategic)[f] = b.strategic[f]
  BY <1>3, <1>4 DEF Patched
<1> QED
  BY <1>2, <1>4 DEF Converged

\* Nothing is recovered, since no desired config is a full one.
LEMMA NeverRecoverable ==
  ASSUME StrategicOnly, NEW b \in Bootstraps
  PROVE  ~Extractable(b)
  BY DEF StrategicOnly, Extractable

-----------------------------------------------------------------------------
(***************************************************************************)
(* The steps.                                                              *)
(***************************************************************************)
\* Every config that is made is made of the live one and the request.
LEMMA DirectMergesRight ==
  ASSUME StrategicOnly, IInv, SInv, NEW c \in Calls
  PROVE  MergesRight(c)
<1>1. CASE MergeStored(c) \/ MergeRecovered(c)
  <2>1. call[c] # None
    BY <1>1 DEF MergeStored, MergeRecovered, At
  <2> QED
    BY <1>1, <2>1, CallTyped, NeverRecoverable
      DEF MergeStored, MergeRecovered, Recoverable, SInv, NoPatches, IInv
<1>2. CASE MergeDirect(c)
  <2>1. /\ At(c, "recover") /\ call[c].des.strategic # Broken
        /\ call' = [call EXCEPT ![c].pc = "apply",
                                ![c].cfg = Patched(@, call[c].des.strategic)]
    BY <1>2 DEF MergeDirect, Direct, Merge
  <2>2. /\ call[c] \in Call /\ call[c].des \in Bootstraps
        /\ call[c].cfg \in Config
    BY <2>1, CallTyped DEF At, IInv, WorkIsSound, SoundWork, Call
  <2>3. call'[c].cfg = Patched(call[c].cfg, call[c].des.strategic)
    BY <2>1, <2>2 DEF IInv, TypeOK, Call
  <2>4. Converged(call'[c].cfg, call[c].des)
    BY <2>1, <2>2, <2>3, DirectConverges
  <2>5. ~NothingToApply(c)
    BY <1>2 DEF MergeDirect, NothingToApply
  <2> QED
    BY <2>4, <2>5 DEF MergesRight
<1>3. CASE NothingToApply(c)
  <2>1. /\ call[c].des \in Bootstraps /\ node[call[c].m] \in Config
        /\ call[c].des.strategic # Broken /\ DOMAIN call[c].des.strategic = {}
    BY <1>3, CallTyped DEF NothingToApply, Direct, At, IInv, TypeOK
  <2>2. Converged(node[call[c].m], call[c].des)
    BY <2>1, DirectConverges
  <2>3. ~MergeStored(c) /\ ~MergeRecovered(c) /\ ~MergeDirect(c)
    <3>1. At(c, "recover") /\ call[c] # None
      BY <1>3 DEF NothingToApply, Direct, At
    <3> QED
      BY <1>3, <2>1, <3>1, NeverRecoverable
        DEF MergeStored, MergeRecovered, MergeDirect, NothingToApply, Recoverable, At
  <2> QED
    BY <2>2, <2>3 DEF MergesRight
<1> QED
  BY <1>1, <1>2, <1>3 DEF MergesRight

\* No step stores patches.
LEMMA NothingIsStored ==
  ASSUME StrategicOnly, IInv, SInv, [Next]_vars
  PROVE  NoPatches'
<1>0. TypeOK /\ NoPatches
  BY DEF IInv, SInv
<1>1. ASSUME NEW c \in Calls, CanUpdateStep(c) PROVE NoPatches'
  <2>1. CASE ClaimAndStore(c)
    <3>1. call[c] # None /\ Extractable(call[c].cur)
      BY <2>1 DEF ClaimAndStore, At
    <3> QED
      BY <1>0, <3>1, CallTyped, NeverRecoverable
  <2>2. CASE ~ClaimAndStore(c)
    BY <1>0, <1>1, <2>2 DEF CanUpdateStep, ClaimFails, ClaimOnly, PersistGet,
         PersistFails, PersistCreate, PersistUpdate, memory, NoPatches
  <2> QED
    BY <2>1, <2>2
<1>2. ASSUME NEW c \in Calls, UpdateStep(c) PROVE NoPatches'
  <2>1. CASE MergeRecovered(c)
    <3>1. call[c] # None /\ Extractable(call[c].des)
      BY <2>1 DEF MergeRecovered, Recoverable, At
    <3> QED
      BY <1>0, <3>1, CallTyped, NeverRecoverable
  <2>2. CASE ~MergeRecovered(c)
    <3>1. \/ configPatches' = configPatches
          \/ configPatches' = Deleted(configPatches, call[c].r, call[c].m)
      BY <1>2, <2>2
        DEF UpdateStep, NoAddress, TimesOut, Completes, Settles, Proceeds,
            ReadFails, ReadLive, MergeStored, NothingStored,
            DirectFails, NothingToApply, MergeDirect, MergeFails,
            ApplyAccepted, ApplyUnacked, ApplyRejected, CleanupNotNeeded,
            CleanupGet, CleanupFails, CleanupUpdate, EndUpdate, DropPatches, memory
    <3> QED
      BY <1>0, <3>1 DEF Deleted, TypeOK, NoPatches
  <2> QED
    BY <2>1, <2>2
<1>3. ASSUME NEW r \in Replicas, Crash(r) PROVE NoPatches'
  BY <1>0, <1>3 DEF Crash, TypeOK, NoPatches
<1>4. CASE \/ \E m \in Machines, b \in Bootstraps :
                Roll(m, b) \/ Replan(m, b) \/ Recreate(m, b)
           \/ \E c \in Calls, r \in Replicas, m \in Machines : StartCall(c, r, m)
           \/ \E c \in Calls : Abandon(c)
           \/ Tick \/ UNCHANGED vars
  BY <1>0, <1>4 DEF Roll, Replan, Recreate, StartCall, Abandon, Tick, vars, memory,
                    NoPatches
<1> QED
  BY <1>1, <1>2, <1>3, <1>4 DEF Next, Handler

-----------------------------------------------------------------------------
(***************************************************************************)
(* The theorems.                                                           *)
(***************************************************************************)
LEMMA StrategicInvariance ==
  ASSUME StrategicOnly
  PROVE  Spec => []SInv
<1>1. Init => SInv
  BY InitFits DEF Init, SInv, NoPatches
<1>2. IInv /\ SInv /\ [Next]_vars => SInv'
  <2> SUFFICES ASSUME IInv, SInv, [Next]_vars PROVE SInv'
    OBVIOUS
  <2>1. Fits'
    BY DirectMergesRight, NextKeeps DEF SInv, StrategicOnly
  <2> QED
    BY <2>1, NothingIsStored DEF SInv
<1> QED
  BY <1>1, <1>2, Invariance, PTL DEF Spec

\* With strategic patches only, one replica, and a CAPI that neither overlaps
\* calls nor changes its mind, an update reported complete (DoUpdateMachine's
\* Success without a retry) has given the node all it asked for.
THEOREM StrategicSuccess ==
  ASSUME StrategicOnly
  PROVE  Spec => []NoFalseSuccess
<1>1. SInv => NoFalseSuccess
  BY DEF SInv, Fits, MachineFits, NoFalseSuccess
<1> QED
  BY <1>1, StrategicInvariance, PTL

\* Under the same conditions the applied flag is true of the update in
\* progress, across every restart, failure and abandoned call.
THEOREM StrategicFlag ==
  ASSUME StrategicOnly
  PROVE  Spec => []AppliedIsTrue
<1>1. SInv => AppliedIsTrue
  BY DEF SInv, Fits, MachineFits, AppliedIsTrue
<1> QED
  BY <1>1, StrategicInvariance, PTL

\* Under the same conditions the handlers keep the contract with CAPI: a node
\* changes only in an update, to all of what it asks for with the node's own
\* identity, and DoUpdateMachine reports completion only after that.
THEOREM StrategicImplements ==
  ASSUME StrategicOnly
  PROVE  Spec => ImplementsContract
<1>1. SInv => Fits
  BY DEF SInv
<1>2. Calm
  BY DEF StrategicOnly
<1> QED
  BY <1>1, <1>2, StrategicInvariance, FitsImplements, PTL
=============================================================================
