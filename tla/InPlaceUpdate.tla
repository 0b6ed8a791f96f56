---------------------------- MODULE InPlaceUpdate ----------------------------
(***************************************************************************)
(* The in-place update extension server: the CanUpdateMachine and          *)
(* UpdateMachine hooks, running as concurrent HTTP handlers in one or more *)
(* replicas, against the ConfigMap that caches current BootstrapConfigs,   *)
(* the Talos nodes, and the CAPI controller that calls the hooks.          *)
(*                                                                         *)
(* A handler is a call with a program counter.  It takes one step per      *)
(* exchange with another process (Kubernetes API, Talos API) and per       *)
(* access to the in-memory maps that follows one; between two of its steps *)
(* any other call, a crash or the clock may intervene.                     *)
(***************************************************************************)
EXTENDS MachineConfig, Naturals

CONSTANTS
  Machines,         \* CAPI Machines, each backed by one Talos node
  ControlPlane,     \* the Machines with the control-plane label
  Replicas,         \* extension server processes behind the webhook Service
  Calls,            \* slots for hook calls being handled
  Bootstraps,       \* BootstrapConfigs a Machine may be given
  DayZero,          \* the config each node was provisioned with
  Settle,           \* 30 s, in ticks
  Timeout,          \* updateTimeoutDuration, in ticks
  Faults,           \* what the environment may do wrong
  MaxDisruptions    \* bound on crashes, abandoned calls, changes of mind and
                    \* re-created Machines

(***************************************************************************)
(* The faults of the environment.  The first row are failing exchanges,    *)
(* named after the code that suffers them; lostAck is a config applied by  *)
(* the node while the handler sees an error.                               *)
(*   crash     - a replica restarts and loses its memory                   *)
(*   abandon   - CAPI stops waiting for a call (timeout, restart of CAPI), *)
(*               whose context is cancelled: any exchange of it may fail   *)
(*   overlap   - CAPI calls again while an abandoned call is still running *)
(*   replan    - the desired state changes before the update is complete   *)
(*   late      - CAPI may leave a settled update waiting for any time      *)
(*   skipCheck - CAPI calls UpdateMachine with no CanUpdateMachine before  *)
(*   recreate  - a Machine is deleted, and one of the same name is made    *)
(***************************************************************************)
FaultKinds ==
  {"lookup", "read", "recover", "merge", "apply", "lostAck", "persist", "cleanup"}
  \cup {"crash", "abandon", "overlap", "replan", "late", "skipCheck", "recreate"}

ASSUME InPlaceAssumption ==
  /\ ControlPlane \subseteq Machines
  /\ Bootstraps \subseteq BootstrapConfig
  /\ DayZero \in [Machines -> Config]
  /\ Settle \in Nat /\ Timeout \in Nat /\ Settle < Timeout
  /\ Faults \subseteq FaultKinds
  /\ MaxDisruptions \in Nat

VARIABLES
  state,           \* state[r][m]: replica r's updateState of Machine m
  configPatches,   \* configPatches[r][m]: its stored patches
  cache,           \* the ConfigMap inplace-config-cache
  fresh,           \* calls holding a copy with its current resourceVersion
  node,            \* node[m]: live machine config of m's node
  rebooted,        \* Machines whose node an update has rebooted
  call,            \* call[c]: the handler running in slot c
  capi,            \* capi[m]: the CAPI controller's view of Machine m
  disruptions      \* crashes, abandoned calls and changes of mind so far

memory == <<state, configPatches>>
kube   == <<cache, fresh>>
talos  == <<node, rebooted>>
vars   == <<memory, kube, talos, call, capi, disruptions>>

-----------------------------------------------------------------------------
(***************************************************************************)
(* State spaces.                                                           *)
(***************************************************************************)
\* updateState; startedAt is kept as the time since then, up to the point
\* where the comparisons with it no longer tell values apart.
UpdateState == [age : 0 .. Timeout + 1, applied : BOOLEAN]

CacheData == [Machines -> Bootstraps \cup {None}]

CanUpdateSteps == {"can", "persist", "create", "put"}
UpdateSteps    == {"load", "read", "merge", "recover", "apply", "cleanup", "remove"}

\* cur, des: the request.  awaited: CAPI still waits for the reply.  loaded:
\* DoUpdateMachine's variable.  cfg: the live config, then the patched one.
\* copy: the data of the ConfigMap as the handler got it.
Call ==
  [pc : CanUpdateSteps \cup UpdateSteps, r : Replicas, m : Machines,
   cur : Bootstraps, des : Bootstraps, awaited : BOOLEAN, loaded : BOOLEAN,
   cfg : Config \cup {None}, copy : CacheData \cup {None}]

ASSUME NoneAssumption ==
  /\ None \notin UpdateState /\ None \notin Call /\ None \notin Config
  /\ None \notin Patch /\ None \notin Bootstraps

\* phase: "check" calls CanUpdateMachine, "update" calls UpdateMachine.
\* cur, des: the BootstrapConfigs of the last complete and of this update.
CapiState ==
  [phase : {"idle", "check", "update"}, cur : Bootstraps, des : Bootstraps,
   verdict : {"none", "failed"}]

TypeOK ==
  /\ state \in [Replicas -> [Machines -> UpdateState \cup {None}]]
  /\ configPatches \in [Replicas -> [Machines -> Patch \cup {None}]]
  /\ cache \in [exists : BOOLEAN, data : CacheData]
  /\ fresh \subseteq Calls
  /\ node \in [Machines -> Config]
  /\ rebooted \subseteq Machines
  /\ call \in [Calls -> Call \cup {None}]
  /\ capi \in [Machines -> CapiState]
  /\ disruptions \in 0 .. MaxDisruptions

Init ==
  /\ state = [r \in Replicas |-> [m \in Machines |-> None]]
  /\ configPatches = [r \in Replicas |-> [m \in Machines |-> None]]
  /\ cache = [exists |-> FALSE, data |-> [m \in Machines |-> None]]
  /\ fresh = {}
  /\ capi \in {k \in [Machines -> CapiState] : \A m \in Machines :
                 /\ k[m].phase = "idle" /\ k[m].verdict = "none"
                 /\ k[m].des = k[m].cur /\ Usable(k[m].cur)}
  /\ node = [m \in Machines |-> Patched(DayZero[m], Target(capi[m].cur))]
  /\ rebooted = {}
  /\ call = [c \in Calls |-> None]
  /\ disruptions = 0

-----------------------------------------------------------------------------
(***************************************************************************)
(* Decisions of the handlers.  Where a definition is preceded by one that  *)
(* is marked "A bug", that one is the variant a run must find wrong.       *)
(***************************************************************************)
TimedOut(s) == s # None /\ s.age > Timeout

\* A bug: the wait is counted from any earlier attempt, applied or not.
SettledUnapplied(s) == s # None /\ s.age > Settle

\* The config has been applied and the node had its time to settle.
Settled(s) == s # None /\ s.applied /\ s.age > Settle

Settling(s) == s # None /\ s.applied /\ ~Settled(s)

\* A bug: an error of ApplyConfig is recorded like a success.
AppliedAnyway(s, loaded) == [age |-> 0, applied |-> TRUE]

\* A bug: every failing attempt starts the timer again.
AfterEveryFailedApply(s, loaded) == [age |-> 0, applied |-> FALSE]

\* Only the first failing attempt is recorded: the timer runs from there.
AfterFailedApply(s, loaded) ==
  IF loaded THEN s ELSE [age |-> 0, applied |-> FALSE]

\* A bug: the applied flag is left out of the state that is stored.
JustStarted == [age |-> 0, applied |-> FALSE]

JustApplied == [age |-> 0, applied |-> TRUE]

\* A bug: what a finished update leaves behind is kept.
Retained(map, r, m) == map

\* sync.Map.Delete.
Deleted(map, r, m) == [map EXCEPT ![r][m] = None]

\* A bug: control plane nodes are treated like workers.
AlwaysAuto(m) == "auto"

ApplyMode(m) == IF m \in ControlPlane THEN "no-reboot" ELSE "auto"

\* Talos takes the config, unless it needs a reboot in no-reboot mode.
Acceptable(m, new) == ApplyMode(m) = "auto" \/ ~NeedsReboot(node[m], new)

\* recoverPatchesFromConfigMap finds an entry, and both configs parse.
Recoverable(m, des) ==
  cache.data[m] # None /\ Extractable(cache.data[m]) /\ Extractable(des)

\* The data of a new ConfigMap, with m's entry alone.
OnlyEntry(data, m, b) == [x \in Machines |-> IF x = m THEN b ELSE None]

\* The data of the ConfigMap with m's entry set (or deleted: None).
WithEntry(data, m, b) == [data EXCEPT ![m] = b]

\* A bug: the ConfigMap is written without a check of its resourceVersion.
NeverConflicts(c) == TRUE

\* The API server accepts c's Update: the object has not changed since c's Get.
HasLatest(c) == c \in fresh

-----------------------------------------------------------------------------
(***************************************************************************)
(* Steps and replies of a call.                                            *)
(***************************************************************************)
At(c, pc) == call[c] # None /\ call[c].pc = pc

\* The exchange x of call c may fail: the environment may do that to any call,
\* or CAPI has given up on this one and its context is cancelled.
MayFail(c, x) == x \in Faults \/ ~call[c].awaited

Goto(c, pc) == call' = [call EXCEPT ![c].pc = pc] /\ UNCHANGED capi

\* CAPI's view after a reply it waited for.
Heard(k, answer) ==
  CASE answer = "claimed" -> [k EXCEPT !.phase = "update"]
    [] answer = "done"    -> [k EXCEPT !.phase = "idle", !.cur = k.des]
    [] answer = "failure" -> [k EXCEPT !.verdict = "failed"]
    [] answer = "retry"   -> k

Reply(c, answer) ==
  /\ call' = [call EXCEPT ![c] = None]
  /\ capi' = IF call[c].awaited
             THEN [capi EXCEPT ![call[c].m] = Heard(@, answer)] ELSE capi

-----------------------------------------------------------------------------
(***************************************************************************)
(* The CAPI controller.                                                    *)
(***************************************************************************)
InFlight(m) == {c \in Calls : call[c] # None /\ call[c].m = m}
Awaited(m)  == {c \in InFlight(m) : call[c].awaited}

Disrupt(fault) ==
  /\ fault \in Faults
  /\ disruptions < MaxDisruptions
  /\ disruptions' = disruptions + 1

\* A new desired state for a Machine that is up to date.  Its BootstrapConfig
\* may be the one it has, when another of its objects changes (MachineRollout).
Roll(m, d) ==
  /\ capi[m].phase = "idle"
  /\ \E p \in {"check"} \cup (IF "skipCheck" \in Faults THEN {"update"} ELSE {}) :
       capi' = [capi EXCEPT ![m].phase = p, ![m].des = d]
  /\ UNCHANGED <<memory, kube, talos, call, disruptions>>

\* A new desired state in the middle of an update.
Replan(m, d) ==
  /\ Disrupt("replan")
  /\ capi[m].phase # "idle" /\ Awaited(m) = {}
  /\ d # capi[m].des
  /\ capi' = [capi EXCEPT ![m].phase = "check", ![m].des = d,
                          ![m].verdict = "none"]
  /\ UNCHANGED <<memory, kube, talos, call>>

\* A Machine is deleted, in an update or not, and another is provisioned from b
\* under its name.  No hook tells the extension.
Recreate(m, b) ==
  /\ Disrupt("recreate")
  /\ InFlight(m) = {} /\ Usable(b)
  /\ capi' = [capi EXCEPT ![m] =
       [phase |-> "idle", cur |-> b, des |-> b, verdict |-> "none"]]
  /\ node' = [node EXCEPT ![m] = Patched(DayZero[m], Target(b))]
  /\ rebooted' = rebooted \ {m}
  /\ UNCHANGED <<memory, kube, call>>

\* CAPI calls the hook of its phase and waits for the reply.
StartCall(c, r, m) ==
  /\ call[c] = None
  /\ capi[m].phase # "idle"
  /\ InFlight(m) = {} \/ ("overlap" \in Faults /\ Awaited(m) = {})
  /\ call' = [call EXCEPT ![c] =
       [pc |-> IF capi[m].phase = "check" THEN "can" ELSE "load",
        r |-> r, m |-> m, cur |-> capi[m].cur, des |-> capi[m].des,
        awaited |-> TRUE, loaded |-> FALSE, cfg |-> None, copy |-> None]]
  /\ capi' = [capi EXCEPT ![m].verdict = "none"]
  /\ UNCHANGED <<memory, kube, talos, disruptions>>

\* CAPI gives up on a call, which runs on.
Abandon(c) ==
  /\ Disrupt("abandon")
  /\ call[c] # None /\ call[c].awaited
  /\ call' = [call EXCEPT ![c].awaited = FALSE]
  /\ UNCHANGED <<memory, kube, talos, capi>>

-----------------------------------------------------------------------------
(***************************************************************************)
(* DoCanUpdateMachine.                                                     *)
(***************************************************************************)
\* The JSON patches of what the extension claims cannot be computed.
ClaimFails(c) ==
  /\ At(c, "can")
  /\ ~call[c].cur.json \/ ~call[c].des.json
  /\ Reply(c, "failure")
  /\ UNCHANGED <<memory, kube, talos>>

\* The claim stands, but there is no config diff to store.
ClaimOnly(c) ==
  /\ At(c, "can")
  /\ call[c].cur.json /\ call[c].des.json
  /\ ~Extractable(call[c].cur) \/ ~Extractable(call[c].des)
  /\ Reply(c, "claimed")
  /\ UNCHANGED <<memory, kube, talos>>

ClaimAndStore(c) ==
  /\ At(c, "can")
  /\ call[c].cur.json /\ call[c].des.json
  /\ Extractable(call[c].cur) /\ Extractable(call[c].des)
  /\ configPatches' = [configPatches EXCEPT ![call[c].r][call[c].m] =
                         Diff(call[c].cur.data, call[c].des.data)]
  /\ Goto(c, "persist")
  /\ UNCHANGED <<state, kube, talos>>

\* persistCurrentConfig: Get of the ConfigMap.
PersistGet(c) ==
  /\ At(c, "persist")
  /\ call' = [call EXCEPT ![c].pc = IF cache.exists THEN "put" ELSE "create",
                          ![c].copy = IF cache.exists THEN cache.data ELSE None]
  /\ fresh' = IF cache.exists THEN fresh \cup {c} ELSE fresh
  /\ UNCHANGED <<memory, cache, talos, capi>>

\* The error of any exchange is logged, and the claim stands.
PersistFails(c) ==
  /\ At(c, "persist") \/ At(c, "create") \/ At(c, "put")
  /\ MayFail(c, "persist")
  /\ fresh' = fresh \ {c}
  /\ Reply(c, "claimed")
  /\ UNCHANGED <<memory, cache, talos>>

\* Create is refused if another call has created the ConfigMap since the Get.
PersistCreate(c) ==
  /\ At(c, "create")
  /\ cache' = IF cache.exists THEN cache
              ELSE [exists |-> TRUE,
                    data |-> OnlyEntry(cache.data, call[c].m, call[c].cur)]
  /\ Reply(c, "claimed")
  /\ UNCHANGED <<memory, fresh, talos>>

\* An Update of the whole object.  Success outdates every copy; a conflict
\* leaves the ConfigMap as it is.
Put(c, b) ==
  IF HasLatest(c)
  THEN /\ cache' = [cache EXCEPT !.data = WithEntry(call[c].copy, call[c].m, b)]
       /\ fresh' = {}
  ELSE UNCHANGED kube

\* A bug: the desired config is persisted in place of the current one.
PersistDesired(c) ==
  /\ At(c, "put")
  /\ Put(c, call[c].des)
  /\ Reply(c, "claimed")
  /\ UNCHANGED <<memory, talos>>

PersistUpdate(c) ==
  /\ At(c, "put")
  /\ Put(c, call[c].cur)
  /\ Reply(c, "claimed")
  /\ UNCHANGED <<memory, talos>>

-----------------------------------------------------------------------------
(***************************************************************************)
(* DoUpdateMachine.                                                        *)
(***************************************************************************)
Mine(c) == state[call[c].r][call[c].m]

NoAddress(c) ==
  /\ At(c, "load")
  /\ MayFail(c, "lookup")
  /\ Reply(c, "failure")
  /\ UNCHANGED <<memory, kube, talos>>

EndUpdate(c) ==
  /\ state' = Deleted(state, call[c].r, call[c].m)
  /\ configPatches' = Deleted(configPatches, call[c].r, call[c].m)

TimesOut(c) ==
  /\ At(c, "load")
  /\ TimedOut(Mine(c))
  /\ EndUpdate(c)
  /\ Reply(c, "failure")
  /\ UNCHANGED <<kube, talos>>

Completes(c) ==
  /\ At(c, "load")
  /\ ~TimedOut(Mine(c)) /\ Settled(Mine(c))
  /\ EndUpdate(c)
  /\ Reply(c, "done")
  /\ UNCHANGED <<kube, talos>>

Settles(c) ==
  /\ At(c, "load")
  /\ ~TimedOut(Mine(c)) /\ Settling(Mine(c))
  /\ Reply(c, "retry")
  /\ UNCHANGED <<memory, kube, talos>>

Proceeds(c) ==
  /\ At(c, "load")
  /\ ~TimedOut(Mine(c)) /\ ~Settled(Mine(c)) /\ ~Settling(Mine(c))
  /\ call' = [call EXCEPT ![c].pc = "read", ![c].loaded = Mine(c) # None]
  /\ UNCHANGED <<memory, kube, talos, capi>>

ReadFails(c) ==
  /\ At(c, "read")
  /\ MayFail(c, "read")
  /\ Reply(c, "failure")
  /\ UNCHANGED <<memory, kube, talos>>

ReadLive(c) ==
  /\ At(c, "read")
  /\ call' = [call EXCEPT ![c].pc = "merge", ![c].cfg = node[call[c].m]]
  /\ UNCHANGED <<memory, kube, talos, capi>>

\* A bug: the patches are sent as they are, without the live config.
SendPatches(c, p) ==
  /\ call' = [call EXCEPT ![c].pc = "apply", ![c].cfg = p]
  /\ UNCHANGED capi

\* The config to apply: patch p on top of the live config.
Merge(c, p) ==
  /\ call' = [call EXCEPT ![c].pc = "apply", ![c].cfg = Patched(@, p)]
  /\ UNCHANGED capi

\* Path A: the patches that CanUpdateMachine stored.
MergeStored(c) ==
  /\ At(c, "merge")
  /\ configPatches[call[c].r][call[c].m] # None
  /\ Merge(c, configPatches[call[c].r][call[c].m])
  /\ UNCHANGED <<memory, kube, talos>>

NothingStored(c) ==
  /\ At(c, "merge")
  /\ configPatches[call[c].r][call[c].m] = None
  /\ Goto(c, "recover")
  /\ UNCHANGED <<memory, kube, talos>>

\* Path B: the patches derived from the ConfigMap.
MergeRecovered(c) ==
  /\ At(c, "recover")
  /\ Recoverable(call[c].m, call[c].des)
  /\ LET p == Diff(cache.data[call[c].m].data, call[c].des.data)
     IN  /\ configPatches' = [configPatches EXCEPT ![call[c].r][call[c].m] = p]
         /\ Merge(c, p)
  /\ UNCHANGED <<state, kube, talos>>

\* Path C: the strategic patches of the desired BootstrapConfig.
Direct(c) ==
  /\ At(c, "recover")
  /\ ~Recoverable(call[c].m, call[c].des) \/ MayFail(c, "recover")

DirectFails(c) ==
  /\ Direct(c)
  /\ call[c].des.strategic = Broken
  /\ Reply(c, "failure")
  /\ UNCHANGED <<memory, kube, talos>>

Finish(c) ==
  /\ state' = [state EXCEPT ![call[c].r][call[c].m] = JustApplied]
  /\ Reply(c, "retry")

NothingToApply(c) ==
  /\ Direct(c)
  /\ call[c].des.strategic # Broken
  /\ DOMAIN call[c].des.strategic = {}
  /\ Finish(c)
  /\ UNCHANGED <<configPatches, kube, talos>>

MergeDirect(c) ==
  /\ Direct(c)
  /\ call[c].des.strategic # Broken
  /\ DOMAIN call[c].des.strategic # {}
  /\ Merge(c, call[c].des.strategic)
  /\ UNCHANGED <<memory, kube, talos>>

MergeFails(c) ==
  /\ "merge" \in Faults
  /\ At(c, "apply")
  /\ Reply(c, "failure")
  /\ UNCHANGED <<memory, kube, talos>>

\* The node takes the config.
NodeTakes(c) ==
  /\ At(c, "apply")
  /\ Acceptable(call[c].m, call[c].cfg)
  /\ node' = [node EXCEPT ![call[c].m] = call[c].cfg]
  /\ rebooted' = IF NeedsReboot(node[call[c].m], call[c].cfg)
                 THEN rebooted \cup {call[c].m} ELSE rebooted

\* ApplyConfig returned an error.
RetryLater(c) ==
  /\ state' = [state EXCEPT ![call[c].r][call[c].m] =
                 AfterFailedApply(@, call[c].loaded)]
  /\ Reply(c, "retry")

ApplyAccepted(c) ==
  /\ NodeTakes(c)
  /\ Goto(c, "cleanup")
  /\ UNCHANGED <<memory, kube>>

ApplyUnacked(c) ==
  /\ NodeTakes(c)
  /\ MayFail(c, "lostAck")
  /\ RetryLater(c)
  /\ UNCHANGED <<configPatches, kube>>

ApplyRejected(c) ==
  /\ At(c, "apply")
  /\ ~Acceptable(call[c].m, call[c].cfg) \/ MayFail(c, "apply")
  /\ RetryLater(c)
  /\ UNCHANGED <<configPatches, kube, talos>>

DropPatches(c) == configPatches' = Deleted(configPatches, call[c].r, call[c].m)

\* cleanupConfigCache: Get of the ConfigMap, which has no entry to remove.
CleanupNotNeeded(c) ==
  /\ At(c, "cleanup")
  /\ DropPatches(c)
  /\ cache.data[call[c].m] = None
  /\ Finish(c)
  /\ UNCHANGED <<kube, talos>>

CleanupGet(c) ==
  /\ At(c, "cleanup")
  /\ DropPatches(c)
  /\ cache.data[call[c].m] # None
  /\ call' = [call EXCEPT ![c].pc = "remove", ![c].copy = cache.data]
  /\ fresh' = fresh \cup {c}
  /\ UNCHANGED <<state, cache, talos, capi>>

\* An error of the Get or the Update is logged at most.
CleanupFails(c) ==
  /\ \/ At(c, "cleanup") /\ DropPatches(c)
     \/ At(c, "remove") /\ UNCHANGED configPatches
  /\ MayFail(c, "cleanup")
  /\ fresh' = fresh \ {c}
  /\ Finish(c)
  /\ UNCHANGED <<cache, talos>>

CleanupUpdate(c) ==
  /\ At(c, "remove")
  /\ Put(c, None)
  /\ Finish(c)
  /\ UNCHANGED <<configPatches, talos>>

-----------------------------------------------------------------------------
(***************************************************************************)
(* The environment: restarts and the clock.                                *)
(***************************************************************************)
Crash(r) ==
  /\ Disrupt("crash")
  /\ state' = [state EXCEPT ![r] = [m \in Machines |-> None]]
  /\ configPatches' = [configPatches EXCEPT ![r] = [m \in Machines |-> None]]
  /\ call' = [c \in Calls |-> IF call[c] # None /\ call[c].r = r
                              THEN None ELSE call[c]]
  /\ fresh' = {c \in fresh : call'[c] # None}
  /\ UNCHANGED <<cache, talos, capi>>

Older(s) ==
  IF s = None \/ TimedOut(s) THEN s ELSE [s EXCEPT !.age = @ + 1]

\* A settled update that CAPI has yet to ask for.
Waiting(r, m) == capi[m].phase = "update" /\ Settled(state[r][m])

\* Unless "late" is allowed, CAPI asks for a settled update without delay.
Tick ==
  /\ "late" \in Faults \/ \A r \in Replicas, m \in Machines : ~Waiting(r, m)
  /\ state' = [r \in Replicas |-> [m \in Machines |-> Older(state[r][m])]]
  /\ UNCHANGED <<configPatches, kube, talos, call, capi, disruptions>>

-----------------------------------------------------------------------------
CanUpdateStep(c) ==
  \/ ClaimFails(c) \/ ClaimOnly(c) \/ ClaimAndStore(c)
  \/ PersistGet(c) \/ PersistFails(c) \/ PersistCreate(c) \/ PersistUpdate(c)

UpdateStep(c) ==
  \/ NoAddress(c) \/ TimesOut(c) \/ Completes(c) \/ Settles(c) \/ Proceeds(c)
  \/ ReadFails(c) \/ ReadLive(c)
  \/ MergeStored(c) \/ NothingStored(c) \/ MergeRecovered(c)
  \/ DirectFails(c) \/ NothingToApply(c) \/ MergeDirect(c) \/ MergeFails(c)
  \/ ApplyAccepted(c) \/ ApplyUnacked(c) \/ ApplyRejected(c)
  \/ CleanupNotNeeded(c) \/ CleanupGet(c) \/ CleanupFails(c) \/ CleanupUpdate(c)

Handler(c) == (CanUpdateStep(c) \/ UpdateStep(c)) /\ UNCHANGED disruptions

Next ==
  \/ \E m \in Machines, d \in Bootstraps :
       Roll(m, d) \/ Replan(m, d) \/ Recreate(m, d)
  \/ \E c \in Calls, r \in Replicas, m \in Machines : StartCall(c, r, m)
  \/ \E c \in Calls : Abandon(c) \/ Handler(c)
  \/ \E r \in Replicas : Crash(r)
  \/ Tick

Spec == Init /\ [][Next]_vars

(***************************************************************************)
(* Every exchange has a deadline, so a handler takes its next step; the    *)
(* controller requeues a Machine that is not up to date; time passes.      *)
(***************************************************************************)
Fairness ==
  /\ \A c \in Calls : WF_vars(Handler(c))
  /\ \A m \in Machines :
       WF_vars(\E c \in Calls, r \in Replicas : StartCall(c, r, m))
  /\ WF_vars(Tick)

FairSpec == Spec /\ Fairness

-----------------------------------------------------------------------------
(***************************************************************************)
(* Properties.                                                             *)
(***************************************************************************)
\* What CAPI may rely on: a node changes only while an update of its Machine is
\* in progress, from the config before to one that has all the update asks for
\* and the identity of the node, and the update is reported complete only then.
Contract ==
  INSTANCE UpdateContract WITH
    updating <- {m \in Machines : capi[m].phase # "idle"},
    want     <- [m \in Machines |-> capi[m].des]

ImplementsContract == Contract!Spec

\* Per-node identity injected at Day 0 (hostname, VLAN, MAC, IPv6) survives
\* every update, whatever fails, crashes or overlaps: each path of
\* DoUpdateMachine merges template fields into a config read from that node.
IdentityPreserved ==
  \A m \in Machines : \A f \in IdentityFields : node[m][f] = DayZero[m][f]

\* No update reboots a control plane node (DoUpdateMachine's apply mode).
ControlPlaneNeverRebooted == rebooted \cap ControlPlane = {}

\* When CAPI has been told that an update is complete (Success without a
\* retry), the node's config is what the BootstrapConfig asks for, and stays so
\* until the next update.
NoFalseSuccess ==
  \A m \in Machines :
    capi[m].phase = "idle" => Converged(node[m], capi[m].cur)

\* The applied flag of a replica speaks of the update in progress: never of an
\* earlier one, and never of a config the node does not have.
AppliedIsTrue ==
  \A r \in Replicas, m \in Machines :
    (state[r][m] # None /\ state[r][m].applied) =>
      /\ capi[m].phase = "update"
      /\ Converged(node[m], capi[m].des)

\* An update leaves nothing in memory that a later update of the Machine could
\* take for its own: no state and no patches.  (An entry of the ConfigMap may
\* outlive it, when the cleanup fails; CacheIsCurrent is about those.)
IdleIsClean ==
  \A m \in Machines : capi[m].phase = "idle" =>
    \A r \in Replicas : state[r][m] = None /\ configPatches[r][m] = None

\* A node has all of the desired config or all of the one before, never a
\* part of either: patches, stored or derived again, are applied whole and
\* against the config they were computed from.  (Full machine configs only.)
AllOrNothing ==
  \A m \in Machines :
    node[m] \in {Patched(DayZero[m], Target(capi[m].cur)),
                 Patched(DayZero[m], Target(capi[m].des))}

\* The config a restarted replica would derive its patches from is the one
\* the update in progress started from, not one of an earlier update.
CacheIsCurrent ==
  \A m \in Machines :
    (capi[m].phase = "update" /\ cache.data[m] # None) =>
      cache.data[m] = capi[m].cur

\* Handlers of different Machines share one ConfigMap that each of them reads,
\* changes and writes as a whole; none of them changes another's entry.
NoLostCacheEntry ==
  [][\A m \in Machines : cache'.data[m] # cache.data[m] =>
       \E c \in InFlight(m) : call'[c] # call[c]]_vars

\* An update that CAPI keeps asking for ends: it is complete, or CAPI hears of
\* a failure.  A node that refuses its config for ever is such a failure,
\* because failing attempts leave the timer running.
UpdateEnds ==
  \A m \in Machines :
    (capi[m].phase = "update" /\ capi[m].verdict = "none") ~>
      (capi[m].phase = "idle" \/ capi[m].verdict = "failed")

\* An exchange of m's update fails.
Obstructed(m) ==
  \E c \in InFlight(m) :
    \/ NoAddress(c) \/ ReadFails(c) \/ MergeFails(c)
    \/ ApplyUnacked(c) \/ ApplyRejected(c)

\* CAPI lets time pass that it should ask about m in.
Neglected(m) == Tick /\ \E r \in Replicas : Waiting(r, m)

\* Once the exchanges of an update stop failing and CAPI asks in time again,
\* the update is completed, and the node has the config: however many failures,
\* timeouts and restarts came before, and whatever they left behind.
UpdateCompletes ==
  \A m \in Machines :
    (<>[][~Obstructed(m)]_vars /\ <>[][~Neglected(m)]_vars) =>
      ((capi[m].phase = "update") ~>
         (capi[m].phase = "idle" /\ Converged(node[m], capi[m].cur)))

-----------------------------------------------------------------------------
(***************************************************************************)
(* What comments and documents of the repository say, and the code is not. *)
(***************************************************************************)
\* "UpdateMachine will fail if the stored patches are missing, which is the
\* safe default" (canupdatemachine.go).
MissingPatchesFail ==
  [][\A c \in Calls : (Direct(c) /\ call[c].awaited /\ call'[c] = None) =>
       capi'[call[c].m].verdict = "failed"]_vars

\* "updateTimeoutDuration is the maximum time we wait for a node to finish
\* applying config before declaring failure" (updatemachine.go): no failure is
\* declared once the node has applied the config and settled.
TimeoutOnlyIfUnfinished ==
  [][\A c \in Calls : TimesOut(c) => ~Settled(Mine(c))]_vars
=============================================================================
