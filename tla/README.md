# Talos Fleet Controller: TLA+ models and proofs

The binary of this repository is a Cluster API (CAPI) Runtime SDK extension
server. CAPI calls its hooks to change a Machine in place: `CanUpdateMachine`
says that the extension can make a change, and `UpdateMachine`, called again and
again until it reports completion or failure, makes it through the Talos API.
(The `FleetNodeSet` reconciler that the repository's README describes is not in
the source; only its CRD is.)

## The system

| Part | State | Operations | Modelled |
| --- | --- | --- | --- |
| `UpdateMachine` (`internal/handlers/updatemachine.go`) | in-memory `state` per Machine: start time, applied flag | look up the node, check timer and applied flag, read the live config, merge patches (stored, recovered, or direct), apply, clean up | `InPlaceUpdate`; the look-up in `NodeAddress` |
| `CanUpdateMachine` (`canupdatemachine.go`) | in-memory `configPatches` per Machine; the ConfigMap `inplace-config-cache` | claim the change, store the config diff, persist the current BootstrapConfig | `InPlaceUpdate`; the claims in `CanUpdateClaims`, `MachineRollout` |
| `CanUpdateMachineSet` | none | claim the change of a worker's MachineSet | `CanUpdateClaims`, `MachineRollout` |
| Talos client (`internal/talos/client.go`) | none | read a config, apply a config in a mode; the rest has no caller | as exchanges that succeed, fail, or succeed unheard |
| Server start-up (`cmd/main.go`) | none | build the clients, register the handlers, serve | `Init`, `Crash` |
| Mock client, e2e chart test, Helm chart, manifests, CRD | none | | no |

How the parts meet. Handlers are HTTP handlers and run concurrently. Handlers of
one replica share two `sync.Map`s; handlers of all replicas and Machines share
one ConfigMap, read and written whole under the API server's check of
`resourceVersion`. CAPI calls one hook at a time for a Machine, but a call it has
given up on may still be running. Which replica serves a call is the Service's
choice.

What is hard here, and what must hold:

* *Atomicity.* An update is a dozen exchanges with other processes, and another
  call, a restart or the clock may come between any two. The node must keep its
  identity, and completion must only be reported for a config the node has.
* *Leftovers.* State, patches and ConfigMap entries outlive the call that wrote
  them and are keyed by Machine only. An update must not take those of an
  earlier one for its own.
* *Restarts* lose the memory; the patches must come out the same when they are
  derived from the ConfigMap.
* *Timer against applied flag*: every update must end, and end as what it was.
* *Contention* for the ConfigMap: no handler may erase the entry of another.
* *Claims.* CAPI replaces a node unless the hook's patches cover the whole change,
  so they must cover exactly what the extension claims, also where a field or a
  spec appears or vanishes, and the two hooks must agree.
* *Look-ups* read the Machine and its Node one after the other, while both change.

`PROJECT.json` lists each hazard at its line, with the properties about it.

## Modules

* `MachineConfig` - the data: a machine config is a function from fields to
  values. Template fields are what a BootstrapConfig sets; identity fields
  (hostname, VLAN, MAC, IPv6) exist on the live node only. A BootstrapConfig is
  a full config (`data`), strategic patches (`strategic`), or something that
  does not parse (`Broken`). `Diff` is `configdiff.Patch`, `Patched` is
  `configpatcher.Apply`. Lists, which Talos merges by appending, are not
  modelled: a field has one value, so applying a patch twice changes nothing
  more, as it is for scalar fields.
* `InPlaceUpdate` - the system. A call in flight is a record with a program
  counter in a slot of `call`, and takes one step per exchange with another
  process together with the accesses to memory that follow it. `state` and
  `configPatches` are the maps of each replica; `startedAt` is kept as an age
  that `Tick` advances and that stops growing once it is past the timeout.
  `cache` is the ConfigMap; `fresh` holds the calls whose copy of it has the
  current `resourceVersion`. `node` is the live config of each node. `capi`
  is what the controller knows: the phase of a Machine, its BootstrapConfig
  before (`cur`) and after (`des`) the update, and the last verdict.
* `UpdateContract` - the abstract specification: a Machine gets a new desired
  config, its node moves to a config that has it and the same identity, and only
  then is the update complete. `InPlaceUpdate` implements it (`Contract`, with
  `updating` and `want` read off `capi`) wherever the runs below say so.
* `CanUpdateClaims` - the answers of the two CanUpdate hooks, as operators: an
  object is a function from the keys it has, a JSON patch says which keys it sets
  and which it removes, and `omitempty` leaves out fields with a zero value.
* `MachineRollout` - a change of a Machine from the edit to the node: CAPI asks
  the hook, applies the patches to the objects it sent, and updates in place if
  the result is the desired state, otherwise it replaces the node. Edits may land
  at any point. A call of `UpdateMachine` is one step here, one for each way in
  which it may turn out: the config is applied by a stored difference (paths A and
  B) or by strategic patches (path C), nothing is applied and that counts as
  success, the BootstrapConfig cannot be read, or the call is interrupted, the
  node having taken the config or not. CAPI calls again until it succeeds. What
  an earlier update left in the extension, and answers that are lost, are
  `InPlaceUpdate`'s and not here.
* `NodeAddress` - `lookupNodeIP`, one step per source: the request's Machine, its
  infrastructure object, then the live Machine and its Node, with Gets that fail
  and controllers that write in between.
* `MCInPlaceUpdate`, `MCMachineRollout`, `MCNodeAddress` - the constants for TLC.
* `InPlaceUpdate_proofs` - theorems that need no promise of the environment.
* `Contract_proofs` - lemmas on completion, for every format of a BootstrapConfig.
* `StrategicFormat_proofs` - theorems about Machines with strategic patches only.
* `FullFormat_proofs` - lemmas about Machines with full configs;
  `Recovery_proofs` - theorems about them across restarts;
  `Contention_proofs` - theorems about any number of them at once.
* `MachineRollout_proofs`, `NodeAddress_proofs` - theorems about these modules.

| Program counter | Code | Actions |
| --- | --- | --- |
| `can` | `DoCanUpdateMachine`, `storeBootstrapConfigDiff` to line 162 | `ClaimFails`, `ClaimOnly`, `ClaimAndStore` |
| `persist`, `create`, `put` | `persistCurrentConfig` | `PersistGet`, `PersistCreate`, `PersistUpdate`, `PersistFails` |
| `load` | `DoUpdateMachine` 93-139 | `NoAddress`, `TimesOut`, `Completes`, `Settles`, `Proceeds` |
| `read` | 166-172 | `ReadLive`, `ReadFails` |
| `merge` | 184-216 (path A) | `MergeStored`, `NothingStored` |
| `recover` | 185-195 (path B), 217-271 (path C) | `MergeRecovered`, `DirectFails`, `NothingToApply`, `MergeDirect` |
| `apply` | 273-294 | `ApplyAccepted`, `ApplyUnacked`, `ApplyRejected`, `MergeFails` |
| `cleanup`, `remove` | 296-302, `cleanupConfigCache` | `CleanupNotNeeded`, `CleanupGet`, `CleanupUpdate`, `CleanupFails` |

`Roll`, `Replan`, `StartCall` and `Abandon` are CAPI, `Crash` is a restart of a
replica, `Tick` the clock. CAPI, the Kubernetes API and the Talos API are
modelled from how the handlers use them. What they may do wrong is the constant
`Faults`, so each run says which promises it needs of them: `overlap` (CAPI calls
again while an abandoned call still runs), `replan` (the desired state changes in
the middle of an update) and `late` (CAPI leaves a settled update waiting) are
about CAPI, and so are `skipCheck` (`UpdateMachine` comes without
`CanUpdateMachine`: CAPI asks about workers with `CanUpdateMachineSet`, which
stores nothing) and `recreate` (a Machine is deleted and one of the same name
provisioned); `abandon` (CAPI gives up on a call, which runs on) cancels the call's
context, so that every exchange of that call may fail (`MayFail`); `lookup`, `read`, `merge`, `apply`, `lostAck`, `persist`, `recover`
and `cleanup` are failing exchanges at the step of that name. An update need not
change the BootstrapConfig: the Machine or its infrastructure object may be what
changed. A definition marked "A bug" is a faulty variant of one after it, for the
mutation checks.

## Runs

| Run | Question | Result |
| --- | --- | --- |
| `strategic_format` | one control plane node, strategic patches (also none, bad ones, no JSON), failing lookups, reads, merges and applies, lost replies, restarts, abandoned and late calls: is completion ever false, is a stale applied flag ever believed? fairness: does every update end? | `AppliedIsTrue`, `ImplementsContract`, `UpdateEnds` hold |
| `full_config` | full configs with restarts, refusals, lost replies and failing cleanups: are patches applied whole and against the right base, also when recovered; is anything left in memory? fairness: is an update that is not obstructed for ever completed? | `AllOrNothing`, `IdleIsClean`, `CacheIsCurrent`, `ImplementsContract`, `UpdateCompletes` hold |
| `contention` | two Machines, two calls, one ConfigMap, failing writes, no restarts | `NoLostCacheEntry`, `NoFalseSuccess` hold |
| `chaos` | every fault at once, overlapping calls, re-created Machines, both formats | `IdentityPreserved`, `ControlPlaneNeverRebooted`, `TypeOK` hold |
| `claims` | every kind of edit of a Machine: is a node replaced exactly when it must be, whichever hook is asked; what does a running node have of the objects it was rolled out to? fairness: does a desired state that settles get through? | `DecisionIsExact`, `HooksAgree`, `NodeFollows`, `ChangesLand`, `TypeOK` hold |
| `node_address` | are sources and address types tried in the documented order, may an address that is there all along be missed between two Gets? fairness: do look-ups go on finding one? | `OrderKept`, `SteadySourceFound`, `AddressFound`, `TypeOK` hold |
| `missing_patches` | "UpdateMachine will fail if the stored patches are missing" (canupdatemachine.go:117) | violated: path C answers Success with nothing applied, so a worker's full config update, for which `CanUpdateMachineSet` stores nothing, never reaches its node |
| `restart_unpersisted` | "resilient to pod restarts" (updatemachine.go:164) | violated when the write of the ConfigMap failed |
| `two_replicas` | "stateless; more than one replica can run" (chart values.yaml:8) | violated with no fault: the first replica keeps the state of an update the second completed |
| `repeated_calls` | "This hook is idempotent" (updatemachine.go:81) | violated: an abandoned call stores `applied` after the update was completed by another |
| `late_poll` | "before declaring failure" (updatemachine.go:47) | violated: the timeout is checked before the applied flag |
| `claims_unapplied` | "report failure if a change truly requires recreation" (canupdatemachine.go:48) | violated: a change of the failure domain or of the infrastructure object's spec is claimed and reported complete, and the node stays as it was |

The six violations are disagreements of the code with its own words, quoted in
`PROJECT.json`. The chart's README already names one way into
`restart_unpersisted`: the namespace of the ConfigMap is hardcoded and the chart
does not create it. A write conflict of two Machines is another.

The comment quoted for `claims_unapplied` also says that "ALL spec changes on the
Machine and BootstrapConfig" are claimed (canupdatemachine.go:46). That needs no
run of its own: `DecisionIsExact` says that of the Machine's spec only version and
failure domain are, and that a change of any other field replaces the node.

What `NodeFollows` grants a running node is what the code gives it and no more. It
has every field that nobody claims, since a change of one replaces it. It has the
strategic patches of its BootstrapConfig when those are all the BootstrapConfig
consists of. It may be behind in the version, the failure domain and the spec of
the infrastructure object, which are claimed and not looked at, and in a full
machine config, which path C skips when no patches are stored. `ChangesLand` has
one exception for the same reason: a BootstrapConfig without a spec, or with
patches that do not load, is claimed, and `UpdateMachine` fails on it every time
(`StuckOn`).

**Bounds.** `Settle = 1` and `Timeout = 2` ticks are the smallest values that keep
"settling", "settled" and "timed out" apart; ages saturate at 3 and the code only
compares them with the two limits. Two template fields, one of which takes a
reboot, and one identity field with a value no template sets tell apart a whole,
a partial and an empty update. One Machine is enough where
Machines meet only in the ConfigMap; `contention` has two. One slot for calls is
enough where CAPI does not overlap calls, two show an overlap.
`MaxDisruptions` bounds restarts, abandoned calls and changes of mind together:
two allow a restart after an abandoned call, or a restart during the recovery
from one; `strategic_format` and `full_config` have four. Machines are updated
again without end. In `MachineRollout` one Machine is enough, since Machines share
nothing, and one of the control plane, since the steps of a worker's update are
among those of its update (`DiffApplied` is not a worker's) and `HooksAgree`
compares the hooks for every change. The objects have a field that is claimed and
set, one that is claimed and may be unset, one that is not claimed, and
BootstrapConfigs of every kind: strategic patches, a full config, both, neither,
patches that do not load, no spec, other metadata, empty, not JSON.
`MaxStaleAsks` bounds the edits
that land during a rollout: one is enough to make a decision about an old desired
state; edits of an idle Machine are not bounded. In `NodeAddress` the lists have no IP,
one IP after a host name, both types with the preferred one last, and two of one
type, so that every preference is visible. Nothing else is bounded and no run uses
symmetry.

**Fairness.** Handlers take their next step because every exchange has a deadline
(`Timeouts` in `client.go`, and the hook call's own context); CAPI requeues a
Machine that is not up to date; time passes. All three are weak fairness, and the
runs with liveness have no overlap. Without `late`, `Tick` waits for CAPI to
ask for a settled update: the handlers answer with `retryAfterSeconds = 15` and
the timeout is twenty times that. `UpdateEnds` needs no more than that calls keep
coming. `UpdateCompletes` is conditional, and its run has `late` and failing
exchanges: it speaks of updates whose exchanges with the node fail finitely often
(`Obstructed`) and which CAPI leaves waiting finitely often (`Neglected`); `late_poll`
shows why. No condition is put on cleanups and restarts, but that restarts are
bounded. `ChangesLand` assumes that CAPI takes the next step of a rollout, which is
its reconcile loop, that from some time on the desired state stays, the hooks are
sent JSON and attempts to update are not interrupted, and nothing of what was
edited before. `AddressFound` assumes that CAPI calls again after a
failure, that Gets stop failing, and that handlers take their next step.

## Proofs

`InPlaceUpdate_proofs` proves, for all values of the constants (any number of
Machines, replicas, call slots and disruptions, any BootstrapConfigs, all faults):
`TypeCorrect`, `Identity`, `NoReboot` and `EntriesKept`.

The inductive invariant is `IInv == TypeOK /\ WorkIsSound /\ IdentityPreserved`.
`IdentityPreserved` is about nodes only and not inductive: a node takes the
config a call has held since it read the node, perhaps long ago. `WorkIsSound`, which
is part of the proof and no property of its own, says that every such config has the identity of the call's node, which merging
keeps because a patch names template fields only (`PatchedKeepsIdentity`, from
`ConfigAssumption`: template and identity fields are disjoint). Its other half
says that a copy of the ConfigMap that the API server would still accept is what
the ConfigMap holds, so a write changes one entry (`PutEntry`), which is what
`EntriesKept` needs. `NextInv` has one lemma per group of actions and one case
per action; `PlainReply`, `PlainAdvance` and `GotoInv` are the common shapes of a
step. The assumptions are those of the modules: disjoint fields,
`BootstrapConfig`s and configs of the right type, `Settle < Timeout`, and a
`None` that is neither a record nor a config, a patch or a BootstrapConfig.

### What completion means, for both formats

`Contract_proofs` assumes that CAPI is `Calm`: there is one replica, and CAPI
neither overlaps calls for a Machine, changes its mind during an update, nor
re-creates a Machine. `two_replicas` and `repeated_calls` show that the first two
cannot be dropped. Nor can the others: a desired state that changes after the apply
is completed by the flag of the one before, and so is the first update of a
re-created Machine.

The inductive invariant `Fits` ties three things together. A Machine has at most
one call in flight (`OneCall`). The call is for the update in progress and at
its step of it (`CallFits`): a config about to be applied has all the update asks
for, and so has the node from then until the state is stored. The applied flag is
true of the update in progress, and an idle Machine has no state (`MachineFits`).
`NoFalseSuccess` alone is not inductive: completion is decided from the flag, the
flag is set two exchanges after the apply, and in between another call could
have completed the update, were there one. `Frame` reduces a step of a call to
what it does to that call and its Machine.

`NextKeeps` proves that a step keeps `Fits` if the config it merges is what the
request asks for (`MergesRight`): that is all a format has to provide, and the
only place where the two differ. `FitsImplements` proves, from the same premises,
that `InPlaceUpdate` implements `UpdateContract`, with `Updating` and `Want` the
refinement mapping: `Roll` begins an update, a node that takes a config is
reconfigured (with the same identity, by `IInv`), completion that CAPI hears of
completes, and every other step stutters.

### Strategic patches

`StrategicFormat_proofs` assumes `StrategicOnly`: CAPI is calm and no
BootstrapConfig has a full config (CABPT's format, path C). Everything else is
allowed: restarts, abandoned and late calls, no `CanUpdateMachine` first, lost
replies, failing exchanges, any number of Machines. `MergesRight` is easy here,
since a config is made of the live one and the request: `StrategicSuccess`
(`NoFalseSuccess`), `StrategicFlag` (`AppliedIsTrue`) and `StrategicImplements`.

### Full configs

A full config is not applied as it is but as a difference to the one before, which
another hook computed and a replica keeps in memory, or which is computed again
from the ConfigMap. It is right only on the config it was computed from.
`FullFormat_proofs` says so in `Knows`: a node has the config before the update or
the one after it, the patches in memory lead from what it has to the one after,
and a call that is about to apply has exactly that one. `AllOrNothing` follows
(`KnowsAllOrNothing`), and so does `MergesRight`, as long as the update is `Safe`:
until the node has the config, the patches are in memory or the ConfigMap has what
they are computed from. Otherwise path C finds nothing to apply and answers
Success, as in `missing_patches`. `FullOnly` adds to `Calm` that every
BootstrapConfig has a full config, that strategic patches beside it ask for
nothing else, that CAPI asks with `CanUpdateMachine` first, and that it waits for
its calls. The last is needed because the context of an abandoned call is
cancelled: a Get that fails for that reason is taken for a ConfigMap without an
entry, and path C then completes the update with nothing applied. Strategic
patches, for which path C is right, need no such promise.

There are two ways to stay `Safe`, and they need different promises:

* *The memory is not lost* (`Contention_proofs`, `Undisturbed`): no restart, and no
  node that refuses the config, which path A would drop the patches for once the
  update has timed out. The ConfigMap may then do what it likes: any number of
  Machines, calls that refuse each other's writes, failing reads and writes,
  entries that are missing or of an earlier update. The invariant is `AllStored`: a claim stands on patches that are
  stored, they stay until the node has the config, and no state is recorded before
  that, so nothing times out. Theorems: `ContentionSuccess`, `ContentionFlag`,
  `ContentionAllOrNothing`, `ContentionImplements`.
* *The entry is there* (`Recovery_proofs`, `Recorded`): the writes before a claim and
  the reads of a recovery succeed, and no handler loses a race for the ConfigMap,
  because one Machine or one call is handled at a time. The memory may then be
  lost at any moment, nodes may refuse configs, updates may time out and start
  over, and cleanups may fail. The invariant is `AllCached`: from the claim on the
  entry is what the update started from, it is there until the node has the
  config, and a handler that is about to write has the latest copy. An idle Machine
  may have an entry, of whichever update it was, because the next claim replaces
  it. Theorems: `IdleClean` (`IdleIsClean`, about the memory), `EntriesRemoved` (no
  entry either, if cleanups succeed), `EntryCurrent` (`CacheIsCurrent`),
  `RecoveryAllOrNothing`, `RecoverySuccess`, `RecoveryFlag`, `RecoveryImplements`.

Neither can do without its promise: once the entry is missing, because its write
failed or lost a race, a restart (`restart_unpersisted`) or a timeout that drops
the patches leaves nothing to apply. The constants of the run `contention` satisfy `Undisturbed`, those of
`full_config` satisfy `Recorded`, those of `strategic_format` `StrategicOnly`: the
theorems speak about states that TLC visits. The invariants were checked with
TLC on these instances before they were proved.

### Rollout and look-up

`MachineRollout_proofs` proves `RolloutTypeCorrect`, `DecisionsExact`,
`NodesFollow` and `HooksAlike` for any objects, values and number of Machines. `RoundTrip` says
that a patch made from two objects turns the one into the other, and
`MarshalIsInjective` that leaving unset fields out loses nothing; so the
patched objects are the current ones with the claimed parts of the desired ones
(`ClaimedSpec`, `SpecCovered`, `RawCovered`), and the patches of either hook cover
a change exactly if it is `InPlaceable` (`AnswersExact`, `HooksExact`). That is
all `HooksAlike` needs but for a failure, which both hooks answer for the same
objects and which is no patch (`PatchesOrRefused`, `RefusedAssumption`). For the
others the inductive invariant adds that an
answer waiting for a decision is the hook's answer about `target` (`AnswerIsMeant`):
without it an answer could be about an edit that came later. `NodesFollow` rests on
`AppliedEffect`, what an attempt may do to a node, and `NothingHasNoPatches`, that
an attempt which skips a BootstrapConfig had no strategic patches to apply; a node
that is behind in infrastructure stays so through any number of claimed changes
(`ClaimableIsTransitive`). The assumptions are
`ClaimsAssumption`, `RawAssumption` (`Unset` is no value; the marks of missing
and unreadable bytes are not objects) and `RefusedAssumption`.

`NodeAddress_proofs` proves `LookupTypeCorrect`, `SteadyFound` and
`InDocumentedOrder`, for lists of any
length; a lookup that a failing Get ends is told apart from one that
found nothing. That a list with an
entry of a type has a first one is `FirstPosition`, from the well-founded order of
the naturals. The first invariant (`AInv`) says that what is steady during a lookup
still has its address, and that the Machine is not steady once it was read without
one. The second (`OrderInv`) says that a lookup goes on to a source because those
before it have no address; the property alone is about the end of a lookup and
says nothing of how it got there. `FindIPExact` says what an extraction returns in terms of positions,
and `FirstFoundIsFirst` that the first of the extractions is the address no other
one comes before.

### Model-checked only

Liveness (`UpdateEnds`, `UpdateCompletes`, `ChangesLand`, `AddressFound`), which
needs fairness, is out of the prover's reach. Every safety property, action
property and refinement that a passing run checks is also the statement of a
theorem, whose assumptions the constants of the run satisfy. For Machines with both formats
those are the theorems of `InPlaceUpdate_proofs` only. What the
violated runs show is TLC's alone.

## Not modelled

Timeouts of single exchanges are errors; the text of replies, logging and metrics
are left out. A Machine is deleted only while no call for it runs. `lookupNodeIP`
without a Kubernetes client is left out, since `main` always makes one. Lists,
which Talos merges by appending, are not modelled: the merging is not in this
repository. Nor is `sanitizeConfigMapKey`: a ConfigMap key is the Machine's.
The Talos client's other calls have no caller. Start-up is a straight line that
exits on the first error; the mock, the chart and the manifests have no behaviour
to check, and the CRD has no controller.

## Plan

Done: the core (`MachineConfig`, `InPlaceUpdate`, `UpdateContract`), the claims and
what CAPI makes of them, the look-up of addresses, re-created Machines, their runs,
and the proofs above, which state every safety property that the passing runs
check. Left:

1. `Contention_proofs` without `NoneRefused`: an update that a node refuses is safe
   as long as the entry of its Machine was written before it times out, so the
   invariants of the two proofs about full configs have to be joined.
2. A Machine whose BootstrapConfig goes from one format to the other:
   `MergesRight` holds for a call of either, but `Knows` speaks of full configs
   only, and a node with strategic patches on it is not `Has(m, b)` for any `b`.
