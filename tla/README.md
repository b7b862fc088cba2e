# TLA+ models of nf-deploy-controller

This directory holds TLA+ specifications of the NfDeploy controller
(`src/`). They are checked with TLC. The models cover the part of the
system with real concurrency and ordering problems: the per-deployment
graph that `deployment/Deployment.go` keeps, the status events that arrive
from the edge, and the aggregated status that `deployment/status.go`
computes and writes back to the NfDeploy resource.

## 1. Inventory of the system

| Part | Source | State it keeps | Operations that change state |
|---|---|---|---|
| NfDeploy reconciler | `controllers/nfdeploy_controller.go` | none in memory; the NfDeploy object (finalizer, `Status`) on the API server | `Reconcile`, `setInitialStatus`, `setHydrationSuccessStatus`, `setHydrationFailureStatus`, `setNfDeployStatus`, `manageNfDeployFinalizer`, `handleResourceDeletion` |
| Deployment graph | `deployment/Deployment.go` | `upfNodes`, `smfNodes`, `amfNodes`, `ausfNodes`, `udmNodes` (maps id → Node with `Connections` and `Status`), `edges` (slice), all guarded by `deploymentMu` | `ReportNFDeployEvent` (= `addOrUpdate*Node`, `createEdge`, `removeNFs`), `processEdgeEvent` |
| Per-NF status machine | `deployment/status.go` | a node's `NFStatus`: `state`, `activeConditions`, `lastEventTimestamp` | `calculateNFConditionSet`, `isAmbiguousConditionSet`, `validateNFConditionSet`, `updateCurrentNFStatus` |
| Status aggregation | `deployment/status.go` | none (pure over the node maps) | `calculateNFCount`, `compute{Stalled,Ready,Peering,Reconciling}Condition` |
| Status writer | `deployment/status.go` | the NfDeploy `Status` on the API server | `updateNFDeployStatus` (`RetryOnConflict`), `computeSingleNFDeployStatusConditionChange`, `updateSubscriptionFailureCondition` |
| Edge listener | `deployment/Deployment.go` | the goroutine's position; `edgeErrorChan`, `edgeEventsChan`, `ctx` | `ListenSubscriptionStatus`, `listenEdgeEvents` |
| Hydration | `hydration/hydration.go`, `hydration/nftypehydration/...`, `hydration/utils/...` | none in memory; the deploy and actuator packages in the package service (porch) | `Hydrate`, `processSite`, `CreateNFDeployActuators`, the per-NF-type `GenerateNfTypeDeploy` with its profile lookups |
| CRD reader | `crd-reader/...` | four maps (type and capacity profile of upf and smf, by name), filled once at start from the CRD directory | `ReadCRDFiles`, the four getters, `GetUPFIntent` / `GetSMFIntent` |
| Wiring | `main.go` | none | flag parsing, manager start-up, and the `os.Exit` of a failed gRPC server |

**How the parts interact.** `Reconcile` hydrates the NfDeploy and writes
the status *AwaitingApproval* (`setHydrationSuccessStatus`). It then starts
`go DeploymentManager.ReportNFDeployEvent(...)`. The deployment manager is
not under `src/`. It creates or updates one `Deployment` per NfDeploy. That
`Deployment` subscribes to the edge watcher. Its listener goroutine feeds
each edge event to `processEdgeEvent`. For a tracked NF whose timestamp
passes the guard, `processEdgeEvent` stores the timestamp, derives the NF's
new state and recomputes the deployment-wide counts and conditions. It
then writes them with `updateNFDeployStatus`. Two writers therefore share
the NfDeploy status: the reconciler and the listener.

**The hard behaviours in this code:**

* edge events that arrive out of order, twice, or with equal timestamps (the last is not modelled);
* package-service calls that fail part-way through a loop over clusters,
  with the reconcile requeued, while the user edits or deletes the
  NfDeploy;
* topology updates that run on unordered goroutines, interleaved with edge
  events (serialised by `deploymentMu`);
* an NF that changes type, a site that is removed, and an NF report that
  arrives for an NF that is no longer in the deployment;
* optimistic-concurrency writes with a bounded number of retries, and a
  write that finally fails;
* a closed event channel, and a subscription that never answers;
* a restart of the controller process (a panic, an `os.Exit`) between any
  two calls of a reconcile.

**Correctness properties per part** (as the spec and the code's comments
state them):

* *Graph.* After a topology update the tracked NFs are exactly the
  declared ones, each under its declared type. Reporting the same
  topology twice gives the same graph.
* *Per-NF machine.* A stale event (not after the last timestamp) never
  changes an NF. An ambiguous set is dropped with no change. Once every
  report has been delivered, an NF shows its newest report.
* *Aggregation.* The conditions mean what their reasons say: Ready is
  True iff every NF is Ready, Stalled iff some NF is, and "all un-peered
  NFs are peering" iff every NF is Ready or Peering. Every Ready NF is
  also Available.
* *Writer / listener / reconciler.* A write never loses another writer's
  newer status. The listener terminates when its context ends or its
  stream closes. After the last event the stored status eventually
  reflects the graph.

## 2. Modules

| Module | Models | Kind |
|---|---|---|
| `NFStatus` | the per-NF status machine of `status.go` (lines 31-100, 401-518) | pure operators |
| `Aggregate` | `calculateNFCount` and the four `compute*Condition` functions (`status.go` 102-399) | pure operators |
| `Deployment` | one `Deployment`: graph, `ReportNFDeployEvent`, `processEdgeEvent` / `processNFEdgeEvent`, and the status write as success-or-failure | state machine; EXTENDS `NFStatus` and `Aggregate` |
| `StatusWriter` | the NfDeploy status as a versioned object, with its two writers: `updateNFDeployStatus` / `updateSubscriptionFailureCondition` (listener) and `setNfDeployStatus` through `Reconcile` (reconciler) | state machine of two processes |
| `StatusPromise` | abstract: what a deployment promises about each NF's status (tracked set, status adopted only from strictly newer unambiguous reports) | abstract specification; `Deployment` refines it |
| `Hydration` | the package side of `Reconcile`: the finalizer, `handleResourceDeletion`, `Hydrate` and `CreateNFDeployActuators` against the package service, with the user's edits and deletion | state machine, with fairness |
| `CRDSet` | the CRD reader: `ReadCRDFiles` over the file list of a successful walk, the getters, and `GetUPFIntent` / `GetSMFIntent` | pure operators |
| `Profiles` | what each NF type's `GenerateNfTypeDeploy` makes of the profiles it looks up (`nftypehydration/*deploy.go`, `utils/commonprofiles.go`, `utils/adapters.go`) | pure operators over a constant profile repository |
| `Handoff` | `Reconcile` handing each generation's topology to `Deployment` through `go ReportNFDeployEvent`, with the user's edits | composition; EXTENDS `Deployment` |
| `Listener` | the listener goroutine: `ListenSubscriptionStatus` and `listenEdgeEvents` over the two unbuffered channels and the deployment's ctx | state machine, with fairness |
| `MCDeployment`, `MCStatusWriter`, `MCListener`, `MCHydration`, `MCHandoff` | the constants TLC uses | MC modules |

### Deployment: state and actions

| Variable | Code |
|---|---|
| `nodes[p][id]` (p ∈ upf, smf, ausf, udm) | `upfNodes` … `udmNodes`: `conns` = `Connections`, `status` = `Status.state` / `activeConditions`, `ts` = `lastEventTimestamp`, `intent` = `Spec.throughput` / `Spec.maxSessions` |
| `edges` | `deployment.edges`, as a sequence of `<<FirstNode, SecondNode>>` |
| `spec` | the `Spec.Sites` last handed to `ReportNFDeployEvent` |
| `pending` | events the edge watcher has sent and not yet delivered |
| `clock` | the latest timestamp put on an NF report |
| `stored` | the NfDeploy status on the API server: the four counts and four conditions |
| `emitted` | history only: the reports sent to each node since it was (re)created |

| Action | Code |
|---|---|
| `ReportNFDeployEvent(t)` | `ReportNFDeployEvent`: the upsert loop, the `createEdge` loop and `removeNFs`, all under `deploymentMu`, so one step |
| `NFReport(site, r)` | environment: an NF of the declared topology publishes a status |
| `DropUntracked(e)` | `processEdgeEvent`, the NF is not in its partition's map |
| `DropStale(e)` | `processEdgeEvent`, `Timestamp.Before(lastEventTimestamp)` |
| `DropAmbiguous(e)` | `processEdgeEvent` stores the timestamp, then `processNFEdgeEvent` returns on an ambiguous set |
| `ApplyEvent(e)` | the rest of `processNFEdgeEvent`: `updateCurrentNFStatus`, the counts, the conditions, `updateNFDeployStatus`, which may fail (then `stored` is unchanged) |

Every delivery (`Deliver`) may leave the event in `pending`, so that it can
be delivered again. Because `pending` is a set, any delivery order is
possible.

**Abstractions.** A condition message is a tag ("Reported" for the NF's
own message, or the name of the fixed text). A message that lists NF ids
is the *set* of ids: the Go text follows map iteration order. The amf
partition is left out, because `ReportNFDeployEvent` has its AMF case
commented out and `amfNodes` is never filled. A node's spec is kept as
its `intent`: the throughput (upf) or maxSessions (smf) its site's
`NFTypeName` resolves to in the CRD set, or the zero value. The cluster
name, set when a node is created and never read, is left out.
Condition timestamps are modelled in `StatusWriter`, not here.

### Refinement of StatusPromise

`StatusPromise` keeps only `view`, the status and timestamp of each
tracked NF, and `now`. It has three actions:
* `Tick`: time passes;
* `Retrack`: the tracked set changes, and a retained NF keeps its status
  while a new one starts at the zero status;
* `Adopt`: an NF takes the status derived from an unambiguous report
  whose timestamp is strictly later than its own.

`Deployment` defines the mapping `View` from its node maps, maps `now` to
`clock`, and instantiates `Promise == INSTANCE StatusPromise WITH ...`.
The property `StatusPromiseHolds == Promise!Spec` is checked by TLC. Under
this mapping:
* `ReportNFDeployEvent` is a `Retrack`;
* a newer report applied by `ApplyEvent` is an `Adopt`;
* drops and re-deliveries of the same event are stuttering steps.

An ambiguous event advances the timestamp with no status change. That is
not a `StatusPromise` step; the `ambiguous_advances_timestamp` run shows it
in a more direct form. Every report in the model carries a timestamp later
than all reports before it, so the equal-timestamp case of the `Before`
guard does not arise (see the hazards in `PROJECT.json`).

### StatusWriter: state and actions

`obj` is the NfDeploy as the API server holds it. Its fields are
`rv` (resourceVersion), `gen` (generation), `observed`
(ObservedGeneration), the four counts, and `conds`, a function from the
condition types present to `[status, reason, ltt, lut]`. The reason stands
for reason and message, which the code always compares together. `now` is
the clock that `time.Now()` reads. Every Get advances it, so each attempt
stamps with a new time.

| Action | Code |
|---|---|
| `LStart(in)` | `processNFEdgeEvent` (or `updateSubscriptionFailureCondition`, whose conditions come pre-stamped) calls `updateNFDeployStatus` |
| `LGet` | one attempt of the `RetryOnConflict` closure: `statusReader.Get`, then `computeSingleNFDeployStatusConditionChange` for each of the four conditions, applied to the caller's structs |
| `LUpdateOk` / `LConflict` | `statusWriter.Update`: succeeds if `rv` has not moved since the Get; else retried until `DefaultRetry.Steps` (5) attempts are used |
| `CReconcile` | `Reconcile`: reads the generation, adds the finalizer once (an Update of the object), starts `setInitialStatus` |
| `CGet` | one attempt of `setNfDeployStatus`: Get, and the loop that stamps `condMap` |
| `CUpdateOk` / `CConflict` | `Status().Update`; after `setInitialStatus` hydration succeeds or fails and the matching status follows; an error requeues the reconcile, and a request an edit queued during it stays queued |
| `UserEdit` | a spec edit: a new generation, which triggers a reconcile (`GenerationChangedPredicate`) |

The listener's conditions and the reconciler's `condMap` are variables
(`lcur`, `cmap`) that outlive an attempt, as the Go pointers and map do.
So a retry starts from what the previous attempt stamped.
`manageNfDeployFinalizer` is one step: its own Get/Update retry loop ends
in the same single version bump.

### Hydration: state and actions

`obj` is the NfDeploy on the API server (`gen`, `sites`, `finalizer`,
`deleting`), and `exists` says it has not been removed. The package
service is `pkgs`, the clusters holding this NfDeploy's deploy package
(one per cluster, named by `NewNamingContext(cluster, name)`), and `acts`,
the actuator packages per cluster and NF type, shared by all NfDeploys.
`pc`, `cp` and `cgen` are the reconciler's position and the copy of the
object it read at the top of `Reconcile`. `status` and `observed` are the
reason of the Reconciling condition and the ObservedGeneration last
written. `restarts` counts restarts of the controller process. A site is
`[cluster, type]`; vendor and version are fixed.

| Action | Code |
|---|---|
| `CStart` | `Reconcile`: `r.Get`; NotFound ends the request, otherwise the object is copied |
| `CFinGone` | `manageNfDeployFinalizer`'s Get finds the object gone: error, requeue |
| `CAddFinalizer` | `manageNfDeployFinalizer`, not deleting: `AddFinalizer` and `Update`; then `setInitialStatus` |
| `CDeleteOk` | deleting: `handleResourceDeletion` deletes the package of every cluster of the fresh object, `RemoveFinalizer`, and the API server removes the object |
| `CDeleteFail` | `DeleteDeployPackage` fails for a cluster after the ones before it (map order): error, requeue, finalizer kept |
| `CHydrateOk` | `Hydrate`: `processSite` succeeds for every site, `CreateDeployPackage` for every cluster |
| `CHydrateFail` | `Hydrate` fails: some `processSite` fails (no package written), or `CreateDeployPackage` fails part-way; `setHydrationFailureStatus`, requeue |
| `CActuateOk` | `CreateNFDeployActuators` creates or finds every actuator package; `setHydrationSuccessStatus` (AwaitingApproval) |
| `CHydratePanic` | `processSite` panics in `GetInterfaceProfile` (nothing recovers it): the process restarts |
| `CActuateFail` | `CreateNFDeployActuators` fails part-way; `setHydrationFailureStatus`, requeue |
| `Restart` | the process exits and restarts: the reconcile in progress and the queue are lost, and the informer's re-list queues the NfDeploy if it exists |
| `UserEdit(s)` | a spec edit: new generation, a reconcile request |
| `UserDelete` | deletion: marked if the finalizer is there, removed at once otherwise |

`processSite` fails for an NF type without a hydration (the `default` case;
"amf" in the model). For the other types `Profiles` says what
`GenerateNfTypeDeploy` makes of the cluster's profile repository (the
constant `Repo`): every lookup may fail in the package service, and success
needs the checks of that type to pass ("exactly one" type and capacity
profile, at most one BGP config and vendor extension, every interface
config ID the type document names). `GetInterfaceProfile` reads
`cpMap[id][0]` unchecked: for a profile name the repository lacks, the
site either fails or panics, depending on whether the package service
leaves the id out or answers an empty list (not in `src/`). The manifests
are not modelled: nothing in the controller reads them back. A failing loop over clusters or keys leaves any proper subset
of them done (`FailedPart`), as Go's map order is random. Status writes
succeed here; their conflicts and retries are `StatusWriter`'s subject.

**Fairness.** `controller-runtime` runs a queued request and requeues one
that returned an error, so each reconciler step is weakly fair. For the
deletion or the hydration to complete the package service must not fail
forever: the successful deletion, hydration and actuation are strongly
fair (each is enabled again on every retry). Restarts and panics are not
fair: the model bounds restarts by `MaxRestarts`.

### Handoff: the reconciler and the Deployment

`Handoff` EXTENDS `Deployment` and adds the NfDeploy's `declared` sites and
`gen`, the generation `handled` by the last reconcile, and the `inflight`
goroutines, each a generation and the topology it carries. `Reconcile` is
one step: it takes the queued request and starts a goroutine with the copy
it read; an edit after the read queues another request, which is the same
as the edit coming after the step. `RunReport(g)` is a goroutine taking
`deploymentMu` and doing `ReportNFDeployEvent`; `DeploymentStep` is any
of `Deployment`'s event steps. Hydration failures only delay a reconcile
here (`Hydration` models them).


### Listener: state and actions

`pc` is the goroutine's position:
* `sub`: the receive on `edgeErrorChan`;
* `loop`: the `for`/`select` of `listenEdgeEvents`;
* `done`: returned.

`sig` is what the edge watcher put on `edgeErrorChan` (nothing yet, nil,
an error, or closed). `offered` is a pending unbuffered send on
`edgeEventsChan`, and `evClosed` says that channel is closed. `ctxDone`
is the cancellation of the deployment's context. The environment actions
are `Signal`, `Offer` and `CloseStream` (the watcher) and `Cancel`
(`cancelCtx`, called by the deployment manager).

| Action | Code |
|---|---|
| `SubReceive` | `ListenSubscriptionStatus`: nil → `listenEdgeEvents`; error or closed → `updateSubscriptionFailureCondition("EdgeConnectionFailure")`, return |
| `LoopCancelled` | `case <-ctx.Done(): return` |
| `LoopEvent` | `case object, ok := <-edgeEventsChan` with `ok`: `processEdgeEvent` |
| `LoopClosed` | the same case with `!ok`: `updateSubscriptionFailureCondition("EdgeConnectionBroken")`, and the loop goes round again |

**Fairness.** Each listener action is weakly fair. The goroutine is
runnable whenever a case is ready. Go's `select` picks uniformly among the
ready cases, so a case that stays ready is eventually taken. The watcher
gets no fairness in `Spec`. `AnsweredSpec` adds weak fairness of
`Signal`: the watcher eventually answers the subscription. That is an
assumption about the collaborator, made explicit by having two
specifications.

## 3. Runs

The `Deployment` runs use the ids `{u, s}`. That is the smallest set that
has an edge, a removable site and a re-typed site.

| Run | cfg | Expect | What it shows |
|---|---|---|---|
| `deployment_events` | `MCDeployment_events.cfg` | pass | `TypeOK`, `NewestReportWins`, `NodeSetMatchesSpec`, `EdgesJoinTrackedNodes`, `StatusPromiseHolds` |
| `deployment_aggregate` | `MCDeployment_aggregate.cfg` | pass | `AggregateAgreesWithGraph`, `StoredCountsCoherent`, `IntentMatchesDeclaredType`, `IntentKeptOnFailedLookup` |
| `ambiguous_advances_timestamp` | `MCDeployment_ambiguous.cfg` | violation | `NewestReportWins` |
| `reissue_after_type_change` | `MCDeployment_reissue.cfg` | violation | `ReissueIsIdempotent` |
| `status_writers` | `MCStatusWriter.cfg` | pass | `TypeOK`, `NoLostUpdate` |
| `listener_equal_condition_timestamps` | `MCStatusWriter_listener_stamps.cfg` | violation | `ConditionTimestampsFollowChanges` |
| `listener` | `MCListener.cfg` | pass | `TypeOK`, `FailureIsTerminal`, `ListenerStopsOnCancel` |
| `listener_blocks_on_subscription` | `MCListener_subscription.cfg` | violation | `ListenerStopsOnCancel` |
| `listener_loops_on_closed_stream` | `MCListener_closed.cfg` | violation | `ListenerStopsOnClose` |
| `hydration` | `MCHydration.cfg` | pass | `TypeOK`, `PackagesProtectedByFinalizer`, `SuccessStatusTruthful`, `DeletionCompletes`, `HydrationCompletes` |
| `hydration_orphan_packages` | `MCHydration_orphans.cfg` | violation | `NoOrphanPackages` |
| `handoff_older_topology_last` | `MCHandoff.cfg` | violation | `GraphTracksLatestGeneration` |

* **deployment_events.** Topologies: upf u ↔ smf s; s alone; u re-typed
  to smf. Reports: three unambiguous reports with different outcomes
  (Reconciling, Ready, and the "neither available nor reconciling" Stalled).
  Timestamps go up to 2, each report later than all before it, so an NF's
  two reports can arrive reversed or twice, across a removal or a
  re-typing of its site. `NewestReportWins`: once nothing is pending,
  every NF shows the status derived from its newest unambiguous report.
  `NodeSetMatchesSpec`: each partition holds exactly the declared ids of
  that type. `EdgesJoinTrackedNodes`: every stored edge joins two tracked
  NFs and is listed in the `Connections` of each end; `removeNFs` finds
  the edges to delete only through `Connections`, so an edge missing
  there would outlive its NF. `StatusPromiseHolds` is the refinement of
  `StatusPromise`. About 11k distinct states in 10 s; with timestamps up
  to 3 the refinement check alone takes over four minutes.
* **deployment_aggregate.** Topologies: upf u ↔ smf s; s alone; s
  re-typed to ausf. Reports: Ready alone, Peering alone, the two
  inconsistent sets Ready+Reconciling and Ready+Stalled, Stalled with
  Reconciling, and an all-Unknown (ambiguous) set. Together they reach every
  branch of `validateNFConditionSet` and `updateCurrentNFStatus` and the
  ambiguity guard. `AggregateAgreesWithGraph` compares each count-based
  condition with its set meaning. `StoredCountsCoherent` says the stored
  counts never claim more Ready NFs than Available, or more Ready+Stalled
  than targeted. This holds even though writes may fail and leave an old
  snapshot. A fourth topology keeps u and s but changes u's `NFTypeName`
  to t2 and s's to t3, which the CRD directory lacks. The directory holds
  t1 and t2 and their capacity profiles, with a second, later file for the
  profile p2. `IntentMatchesDeclaredType`: every upf and smf node carries
  the intent its declared `NFTypeName` resolves to, which needs the lookup
  on every update and not only when the node is created.
  `IntentKeptOnFailedLookup`: an update that declares a tracked node under
  a name the set cannot resolve (s under t3) leaves its intent as it was,
  as spec 4.1 asks. `TypeOK` of `Deployment` is checked by
  `deployment_events` only. About 93k distinct states in 45 s.
* **The two `Deployment` violation runs** each check one property that the spec
  states and the code breaks (see the findings in `PROJECT.json`):
  * an ambiguous event still advances the NF's timestamp, so a later-delivered
    older valid report is lost;
  * a re-typed NF loses its declared edge, and re-issuing the same topology
    changes the graph.

* **status_writers.** The listener makes two writes, each with one of
  two aggregates or the subscription-failure status. The reconciler makes
  two reconciles with a finalizer Update and a spec edit. That gives up to
  six version bumps, enough for the listener to meet five conflicts and
  exhaust the real retry policy (`RetrySteps = 5`; TLC reaches that
  state). `NoLostUpdate`: the counts on the server are always those of the
  listener's last successful write, even though the reconciler rewrites
  the status in between. That needs both the resourceVersion check and
  `setNfDeployStatus` carrying the counts over from its Get. About 1.2M
  distinct states, 25 s. `CHECK_DEADLOCK FALSE`: once the bounded edits
  and events are used up, both writers wait, as the controller does when
  nothing changes.
* **Timestamp runs.** `ConditionTimestampsFollowChanges` states the spec's
  rules (4.4) for every condition that a status write changes:
  * an absent condition gets both timestamps;
  * an unchanged status keeps LastTransitionTime;
  * an unchanged status, reason and message keep LastUpdateTime;
  * a changed status gets a newer LastTransitionTime.

  With only the listener writing, two edge events that leave Stalled
  unchanged erase its timestamps. The equal case at `status.go:553` only
  reassigns a local pointer. The reconciler's writes break the rule too
  (its first write stores zero timestamps), but that is no longer a run:
  the run was given up for the hand-off run below.

* **Listener runs.** The watcher may give every subscription outcome,
  send up to 6 events, and close the stream. Each failure status write is
  counted, up to 3; that is enough to see the closed-stream branch repeat.
  * Under `AnsweredSpec`, `ListenerStopsOnCancel` holds: a cancel always
    ends the goroutine, even while the closed-stream branch is spinning,
    because the `ctx.Done()` case stays ready. `FailureIsTerminal` holds
    too: after a failure status no event is processed.
  * Under `Spec`, the watcher may never answer. `ListenerStopsOnCancel`
    then fails: `ListenSubscriptionStatus` waits on `edgeErrorChan` without
    watching the context.
  * Under `AnsweredSpec` with a closed stream, `ListenerStopsOnClose`
    fails: `listenEdgeEvents` writes EdgeConnectionBroken and goes round
    again instead of returning.

  `CHECK_DEADLOCK FALSE`: the goroutine really returns, and the watcher
  really stops after its bounded events.

* **Hydration runs.** Two clusters and four specs: upf on c1 and smf on
  c2; ausf on c1 alone; udm on c1 and amf on c2, which has no hydration;
  smf on c1 alone. Up to three generations, so the user can shrink the
  cluster set after a partial failure, and edit or delete between any two
  reconciler steps. Each cluster's repository holds exactly one of every
  type and capacity profile, no BGP config or vendor extension, and the
  interface config the type documents name; c2 holds the smf interface
  profile "n4" and c1 does not, so an smf site on c1 can only fail or
  panic. One restart. 15679 distinct states, 7 s. `PackagesProtectedByFinalizer`: no
  package exists for a live NfDeploy without its finalizer.
  `SuccessStatusTruthful`: AwaitingApproval for the current generation
  means every deploy and actuator package of it was written.
  `DeletionCompletes`: a deleting NfDeploy is eventually removed.
  `HydrationCompletes`: a live NfDeploy whose every site can hydrate
  eventually shows AwaitingApproval for its current generation, unless it
  is edited or deleted first; it needs the requeue after every failure,
  the panic and the restart to re-queue the object.
  `NoOrphanPackages` fails in 8 steps: `Hydrate` writes c2's package and
  fails on c1; the user drops c2 and deletes; `handleResourceDeletion`
  deletes the packages of the current sites only, and c2's package
  remains after the NfDeploy is gone. `CHECK_DEADLOCK FALSE`: once the
  object is removed nothing is queued, and the controller really stops.
* **handoff_older_topology_last.** Topologies: upf u ↔ smf s; s alone;
  u re-typed to smf; two reports; three generations. `GraphTracksLatestGeneration`
  fails in 6 states: generation 1 is reconciled, the user edits,
  generation 2 is reconciled, generation 2's goroutine applies its
  topology, and then generation 1's goroutine applies the older one. The
  NfDeploy is reconciled and no goroutine is left, yet the graph tracks
  the NFs of the old spec, and stays so until the next edit.

**Mutants.** Each property of the passing runs is shown to be
discriminating. It is violated when a mapped definition is replaced by a
plausible bug:

* the stale guard dropped;
* removeNFs checking only the id;
* the message slot filled with the status;
* validateNFConditionSet without its last check;
* Ready without the implied Available;
* one retry more than the policy allows;
* setNfDeployStatus building a fresh status without the counts;
* listenEdgeEvents without its `if ok` test;
* the ctx.Done() case without its return;
* removeNFs deleting nodes but not their edges;
* the finalizer added but not saved;
* the actuator results taken as success without checking;
* a deletion error returned without a requeue;
* the failure status written with another reason;
* an error swallowed without a requeue;
* the intent resolved only for a node that is created;
* a failed intent lookup resetting the node's spec.

**Fairness.** `Deployment`, `StatusWriter` and `Handoff` are checked for safety only
(`[][Next]_vars`). `Listener` and `Hydration` have the fairness described above. For
`Deployment` deadlock checking is on: a topology can always be re-issued.

## 4. Plan

Done: `NFStatus`, `Aggregate`, `Deployment` with its refinement of
`StatusPromise` and its graph consistency, `StatusWriter`, `Listener`, the
package side of the reconciler (`Hydration`) with the profile checks
(`Profiles`) and process restarts, and the hand-off of topologies from the
reconciler to the Deployment (`Handoff`), and the CRD reader with the
nodes' intents (`CRDSet`). The project has 12 runs. Further
questions should become properties of the existing runs, or replace a
run, rather than adding new runs.

Left, in order of importance:

1. **Status after a reconcile.** The status that `Reconcile` writes is
   only replaced by the next edge event (`Deployment.go:331`). Composing
   the reconciler of `StatusWriter` with `Handoff` would ask whether the
   stored status eventually reflects the graph.
2. **Panic crash loop.** An smf site whose interface profile is missing
   may panic in `GetInterfaceProfile` on every retry
   (`commonprofiles.go:108`); no failure status is ever written. A
   property that a site that cannot hydrate eventually gets a failure
   status would be a violation run.
3. **NFStatus over all reports.** A constant-level check of
   `updateCurrentNFStatus` over all 3^5 complete condition sets against a
   reference table written from the spec's 4.2, as an invariant of
   `deployment_aggregate`.
4. **Actuator names.** `CreateNFDeployActuators` loses the names of the
   packages created before a failure (`hydration.go:144`), so they are not
   proposed for approval. `Hydration` would need the approval step and the
   list of names.
5. **Equal timestamps.** Two reports with the same timestamp
   (`Deployment.go:452`); the model gives every report a fresh timestamp.
6. **Controller condition timestamps.** The reconciler's zero timestamps,
   once a run, now stand only in this README.

## 5. Not modelled

* The manifests that hydration renders (the field copying of the
  `nftypehydration` builders, the YAML): `Profiles` keeps only what
  decides whether a site succeeds, fails or panics. The directory walk
  and YAML parsing of the CRD reader are I/O (a failure exits the process
  before anything else runs; `CRDSet` starts from the file list), and the
  flag parsing of `main.go` is start-up; of `main.go` only the restart is
  modelled.
* The approval of actuator packages, and the listed package names.
* The deployment manager (`NewDeploymentManager`,
  `ReportNFDeployDeleteEvent`) and `Edge.IsEqual` are not under `src/`.
  `IsEqual` is modelled from the spec.
* Condition timestamps in `Deployment` (they are modelled in `StatusWriter`), and the ordering of ids in messages (see above).
