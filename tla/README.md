# A TLA+ specification of podmon (CSM for Resiliency)

podmon runs as a sidecar of the Dell CSI drivers. When a Kubernetes node fails or
loses its storage array, the **controller podmon** fences the node from the
volumes of the labelled pods on it and force-deletes those pods, so that they
can start elsewhere; when the node comes back, the **node podmon** on it removes
what those pods left mounted and only then lets pods be scheduled there again.
A mistake on either side corrupts data: two nodes write to one volume, or a
stale mount is used by a new pod. These modules describe that protocol as the Go
code implements it, check it with TLC on small instances and prove the core of
it with TLAPS for all instances.

All paths below are relative to the repository.

## 1. Inventory

| Component | State | Operations | Threads, interactions |
|---|---|---|---|
| Controller pod handler (`internal/monitor/controller.go` 56-181, `monitor.go` 175-263) | `PodKeyToControllerPodInfo`, `PodKeyToCrashLoopBackOffCount`, `PodKeyMap` (locks) | `controllerModePodHandler`, `Watch`, `StartPodMonitor` | one watch thread; spawns a cleanup goroutine per event of a failed pod |
| Controller cleanup (`controller.go` 211-442) | its arguments: a pod, a *copy* of a node, two taint flags | `controllerCleanupPod`: lock, UID check, volumes, attachments, `ValidateVolumeHostConnectivity`, `ControllerUnpublishVolume`, taint, delete attachments, force delete | any number of goroutines, and the array monitor's thread |
| Array connectivity monitor (`controller.go` 444-604) | `connectivityCache` (samples, loss counts), `NodeNameToUID` | `ArrayConnectivityMonitor`, `CheckConnectivity`, `ProcessPodInfoForCleanup` | a polling thread; reads what both watches write |
| Driver-pod handler (`controller.go` 719-770) | none | `controllerModeDriverPodHandler` | a second pod watch |
| Node taints (`internal/k8sapi/k8sapi.go` 383-491) | the node's list of taints, in the API server | `TaintNode`, `updateTaint` | called by all of the above, by the node podmon, and beside the node lifecycle controller |
| Node API monitor (`internal/monitor/node.go` 51-132, 282-404) | `taintCount`, `APIConnected` | `apiMonitorLoop`, `nodeModeCleanupPods`, `nodeModeCleanupPod` | a polling thread |
| Node pod handler (`node.go` 134-258) | `PodKeyMap` (here: the recorded pods and their mounts) | `nodeModePodHandler` | the watch thread of the node podmon |
| Node clean up of one pod (`node.go` 406-559, `driver.go`, `tools/`) | targets, staging directories, private targets, loop-back devices of the node | `nodeModeCleanupPod`, `callNodeUnpublishVolume`, `callNodeUnstageVolume`, the `Driver` of each array, `GetLoopBackDevice` | the API monitor's thread, while kubelet and the driver tear the pod down too |
| Node watch (`monitor.go` 265-333) | `NodeNameToUID` | `nodeMonitorHandler`, `StartNodeMonitor` | a watch thread of the controller podmon |
| Configuration (`cmd/podmon/main.go` 93-140, 276-423) | poll rate, loss threshold, skip flag | `setupDynamicConfigUpdate`, `updateConfiguration` | `main` and viper's thread |
| Kubernetes client (`k8sapi.go`) | `volumeAttachmentCache`, `volumeAttachmentNameToKey` | `GetCachedVolumeAttachment`, `DeleteVolumeAttachment`, getters, `DeletePod` | shared by all threads, the two maps under a mutex |
| CSI, CRI clients | a connection | one call each | - |

What is hard here: the pod key identifies a *name*, while pods of that name come
and go (incarnations, told apart by UID); the threads share tables of old copies;
watch events are late, and lost with the watch; every call fails or succeeds
without saying so; several writers replace the node's taints as a whole; nothing
is persistent, so a restart forgets all of it. `PROJECT.json` lists the hazards
line by line.

What makes each part correct:

- handler and cleanup: one thread at a time per pod key and no key kept; fencing
  before the force delete, on the node the pod really runs on, so that a volume
  never has two writers; no record of a dead pod, and a record of every Ready one;
- VolumeAttachment cache: what podmon has deleted does not come back, and a
  cleanup goes on only with the attachment it is about deleted;
- array monitor: a loss is declared after so many passes and not earlier, and a
  loss that lasts is acted upon; the node UIDs are right in the end;
- taints: a call changes the taint it names, and the driver-pod taint follows
  the driver pod;
- node podmon: nothing of a living pod is cleaned up, the taint goes only when
  everything is clean, and it does go; a clean up that reports success has left
  nothing, and one that failed half way can be repeated;
- configuration: what runs is what the file asks for.

## 2. Modules

| Module | Models |
|---|---|
| `Controller` | controller pod handler, cleanup, and the array monitor's cleanups; losses of the watch, restarts |
| `Takeover` | abstractly, what a cleanup of the controller podmon promises |
| `ControllerProofs` | theorems about `Controller` |
| `TakeoverProofs` | `SingleWriter`, and that `Controller` implements `Takeover` |
| `MCController` | instances of `Controller` for TLC |
| `VACache` | the cache of VolumeAttachments as concurrent cleanups use it |
| `NodePodmon`, `MCNodePodmon` | the node podmon on one node, with kubelet, the controller podmon, an API server that gets lost and restarts |
| `VolumeCleanup` | `nodeModeCleanupPod` call by call, with each of the five drivers |
| `ArrayConnectivity`, `MCArrayConnectivity` | the array monitor's passes, its cache, the node UIDs and the node watch |
| `NodeTaints` | `TaintNode` as read, compute, patch; its callers; the driver-pod handler |
| `DynamicConfig` | `main`'s configuration and viper's thread |
| `VACacheProofs`, `NodePodmonProofs`, `VolumeCleanupProofs`, `ArrayConnectivityProofs`, `NodeTaintsProofs`, `DynamicConfigProofs` | the theorems about each of these |

An action is a stretch of one thread between two calls that others can
interleave with. The names of variables and actions follow the code; `map` in
`PROJECT.json` gives the lines of each. Definitions called "Mutant of ..." are
plausible mistakes used to test the properties; no specification uses them.

### Controller

`h` is the watch thread: `TakeEvent` (a Deleted event forgets the pod without the
lock, lines 69-73), `HandlerLock`, `HandlerGetPod`, `HandlerGetNode` (the rest of
the handler, lines 85-161), `HandlerCrashDelete` (the CrashLoopBackOff branch, its
call in between the look at the counter and the increment). `job[t]` is a run of
`controllerCleanupPod`, one action per remote call, each with its early return;
`Return` gives the key back as the deferred `Unlock` does. `pass` is the array
monitor's present pass; its verdicts are arbitrary in this module, so that the
cleanups it starts may come at any time. `Disconnect`, `Reconnect` and `Restart`
are the loss of the watch, the new list of Added events, and a new process.

The cluster around it creates, binds, reports and removes pods, attaches and
detaches volumes, taints and annotates nodes. A volume is `published` while the
array exports it to a node. A CSI node ID names its node; whether the copy of the
node *has* one is kept (`csi`), because that decides between the recorded and the
current node (line 157) and makes fencing fail. `CSIApi.Connected()` is TRUE:
`NewCSIClient` returns only with a connection, and `main` starts the watches
after it. `reattached` records what the attach/detach controller attached again
after the fencing, which podmon cannot prevent.

### Takeover

A takeover of a pod key by a thread: `Begin` (one at a time per key), `Fence` (cut
every volume of the pod off from the node), `Taint`, `ForceDelete` (only of the pod
the takeover began with), `End` at any point, and `Crash`. The rest of the cluster
may change pods, exports and taints as it likes. `Promise` in `Controller` is
`Takeover` under the mapping of `Abstract`: a job past `JobLock` is a takeover, its
stage follows from its program counter, and `published` and podmon's taints are the
exports and the tainted nodes. A job that waits for the key, or has found the UID
changed, is none.

### VACache

`call[t]` is a cleanup of one volume on one node: `Lookup` (a hit, or the mutex is
kept), `List` and `Rebuild` under the mutex with the API server's answer under way
in between, `Delete` without it, `Purge` under it again, once more after an error.
A key is `pvName/nodeName`; Kubernetes computes the name of an attachment from just
these, so names are not kept apart. Attachments are numbered as they are made, so
that an attachment made anew under the same name is told from its predecessor. Its
`Attach`, `Mark` and `Detach` are Kubernetes'. In `Controller`, lookup and deletion
of an attachment are one step each on the API server itself; `AttachmentDeleted` is
what justifies that.

### NodePodmon

`h` is the watch thread: `HandlePod` scans the directories, `StoreEntry` stores
the entry if it has no fewer mounts than the one found before the scan,
`HandleDeleted` drops it unless the node is tainted. The read of a single PV may fail
in a scan (`ScanFaults`). `m` is a run of
`nodeModeCleanupPods`: `LoopIterate` counts iterations and starts it with the
containers CRI lists at that moment, `ScanPod` and `RecheckPod` are the two looks
at each pod, `CleanPod`, `CleanDone`, `Untaint` the rest. Calls that fail while
the API server is up are drawn from a budget (`MaxFaults`); while it is down all
of them fail. `LinkDown` comes at any time; of the undelivered events the first few
have reached podmon already and are handled during the outage, with no PV to be
read, and the rest are lost. `LinkUp` brings the list of the node's pods. Every
`ControllerTaint` is the taint of one cleanup of the controller podmon, which its
`ControllerDelete` follows; `MaxTaints` bounds them. The count of iterations has no
bound in the code (`node.go` 113); the model stops it at `TaintCountDelay`, where
it makes no further difference. `Restart` is a new process: what was recorded, the count of iterations
and a clean up under way are gone, the taint and the mounts are not.

`due` in `m` is a history variable: the mounts recorded, when the pass began, for
pods the controller podmon had force-deleted (`Due`). It leaves out a recorded pod of
which a newer incarnation has come to the node (`Superseded`), because the code keeps
one entry per name, and is emptied when an operator removes the taint, which ends
what the pass owes.

### VolumeCleanup

`c` is a run of `nodeModeCleanupPod` over the recorded volumes, mounts first:
`Unpublish`, `Unstage` of the two staging directories, `RemovePrivate`,
`FinalCleanup`, `End`; `Begin` again if it failed, as the next pass does. `driver` is
one of five records made of `driver.go`: which directories there are, where the
private target is, whether an error for a missing NFS share is excluded, whether
there is a final clean up. `Fails` is the retry of calls whose error ends in
"pending". `Kubelet` and `KubeletLoop` take things down at the same time. `MaxFaults`
bounds the calls that fail; a failed call may have taken effect.

### ArrayConnectivity

`StartPass`, `CheckConnectivity` per pod (`CheckCached`, `CheckPolled`),
`TaintNodes`, `CleanPods` per pod or affinity group, `EndPass`. `NodeEvent` is
`nodeMonitorHandler`; `GetNode` and `TrackPod` are the part of the pod handler
that reads a node and later writes its UID. A cleanup is one step here; its own
steps are in `Controller`. What keeps the monitor from a pod is either a fault, which
`MaxFaults` bounds, or a state that may last for ever: the recorded copy of the node
has no CSI node ID (`csi` is FALSE: lines 418 and 581-583 take it for connected in
every pass), or the pod is `blocked`: another or none under its key (546-554), or I/O
on its volumes. The next event of the pod replaces the record (`TrackPod`).
`DisconnectNodes` and `ReconnectNodes` are a loss of the
node watch and the new one, whose Added events stand for what was missed, except
that nothing stands for a Deleted event. The monitor is started only with a driver
that has the extensions it asks for (`main.go` 179), so that case is not in the model.

### NodeTaints

A call of `TaintNode` reads the list and computes a new one (`TaintNode`), then
sends it (`Patch`). `Overlap` says whether another writer may come in between. A list
of taints is how often each taint occurs in it, which is all that `updateTaint` and
`taintExists` look at: a removal drops every occurrence, an addition adds one; that
no taint ever occurs twice is part of `TypeOK`. A patch that reports an error may have
taken effect. The driver pod is Ready, not Ready or gone; when it is gone the handler
finds no pod and leaves the taint as it is (`controller.go` 732-736).

### DynamicConfig

`main` reads the file, starts viper's watcher, registers the callback and sets two
parameters from the flags, while viper's thread runs `updateConfiguration` on
each change, one parameter per step. The flags are any integers: `main` does not
check them.

## 3. Runs

Runs that pass:

| Run | Instance | Shows |
|---|---|---|
| `controller_safe` | one pod, two nodes, two incarnations, one goroutine and the array monitor; every call may fail | `LockOwnership`, `DeleteOnlyFenced`, `SingleWriter`, `RightNode`, `NoStaleInfo`, `ImplementsTakeover` |
| `controller_recovery` | three incarnations, one loss of the watch or restart, no failing call, fair | `ReadyTracked`, `LockReleased` |
| `node_safe` | two pods with a volume each, or two incarnations of one, two taintings, reliable API server, failing driver, an operator who removes the taint | `NeverCleanLive`, `TaintRemovalClean` |
| `node_live` | one pod name, two incarnations, one volume, one loss of the API server and one failed call or restart of podmon, a driver that can clean up, fair | `TaintRemovalClean`, `TaintRemoved` |
| `volume_cleanup` | every driver, a file-system and a raw block volume, three failed calls, two tries of a pending call, fair | `SuccessMeansClean`, `UnstageAfterUnpublish`, `CleanupCompletes` |
| `va_cache` | two cleanups, two keys, three attachments, every call may fail | `PurgedAfterDelete`, `AttachmentDeleted` |
| `array` | two pods of one affinity group on a node that registers twice, with and without CSI node ID, blocked or not, threshold 2, one failed call or loss of the node watch, fair | `LossNeedsThreshold`, `DisconnectedCleaned`, `NodeUIDHeals` |
| `taints_serial` | four writers whose calls do not overlap and may fail, a driver pod that goes and comes back | `TaintApplied`, `DriverTaintFollows` |
| `config_change` | two changes of the file | `ChangesFollowed` |

All of them check a type invariant, except `controller_recovery` and `node_live`,
whose modules have it in another run. The types say
more than sorts where the code counts or checks: the CrashLoopBackOff counter stays within
`MaxCrashLoopBackOffRetry`, a deletion of an attachment is tried at most twice and a
pending call `CSIMaxRetries` times, no taint is listed twice, and poll rate and
threshold are a flag, what the program was built with, or a positive number of a file.

`controller_safe` loses no event, so `RightNode` and `NoStaleInfo` are said while no
watch was lost; it has one volume, and the theorems `FencingCorrect` and `OneWriter`
say the same for several, of which some could be fenced. `LockReleased` is checked
with calls that return, and `TaintRemoved` with a driver whose clean up succeeds.

Runs that end in a violation, each a disagreement between the code and what it says:

- `controller_stalenode`. The handler starts a cleanup on the node of the podInfo
  recorded under the pod's *key* (line 158) and does not compare UIDs there. After
  a lost watch the podInfo may be that of a dead incarnation on another node: the
  Added event of the new one, not Ready, does not replace it. The UID check of the
  cleanup (line 224) would catch that, unless the new pod's Modified event is
  handled first and makes the recorded UID the right one. Then the wrong node is
  fenced and tainted, and the pod is force-deleted while its own node can still
  write. Without lost events `RightNode` and `FencedBeforeForceDelete` hold (theorems
  `NodeIsRight`, `PodIsFenced`).
- `node_outage`. In `nodeModeCleanupPods` a `GetPod` that fails counts as a pod
  that is gone. If the API server is lost between the read of the node and the two
  looks at a pod, an incarnation that exists is cleaned up.
- `taints_lost`. The patch carries the whole list and no resource version: the
  later of two overlapping calls undoes the earlier.

More was noticed while modelling, and is described here only.

- Controller. The Deleted event that follows the handler's own delete of a crashing
  pod resets its counter (`controller.go` 71), so `MaxCrashLoopBackOffRetry` does not
  bound the deletes of a pod whose owner creates it again under the same name. The
  podInfo is rewritten on every Modified event, also when the pod is not Ready (117,
  143), so the cleanup need not find "the last podInfo recorded when pod ready" (153). The
  loss count is keyed by the node's name (576) and survives its registration under a
  new UID.
- Node. Entries are keyed by name: when an incarnation of a force-deleted pod comes
  to the node again, its entry replaces the earlier one or makes the scan
  ignore it, and the taint goes with the earlier one's volumes mounted;
  `TaintRemovalClean` excepts such entries (`Superseded`). The new scan of
  a pod is stored when it found no fewer mounts than the entry has, by count (`node.go`
  240), and a volume whose PV cannot be read is only logged (197). A failed read of one
  volume while another was mounted since makes the entry name the second in place of
  the first, which then stays mounted when the taint goes; the runs therefore have one
  volume where a read may fail, and the theorem assumes that a scan reads all volumes
  or none (`Whole`). The taint is of the node: a pass may remove it between the taint
  and the force delete of one more pod, which then is due only when the node is tainted
  again. A pod cleaned up alive (`node_outage`) may mount again what was taken down.
  A Deleted event handled
  after the taint is gone drops the entry of a force-deleted pod (`node.go` 253).
  `taintCount` is not reset when the taint is found removed by hand (122), so a new
  taint is acted on with less than the delay.
- "Pods that should no longer be running but are still executing will block removal
  of the taint" (`node.go` 340) has three exceptions: a container that started or
  restarted after the recorded copy of the pod, one that started after CRI was asked
  at the beginning of the pass, and every container when that call failed, as the
  error is only logged (290).
- Unity. `FinalCleanup` returns the error of `GetLoopBackDevice` under the comment
  "nothing to clean" (`driver.go` 182-184). When the node has loop-back devices but
  none of this volume, `grep` exits with 1 and that is an error, so a clean up that is
  repeated after the device was deleted fails for ever and keeps the taint.
  `CleanupCompletes` excepts this case (`LoopBackLost`). Whether the device file is
  unmounted and removed after that (194-198) is not looked at, which
  `SuccessMeansClean` excepts.
- Configuration. `main` overwrites the poll rate and the threshold it has just read
  from the file with the flags (`main.go` 138, 139); until the file changes it has no
  effect on them. A change of the file that viper's thread applies before these two
  lines is overwritten too. `ChangesFollowed` speaks of changes handled after them.
  The flags are not checked (`main.go` 233, 234): with a poll rate of zero
  or less `ArrayConnectivityMonitor` returns after its first pass (`controller.go` 534),
  and with a threshold of zero or less every polled node counts as lost;
  `ArrayConnectivity` is about positive ones.

### Bounds

Two incarnations are the least in which a name means two pods; three in
`controller_recovery`, as the watch may be lost between the second and the third.
In `Controller` two events in the queue let one event be stale. One pod key suffices for what is
said of one key: the threads share nothing across keys but nodes. A worker and the
array monitor are two cleanups that run at once, and the handler is a third holder
of the key. (An event other than Deleted is taken only while a worker is free, so
that a goroutine can always be started.) One loss of the watch or of the API
server is enough for stale state; two pods for a clean up that fails half way, and for
a second pod that is force-deleted after the node was tainted for the first. `MaxQueue = 1` in `NodePodmon` bounds what the cluster adds; with
`ControllerDelete`, which it does not hold back, two events wait. In
`ArrayConnectivity` it holds back only the renewals of a node status: the events of a
node that goes and registers again all wait, so that they are stale when handled after
the pod watch has written the newer UID. A threshold of two passes tells "in a row" from "ever". Three
failed calls reach a clean up of a volume that fails in two passes and in between; a
mount and a device differ in their places and one of each takes both loops of
`nodeModeCleanupPod`. Two threads on the cache are one that lists and one that
deletes; with a third attachment a key has one that was made anew while the other
key has one too. `FairSpec` of `VolumeCleanup` ends when the pod is no longer
registered, which is why that run and `config_change` allow deadlock.
`MCNodePodmon` exchanges pod names (and volumes), of which no action or property
prefers one; `node_live` checks a temporal property and uses no symmetry.
The largest runs are `node_safe` (5.3 million states) and `array` (0.8 million, with
liveness); each takes two to three minutes.

### Fairness

Assumed: the threads podmon starts keep being scheduled, and the calls they make
return, with a result or an error (`WF` of the steps after the lock, of the node
podmon's threads, of the array monitor's thread, of `nodeModeCleanupPods` coming back
to a pod it could not clean). Nothing is assumed of the order
in which pollers of a busy key get it. Of the cluster: kubelet mounts and starts
what it can, stops what it must and renews the status of its node; a lost API
server and a lost watch come back; a controller podmon that tainted a node finishes its cleanup.
`ControllerUnpublishVolume` is called without a deadline, so there the assumption
is one about the driver. The renewal of the node status is assumed strongly fair
because the bounded queue may be full now and then; kubelet does it by the clock.

## 4. Proofs

`ControllerProofs` proves, for any pods, nodes, volumes, threads, failures and
restarts, from `ConstantsAssumption` alone (the sorts of the constants; finitely
many pod keys):

- `TypeCorrect`: `Spec => []TypeOK`. `TypeOK` is not inductive: the increment of
  the CrashLoopBackOff counter comes a call later than the look at it. The
  strengthening `CrashRoom` says that there is still room while the handler is in
  that call; it holds because only the watch thread counts and a Deleted event is
  handled by the same thread.
- `LocksCorrect`: `Spec => []LockOwnership`, inductive with the types. The argument
  is per step: it takes a free key, gives back its own key, or changes neither the
  holder nor the key (lemmas `GotoKeepsLocks`, `ReturnKeepsLocks`, `LockingKeepsLocks`).
- `FencingCorrect`: `Spec => []DeleteOnlyFenced`. The strengthening `Fenced` states
  it from the fencing on, not only at the delete: what the array exports of the
  pod's volumes to the node being cleaned has been attached again since. Steps that
  bring no thread past its fencing (`NoneGetsPast`) keep it if they publish nothing;
  `Attach` publishes and records; `JobFence` establishes it for its own thread and,
  as it only withdraws exports, keeps it for the others.

`TakeoverProofs` builds on these:

- `OneWriter`: `Spec => []SingleWriter`. A volume gets a second node only by `Attach`,
  which needs that no other attachment is left; an attachment is deleted by podmon
  only past the fencing. The invariant `Writers` says that what is exported is attached
  or was attached again after a fencing, and that one node is attached at a time. It
  needs `Fenced` for the job that deletes, and `Known`: a job works on a node, and the
  attachments it deletes are of its pod's own volumes, which are those it fenced.
- `TakeoverImplemented`: `Spec => ImplementsTakeover`. Initial states map to initial
  states. A step of the cluster, of the handler or of the monitor between its cleanups
  is a `Cluster` step or a stutter; each action of a job is the step of the same name,
  an early return is `End`, `JobFence` with a call that failed an `End` that has cut off
  some; `Restart` is `Crash`. That `Begin` finds no other takeover of the key is
  `LockOwnership`.

`VACacheProofs` proves for any keys, threads and attachments, from the sorts of the
constants and `Free \notin Threads`:

- `CacheTypeCorrect`, `NoOutdatedCopies` (`Spec => []PurgedAfterDelete`) and
  `AttachmentsDeleted` (`Spec => []AttachmentDeleted`), all from one inductive
  invariant `Inv`. Beside the properties it has: the mutex is held exactly from the
  List to the rebuild (`Mutex`); both maps know the same keys (`Index`), so that a purge
  that finds no name leaves no copy; attachments are numbered and what podmon deleted
  is marked while it exists (`Numbered`, `DeletedMarked`), so that a List made after a
  deletion shows it; a List made before it is outdated only while the purge is still
  to come (`ListsPurged`), and the purge cannot come between List and rebuild; and a
  cleanup that knows its attachment to be dealt with is right (`KnowsSettled`), which
  a later `Attach` does not change as it gives a new number.

`ControllerProofs` also relates what podmon knows of the pods to the events it has
still to see:

- `CopiesCorrect` (a lemma, whatever is lost or restarted): a pod that was read, a
  podInfo entry and the UID of a cleanup are of a pod that existed, on its node
  (`CopyOf`): UIDs are not used again and a bound pod does not move. The lemmas
  `StepKinds` and `JobChanges` sort the steps once for all that follows: a change of
  one pod with its event, the handler taking an event, a calm step that moves the
  handler or the table, a loss or renewal of the watch, and what becomes of a cleanup.
- `NodeIsRight`: `Spec => [](disruptions = 0 => RightNode)`, and `NothingStale`:
  `Spec => []NoStaleInfo`. Neither is inductive, as the handler prefers the podInfo it
  has to the node it reads. `NoneLost` says of each pod key (`Story`): in the queue a
  pod is created again only after its deletion, also counting what is recorded or at
  hand; so an Added event meets no entry (the only event that leaves an older entry in
  place), and the deletion of a pod that is recorded or at hand but gone is still in
  the queue. `AppendStory` and `TailStory` are what one event more or less does to
  such a queue. With `FencingCorrect` this gives `PodIsFenced`:
  `FencedBeforeForceDelete` until a watch is lost or podmon restarted, which is how far
  the finding of `controller_stalenode` reaches.
- `ReadyIsTracked`: `Spec => []ReadyTracked`, with any number of lost watches and
  restarts. `Comes` says that for a pod that exists, an event follows in the queue any
  deletion of an earlier incarnation, any outdated copy the handler works on and any
  cleanup about to forget the key; and that a Ready pod is recorded, at hand or has an
  event to come. That a cleanup cannot forget the entry just stored is
  `LockOwnership`: the handler waits for the key until the cleanup has ended. A new
  watch lists every pod (`ListIsPending`).

`NodePodmonProofs`, for any pods, volumes, taintings and bounds:

- `TypeCorrect`: `Spec => []TypeOK`, with all faults.
- `LiveNeverCleaned`: `Spec => []NeverCleanLive` under `Reliable` (no loss of the API
  server, no failed call, no restart). The hypothesis is needed, see
  `node_outage`. Added to it: every UID recorded, queued or held by a thread was given
  to one pod key only and is not given again (`KnownUIDs`), and what is recorded is of
  some pod (`EntriesReal`); both hold with all faults.
- `UntaintIsClean`: `Spec /\ []NeverCleanLive => []TaintRemovalClean` under `Whole`, with
  outages, failed calls, restarts, failing drivers, an operator and any number of
  taintings. That no living pod is cleaned up has to be assumed, as such a pod mounts
  again what the pass took down; that a scan reads all volumes or none (`Whole`), because
  of the exchange by count described in section 3. The argument: a force-deleted
  pod is gone for good, so that its mounts only shrink (`ForcedGone`); what the watch
  thread is about to store leaves out no recorded mount that remains
  (`MountsRecorded`), also when an event is handled during an outage, as an entry with
  fewer mounts is not stored; while a pass owes anything the node is tainted, so that no
  Deleted event drops an entry; and a pass that has skipped nothing holds each due volume
  in the keys it has still to look at, at hand, or among the chosen (`PassShape`,
  `DueHeld`), where no newer incarnation of the name can come in between: none is
  scheduled on a tainted node, and none had come before (`Superseded`).
- `ReliableUntaintIsClean`: with `Reliable` both hypotheses are met.

`VolumeCleanupProofs`: `TypeCorrect`, `UnpublishedFirst` (`UnstageAfterUnpublish`) and
`SuccessIsClean` (`SuccessMeansClean`), for any volumes, drivers, retries and failed
calls. The invariant says what the run has behind it for the volume at hand
(`VolumeInv`), that the volumes it is done with are clean unless it met an error
(`DoneInv`), and which mounts a volume can have with each driver (`SettingInv`).

`ArrayConnectivityProofs`: `TypeCorrect` and `LossIsCounted` (`LossNeedsThreshold`), for
any threshold, from the invariant that the cache counts a node at most once in a pass
and so counts the passes (`CountsPasses`), and that a condemned node was sampled in the
pass that condemns it (`CondemnedSampled`). Events may be handled however late.

`NodeTaintsProofs`: `TypeCorrect`, and with `Overlap = FALSE`, which `taints_lost` shows
to be needed, `SerialTaintsApplied` (`TaintApplied`) and `DriverTaintIsRight`
(`DriverTaintFollows`). One call at a time is between its read and its patch, and what
it computed still fits the node (`OneCall`, `CallFresh`), whether or not a patch that
reports an error took effect; the handler is the only writer
of its taint and, with no event left, acts on the present state of the driver pod.

`DynamicConfigProofs`, with nothing assumed of the flags: `TypeCorrect` and `ChangesAreFollowed` (`ChangesFollowed`). viper's
thread does not run before `main` watches the file, so that the two never run
`updateConfiguration` at once (`ViperWaits`), and the parameters an update has set so far
are those of the file (`UpdateSoFar`).

All rest on the named assumptions of their modules: the sorts of the constants and
the finiteness of the sets podmon counts or lists (pod keys; the volumes of a pod; the
nodes of the cluster). Every inductive invariant was checked with TLC before it was
proved.

Only model-checked: `LockReleased`, `TaintRemoved`, `CleanupCompletes`,
`DisconnectedCleaned`, `NodeUIDHeals`, as liveness under fairness is outside what the
prover handles; and `TaintRemovalClean` when a living pod may have been cleaned up
before or a read of the one volume fails (`node_live`).

## 5. Not modelled

- Container IDs: a pod's containers run or do not (see section 3).
- A volume that several pods of a node use: podmon unstages it for each of them and
  leaves it to the driver to refuse.
- Two volumes in one cleanup of `VACache`: a cleanup of several volumes does the same
  for one after the other.
- Leader election (a library: a podmon that loses it exits, which is a restart), flags
  and environment variables, log levels, Kubernetes events (`CreateEvent`), the format
  of paths and driver names, the connection of the CSI, CRI and Kubernetes clients,
  `core/semver`, test code.
- More than one array: the code knows one, `defaultArray`.
- A single module of controller and node podmon: each is modelled with the other's
  taint and delete as actions of its environment; the steps of `TaintNode` that both
  share are in `NodeTaints`.

## 6. Plan

Every invariant a passing run checks is a theorem. What is left:

1. `UntaintIsClean` without the assumption `[]NeverCleanLive`: the property would have to
   leave out what a living pod mounted again after its clean up.
2. An abstract specification of the node podmon, as `Takeover` is of the controller's
   cleanup, and the refinement of it.
3. A composition of one controller and one node podmon over `NodeTaints`.
