--------------------------- MODULE VolumeCleanup ----------------------------
(***************************************************************************)
(* The clean up of one registered pod on its node, call by call            *)
(* (nodeModeCleanupPod in internal/monitor/node.go with the five drivers   *)
(* of internal/monitor/driver.go and the helpers of internal/tools), as    *)
(* nodeModeCleanupPods repeats it until it succeeds.  NodePodmon takes one *)
(* such clean up for a single step.                                        *)
(*                                                                         *)
(* A path is the place it names: the target of a volume in the pod's       *)
(* directory, the two directories it may be staged in, the private target  *)
(* of the driver, and the device file of a Unity raw block volume.         *)
(* kubelet, and the driver on its behalf, may take down any of them at any *)
(* time, as the pod is gone.                                               *)
(***************************************************************************)
EXTENDS Naturals, FiniteSets

CONSTANTS
    Mounts,         \* the recorded file-system volumes
    Devices,        \* the recorded raw block volumes
    CSIMaxRetries,
    MaxFaults       \* bound: calls that fail

ASSUME ConstantsAssumption ==
    /\ IsFiniteSet(Mounts) /\ IsFiniteSet(Devices)
    /\ Mounts \cap Devices = {}
    /\ CSIMaxRetries \in Nat \ {0} /\ MaxFaults \in Nat

VARIABLES
    driver,     \* the Driver of the command line
    vols,       \* NodePodInfo: the volumes of the pod that are recorded
    registered, \* the pod's entry is in PodKeyMap
    mounted,    \* <<v, p>>: something is mounted for volume v at place p
    dirs,       \* the volumes whose private target exists
    loops,      \* the volumes with a loop-back device
    otherLoops, \* the node has loop-back devices of other pods
    gone,       \* the NFS volumes whose share the array no longer has
    faults,
    c           \* the API monitor thread: a run of nodeModeCleanupPod

node == <<mounted, dirs, loops>>
setting == <<driver, vols, otherLoops, gone>>
vars == <<setting, registered, node, faults, c>>

-----------------------------------------------------------------------------
(* The drivers: the staging directories of a file-system volume that podmon *)
(* tries, and of a block volume; where the private target is; whether some  *)
(* errors of the driver are excluded; whether there is a final clean up.    *)
(* PowerFlex stages where it has its private target.                        *)

VxflexDriver == [staging |-> {"old", "new"}, blockStaging |-> {"old"},
                 private |-> "old", excludes |-> FALSE, final |-> FALSE]
UnityDriver == [staging |-> {"old", "new"}, blockStaging |-> {"old"},
                private |-> "target", excludes |-> TRUE, final |-> TRUE]
PScaleDriver == [staging |-> {}, blockStaging |-> {},
                 private |-> "target", excludes |-> FALSE, final |-> FALSE]
PStoreDriver == [staging |-> {"old", "new"}, blockStaging |-> {"old"},
                 private |-> "target", excludes |-> FALSE, final |-> FALSE]
PMaxDriver == [staging |-> {"old", "new"}, blockStaging |-> {"old"},
               private |-> "target", excludes |-> FALSE, final |-> FALSE]

Drivers == {VxflexDriver, UnityDriver, PScaleDriver, PStoreDriver, PMaxDriver}

Volumes == Mounts \cup Devices
Places == {"target", "old", "new", "private", "device"}

\* GetStagingMountDir, GetStagingMountDirAfter125, GetStagingBlockDir.
StagingDirs(v) == IF v \in Devices THEN driver.blockStaging ELSE driver.staging

\* GetDriverMountDir, GetDriverBlockDev.
PrivateTarget(v) == IF v \in Devices THEN "private" ELSE driver.private

\* FinalCleanup has something to look for.
RawBlockOfUnity(v) == v \in Devices /\ driver.final

\* Where a volume of a running pod is mounted: staged in one of the two ways.
PlacesOf(v, staging) ==
    {"target", PrivateTarget(v)}
    \cup (StagingDirs(v) \cap (IF v \in Devices THEN {"old"} ELSE {staging}))
    \cup (IF RawBlockOfUnity(v) THEN {"device"} ELSE {})

Idle == [pc |-> "idle"]
Cleanup == [pc : {"idle"}] \cup
    [pc : {"next", "unpublish", "old", "new", "private", "final"},
     todo : SUBSET Volumes,  \* the volumes not looked at yet
     vol : Volumes \cup {"none"},
     tries : 0..CSIMaxRetries - 1, \* of the call at hand, that failed
     err : BOOLEAN]          \* returnErr

Costs(n) == faults + n <= MaxFaults /\ faults' = faults + n

Take(v, p) == mounted' = mounted \ {<<v, p>>}

Go(pc) == c' = [c EXCEPT !.pc = pc, !.tries = 0]
GoErr(pc) == c' = [c EXCEPT !.pc = pc, !.tries = 0, !.err = TRUE]

\* Mutant of Fails: one try too many.
FailsOnceMore(pc) ==
    \/ c.tries < CSIMaxRetries /\ c' = [c EXCEPT !.tries = @ + 1]
    \/ GoErr(pc)

\* A call fails with an error that ends in "pending" and is made again, or the
\* last try was used up, or the error is another one.
Fails(pc) ==
    \/ c.tries + 1 < CSIMaxRetries /\ c' = [c EXCEPT !.tries = @ + 1]
    \/ GoErr(pc)

-----------------------------------------------------------------------------
\* nodeModeCleanupPods has chosen the pod.
Begin ==
    /\ registered /\ c = Idle
    /\ c' = [pc |-> "next", todo |-> vols, vol |-> "none", tries |-> 0, err |-> FALSE]
    /\ UNCHANGED <<setting, registered, node, faults>>

\* Mounts first, then block devices.
NextVolume(v) ==
    /\ c.pc = "next" /\ v \in c.todo
    /\ v \in Devices => c.todo \subseteq Devices
    /\ c' = [c EXCEPT !.pc = "unpublish", !.vol = v, !.todo = @ \ {v}]
    /\ UNCHANGED <<setting, registered, node, faults>>

\* Mutant of UnpublishError: the rest is cleaned up all the same.
UnpublishErrorGoesOn == Fails("old")

\* NodeUnpublishVolume failed and the error is not excluded: the next volume.
UnpublishError == Fails("next")

\* callNodeUnpublishVolume.  The driver removes the target; a call that fails
\* may have unmounted it.  The error for a missing NFS share is excluded.
Unpublish ==
    LET v == c.vol IN
    /\ c.pc = "unpublish"
    /\ \/ /\ v \notin gone
          /\ Take(v, "target")
          /\ dirs' = IF PrivateTarget(v) = "target" THEN dirs \ {v} ELSE dirs
          /\ Go("old")
          /\ UNCHANGED faults
       \/ /\ v \in gone
          /\ Go("old")
          /\ UNCHANGED <<mounted, dirs, faults>>
       \/ /\ Costs(1)
          /\ Take(v, "target") \/ UNCHANGED mounted
          /\ UnpublishError
          /\ UNCHANGED dirs
    /\ UNCHANGED <<setting, registered, loops>>

\* callNodeUnstageVolume of one staging directory, if the driver has it: of a
\* directory without a mount it succeeds.  An error does not end the clean up.
Unstage(p) ==
    LET v == c.vol
        next == IF p = "old" THEN "new" ELSE "private" IN
    /\ c.pc = p
    /\ \/ /\ p \notin StagingDirs(v) \/ v \in gone
          /\ Go(next)
          /\ UNCHANGED <<mounted, faults>>
       \/ /\ p \in StagingDirs(v) /\ v \notin gone
          /\ Take(v, p)
          /\ Go(next)
          /\ UNCHANGED faults
       \/ /\ p \in StagingDirs(v)
          /\ Costs(1)
          /\ Take(v, p) \/ UNCHANGED mounted
          /\ Fails(next)
    /\ UNCHANGED <<setting, registered, dirs, loops>>

\* Mutants of RemovePrivate: what Remove says is not looked at; a private target
\* that does not exist is an error.
RemovePrivateUnchecked ==
    LET v == c.vol IN
    /\ c.pc = "private"
    /\ \/ Take(v, PrivateTarget(v)) /\ dirs' = dirs \ {v} /\ UNCHANGED faults
       \/ Costs(1) /\ UNCHANGED <<mounted, dirs>>
    /\ Go("final")
    /\ UNCHANGED <<setting, registered, loops>>

RemovePrivateMustExist ==
    LET v == c.vol IN
    /\ c.pc = "private"
    /\ Take(v, PrivateTarget(v))
    /\ dirs' = dirs \ {v}
    /\ IF v \in dirs THEN Go("final") ELSE GoErr("final")
    /\ UNCHANGED <<setting, registered, loops, faults>>

\* Unmount the private target, whose failure is logged, and remove it: that
\* fails when it is still mounted, and is fine when there is nothing to remove.
RemovePrivate ==
    LET v == c.vol IN
    /\ c.pc = "private"
    /\ \/ /\ Take(v, PrivateTarget(v))
          /\ dirs' = dirs \ {v}
          /\ Go("final")
          /\ UNCHANGED faults
       \/ /\ <<v, PrivateTarget(v)>> \in mounted /\ Costs(1)
          /\ GoErr("final")
          /\ UNCHANGED <<mounted, dirs>>
       \/ /\ v \in dirs /\ Costs(1)
          /\ Take(v, PrivateTarget(v))
          /\ GoErr("final")
          /\ UNCHANGED dirs
    /\ UNCHANGED <<setting, registered, loops>>

\* GetLoopBackDevice: losetup lists the devices and grep looks for the volume.
\* No device at all is an empty answer, devices of others only an error of grep.
LoopBackAnswers(v) ==
    IF v \in loops THEN {"found"} ELSE IF otherLoops \/ loops # {} THEN {"error"}
    ELSE {"nothing"}

\* FinalCleanup: only Unity has one, for raw block volumes.  Whether the device
\* file is unmounted and removed is not looked at.
FinalCleanup ==
    LET v == c.vol IN
    /\ c.pc = "final"
    /\ \/ /\ ~RawBlockOfUnity(v) \/ "nothing" \in LoopBackAnswers(v)
          /\ Go("next")
          /\ UNCHANGED <<mounted, loops, faults>>
       \/ /\ RawBlockOfUnity(v)
          /\ \/ "error" \in LoopBackAnswers(v) /\ UNCHANGED faults
             \/ Costs(1)    \* losetup -a or losetup -d failed
          /\ GoErr("next")
          /\ UNCHANGED <<mounted, loops>>
       \/ /\ RawBlockOfUnity(v) /\ "found" \in LoopBackAnswers(v)
          /\ loops' = loops \ {v}
          /\ \/ Take(v, "device") /\ UNCHANGED faults
             \/ Costs(1) /\ UNCHANGED mounted
          /\ Go("next")
    /\ UNCHANGED <<setting, registered, dirs>>

\* Without an error the entry goes; else another pass cleans up again.
End ==
    /\ c.pc = "next" /\ c.todo = {}
    /\ registered' = c.err
    /\ c' = Idle
    /\ UNCHANGED <<setting, node, faults>>

\* kubelet and the driver tear the pod down as well.
Kubelet(v, p) ==
    /\ <<v, p>> \in mounted
    /\ Take(v, p)
    /\ UNCHANGED <<setting, registered, dirs, loops, faults, c>>

KubeletLoop(v) ==
    /\ v \in loops
    /\ loops' = loops \ {v}
    /\ UNCHANGED <<setting, registered, mounted, dirs, faults, c>>

-----------------------------------------------------------------------------
\* The driver found on the command line; a pod whose volumes are all set up.
\* PowerScale has no raw block volumes; Unity alone has errors to exclude.
Init ==
    /\ driver \in Drivers
    /\ vols \in SUBSET Volumes /\ (driver = PScaleDriver => vols \subseteq Mounts)
    /\ \E staging \in {"old", "new"} :
          mounted = UNION {{v} \X PlacesOf(v, staging) : v \in vols}
    /\ dirs = vols
    /\ loops = {v \in vols : RawBlockOfUnity(v)}
    /\ otherLoops \in BOOLEAN
    /\ gone \in SUBSET (IF driver.excludes THEN vols \cap Mounts ELSE {})
    /\ registered = TRUE /\ faults = 0 /\ c = Idle

CleanupStep ==
    \/ Begin \/ Unpublish \/ RemovePrivate \/ FinalCleanup \/ End
    \/ \E v \in Volumes : NextVolume(v)
    \/ \E p \in {"old", "new"} : Unstage(p)

Next ==
    \/ CleanupStep
    \/ \E v \in Volumes : KubeletLoop(v) \/ \E p \in Places : Kubelet(v, p)

Spec == Init /\ [][Next]_vars

\* The API monitor thread comes back to a pod that was not cleaned up, and every
\* call returns.
Fairness == WF_vars(CleanupStep)

FairSpec == Spec /\ Fairness

-----------------------------------------------------------------------------
(* Properties. *)

\* Every variable has its type.
TypeOK ==
    /\ driver \in Drivers /\ vols \subseteq Volumes /\ registered \in BOOLEAN
    /\ mounted \subseteq vols \X Places /\ dirs \subseteq vols
    /\ loops \subseteq vols /\ otherLoops \in BOOLEAN /\ gone \subseteq vols
    /\ faults \in 0..MaxFaults /\ c \in Cleanup

\* When nodeModeCleanupPod has reported success and the entry of the pod is
\* dropped, nothing podmon was to take down is left of any of its volumes,
\* however many calls failed in this pass or an earlier one: neither target,
\* staging directory, private target nor loop-back device.  Two things are
\* excepted: where a volume is staged whose NFS share is gone (the excluded
\* error), and the device file whose removal FinalCleanup does not check.
SuccessMeansClean ==
    ~registered =>
       /\ dirs = {} /\ loops = {}
       /\ \A v \in vols : \A p \in Places :
             <<v, p>> \in mounted =>
                p = "device" \/ (v \in gone /\ p \in StagingDirs(v))

\* NodeUnstageVolume is called only for a volume that is unpublished, as the CSI
\* specification demands, unless its NFS share is gone.
UnstageAfterUnpublish ==
    c.pc \in {"old", "new"} /\ c.vol \notin gone => <<c.vol, "target">> \notin mounted

\* FinalCleanup answers an error for ever: the loop-back device of the volume is
\* gone and the node has others.
LoopBackLost ==
    \E v \in vols : RawBlockOfUnity(v) /\ "error" \in LoopBackAnswers(v)

\* A clean up that failed half way, in whatever call, can be finished by a later
\* pass, so that the pod is not kept for ever, unless its loop-back device is
\* lost in the meantime.
CleanupCompletes == registered ~> ~registered \/ LoopBackLost
=============================================================================
