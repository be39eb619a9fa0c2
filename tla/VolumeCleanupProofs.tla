------------------------- MODULE VolumeCleanupProofs -------------------------
(***************************************************************************)
(* Proofs for VolumeCleanup: a clean up that reports success left nothing  *)
(* behind, for any set of volumes, number of retries and failed calls.     *)
(***************************************************************************)
EXTENDS VolumeCleanup, TLAPS

\* A run of nodeModeCleanupPod is in the middle of a volume.
AtVolume == {"unpublish", "old", "new", "private", "final"}

\* Nothing podmon was to take down is left of volume v.
Clean(v) ==
    /\ v \notin dirs /\ v \notin loops
    /\ \A p \in Places :
          <<v, p>> \in mounted => p = "device" \/ (v \in gone /\ p \in StagingDirs(v))

\* What Init settles and no step undoes: where a volume can be mounted, that
\* only a raw block volume of Unity has a loop-back device, and that a volume
\* whose share is gone has its target for private target.
SettingInv ==
    /\ \A v \in gone : PrivateTarget(v) = "target"
    /\ \A v \in loops : RawBlockOfUnity(v)
    /\ \A v \in vols : \A p \in Places :
          <<v, p>> \in mounted =>
             p \in {"target", "device", PrivateTarget(v)} \cup StagingDirs(v)

\* The run works on volumes of the pod, and only for a registered pod.
RunInv ==
    /\ ~registered => c = Idle
    /\ c.pc # "idle" => c.todo \subseteq vols
    /\ c.pc \in AtVolume => c.vol \in vols

\* How far the run is with its volume.  The unstaging of a volume that failed
\* goes on, with the error kept, so that the later facts are those of a run
\* without an error.
VolumeInv ==
    /\ c.pc \in {"old", "new", "private", "final"} /\ c.vol \notin gone =>
          <<c.vol, "target">> \notin mounted
    /\ c.pc \in {"new", "private", "final"} /\ ~c.err /\ c.vol \notin gone =>
          ("old" \in StagingDirs(c.vol) => <<c.vol, "old">> \notin mounted)
    /\ c.pc \in {"private", "final"} /\ ~c.err /\ c.vol \notin gone =>
          ("new" \in StagingDirs(c.vol) => <<c.vol, "new">> \notin mounted)
    /\ c.pc = "final" /\ ~c.err =>
          c.vol \notin dirs /\ <<c.vol, PrivateTarget(c.vol)>> \notin mounted

\* The volumes the run is done with are clean, unless it met an error; all are
\* once the entry of the pod is dropped.
DoneInv ==
    /\ c.pc = "next" /\ ~c.err => \A v \in vols \ c.todo : Clean(v)
    /\ c.pc \in AtVolume /\ ~c.err => \A v \in vols \ c.todo : v = c.vol \/ Clean(v)
    /\ ~registered => \A v \in vols : Clean(v)

\* The inductive invariant.
IInv == TypeOK /\ SettingInv /\ RunInv /\ VolumeInv /\ DoneInv

-----------------------------------------------------------------------------
(* The drivers and the record of a run. *)

\* A run that is under way.
Pcs == {"next"} \cup AtVolume
Run == [pc : Pcs, todo : SUBSET Volumes, vol : Volumes \cup {"none"},
        tries : 0..CSIMaxRetries - 1, err : BOOLEAN]

\* A run is idle or has the fields of a run.
LEMMA CleanupIsRun ==
  /\ Cleanup = [pc : {"idle"}] \cup Run
  /\ \A r \in Cleanup : r.pc # "idle" => r \in Run
  BY DEF Cleanup, Run, Pcs, AtVolume

\* The staging directories are the old and the new one, for every driver.
LEMMA StagingPlaces ==
  ASSUME driver \in Drivers, NEW v
  PROVE  StagingDirs(v) \subseteq {"old", "new"}
  BY DEF StagingDirs, Drivers, VxflexDriver, UnityDriver, PScaleDriver,
         PStoreDriver, PMaxDriver

\* A driver that excludes errors has the target for private target.
LEMMA ExcludingDriver ==
  ASSUME driver \in Drivers, driver.excludes
  PROVE  driver.private = "target"
  BY DEF Drivers, VxflexDriver, UnityDriver, PScaleDriver, PStoreDriver, PMaxDriver

\* The private target is one of the places.
LEMMA PrivatePlaces ==
  ASSUME driver \in Drivers, NEW v
  PROVE  PrivateTarget(v) \in {"private", "old", "target"}
  BY DEF PrivateTarget, Drivers, VxflexDriver, UnityDriver, PScaleDriver,
         PStoreDriver, PMaxDriver

\* Going on keeps all of a run but where it is.
LEMMA GoFacts ==
  ASSUME ConstantsAssumption, c \in Run, NEW q \in Pcs, Go(q)
  PROVE  /\ c' \in Run /\ c'.pc = q
         /\ c'.todo = c.todo /\ c'.vol = c.vol /\ c'.err = c.err
<1>1. 0 \in 0..CSIMaxRetries - 1
  BY DEF ConstantsAssumption
<1> QED  BY <1>1 DEF Go, Run

\* Going on with an error sets it.
LEMMA GoErrFacts ==
  ASSUME ConstantsAssumption, c \in Run, NEW q \in Pcs, GoErr(q)
  PROVE  /\ c' \in Run /\ c'.pc = q
         /\ c'.todo = c.todo /\ c'.vol = c.vol /\ c'.err
<1>1. 0 \in 0..CSIMaxRetries - 1
  BY DEF ConstantsAssumption
<1> QED  BY <1>1 DEF GoErr, Run

\* A failed call is made again, with nothing else changed, or the run goes on
\* with an error.
LEMMA FailsFacts ==
  ASSUME ConstantsAssumption, c \in Run, NEW q \in Pcs, Fails(q)
  PROVE  /\ c' \in Run /\ c'.todo = c.todo /\ c'.vol = c.vol
         /\ \/ c'.pc = c.pc /\ c'.err = c.err
            \/ c'.pc = q /\ c'.err
<1>1. CASE c.tries + 1 < CSIMaxRetries /\ c' = [c EXCEPT !.tries = @ + 1]
  <2>1. c.tries + 1 \in 0..CSIMaxRetries - 1
    BY <1>1 DEF Run, ConstantsAssumption
  <2> QED  BY <1>1, <2>1 DEF Run
<1>2. CASE GoErr(q)
  BY <1>2, GoErrFacts
<1> QED  BY <1>1, <1>2 DEF Fails

-----------------------------------------------------------------------------
\* Nothing is ever set up again, and what the clean up is about stays the same.
LEMMA Shrinks ==
  ASSUME [Next]_vars
  PROVE  /\ mounted' \subseteq mounted /\ dirs' \subseteq dirs /\ loops' \subseteq loops
         /\ UNCHANGED setting
<1>1. CASE Begin
  BY <1>1 DEF Begin, node
<1>2. CASE Unpublish
  BY <1>2 DEF Unpublish, Take
<1>3. CASE RemovePrivate
  BY <1>3 DEF RemovePrivate, Take
<1>4. CASE FinalCleanup
  BY <1>4 DEF FinalCleanup, Take
<1>5. CASE End
  BY <1>5 DEF End, node
<1>6. ASSUME NEW v \in Volumes, NextVolume(v)
      PROVE  UNCHANGED <<node, setting>>
  BY <1>6 DEF NextVolume, node
<1>7. ASSUME NEW p \in {"old", "new"}, Unstage(p)
      PROVE  mounted' \subseteq mounted /\ UNCHANGED <<dirs, loops, setting>>
  BY <1>7 DEF Unstage, Take
<1>8. ASSUME NEW v \in Volumes, KubeletLoop(v) \/ \E p \in Places : Kubelet(v, p)
      PROVE  mounted' \subseteq mounted /\ loops' \subseteq loops /\ UNCHANGED <<dirs, setting>>
  BY <1>8 DEF KubeletLoop, Kubelet, Take
<1>9. CASE UNCHANGED vars
  BY <1>9 DEF vars, node
<1> QED
  BY <1>1, <1>2, <1>3, <1>4, <1>5, <1>6, <1>7, <1>8, <1>9 DEF Next, CleanupStep, node

\* The operators on the setting do not change with it.
LEMMA SettingSame ==
  ASSUME UNCHANGED setting
  PROVE  /\ driver' = driver /\ vols' = vols /\ gone' = gone /\ otherLoops' = otherLoops
         /\ \A v : StagingDirs(v)' = StagingDirs(v)
         /\ \A v : PrivateTarget(v)' = PrivateTarget(v)
         /\ \A v : RawBlockOfUnity(v)' <=> RawBlockOfUnity(v)
  BY DEF setting, StagingDirs, PrivateTarget, RawBlockOfUnity

\* What is clean stays clean.
LEMMA CleanStays ==
  ASSUME [Next]_vars, NEW v, Clean(v)
  PROVE  Clean(v)'
  BY Shrinks, SettingSame DEF Clean

\* A pod with all its volumes set up.
LEMMA InitIInv == Init => IInv
<1> SUFFICES ASSUME Init
             PROVE  IInv
  OBVIOUS
<1>1. c.pc = "idle" /\ registered /\ c = Idle /\ c \in Cleanup
  BY DEF Init, Idle, Cleanup
<1>2. gone \subseteq vols /\ \A v \in gone : PrivateTarget(v) = "target"
  <2>1. CASE driver.excludes
    <3>1. gone \subseteq vols \cap Mounts
      BY <2>1 DEF Init
    <3>2. driver.private = "target"
      BY <2>1, ExcludingDriver DEF Init
    <3> QED  BY <3>1, <3>2, ConstantsAssumption DEF PrivateTarget
  <2>2. CASE ~driver.excludes
    BY <2>2 DEF Init
  <2> QED  BY <2>1, <2>2
<1>3. PICK staging \in {"old", "new"} :
         mounted = UNION {{v} \X PlacesOf(v, staging) : v \in vols}
  BY DEF Init
<1>4. \A v, p : <<v, p>> \in mounted => v \in vols /\ p \in PlacesOf(v, staging)
  BY <1>3
<1>5. \A v : PlacesOf(v, staging) \subseteq
                {"target", "device", PrivateTarget(v)} \cup StagingDirs(v)
  BY DEF PlacesOf
<1>6. \A v : PlacesOf(v, staging) \subseteq Places
  BY <1>5, StagingPlaces, PrivatePlaces DEF Init, Places
<1>7. mounted \subseteq vols \X Places
  BY <1>3, <1>6
<1>8. TypeOK
  BY <1>1, <1>2, <1>7, ConstantsAssumption DEF Init, TypeOK
<1>9. SettingInv
  BY <1>2, <1>4, <1>5 DEF SettingInv, Init
<1> QED
  BY <1>1, <1>8, <1>9 DEF IInv, RunInv, VolumeInv, DoneInv, AtVolume

-----------------------------------------------------------------------------
(* Every step preserves the invariant. *)

\* What a step leaves alone or only takes away keeps its type and its place.
LEMMA FrameStep ==
  ASSUME IInv, [Next]_vars, c' \in Cleanup, registered' \in BOOLEAN,
         faults' \in 0..MaxFaults
  PROVE  TypeOK' /\ SettingInv'
<1>1. TypeOK'
  BY Shrinks, SettingSame DEF IInv, TypeOK
<1>2. SettingInv'
  BY Shrinks, SettingSame DEF IInv, SettingInv
<1> QED  BY <1>1, <1>2

\* The failed calls stay within their bound.
LEMMA CostsType ==
  ASSUME faults \in 0..MaxFaults, ConstantsAssumption, Costs(1) \/ UNCHANGED faults
  PROVE  faults' \in 0..MaxFaults
  BY DEF Costs, ConstantsAssumption

\* At a place of the pod's volume the run has its fields.
LEMMA AtRun ==
  ASSUME IInv, c.pc \in Pcs
  PROVE  /\ c \in Run /\ registered /\ c.todo \subseteq vols
         /\ c.pc \in AtVolume => c.vol \in vols
<1>1. c \in Run
  BY CleanupIsRun DEF IInv, TypeOK, Pcs, AtVolume
<1>2. c # Idle
  BY DEF Idle, Pcs, AtVolume
<1>3. registered
  BY <1>2 DEF IInv, RunInv
<1> QED  BY <1>1, <1>3 DEF IInv, RunInv, Pcs, AtVolume

\* A step of the run within a volume, or on to the next one.  What is left to
\* show of it: how far it is with the volume, and that a volume it ends without
\* an error is clean.
LEMMA WithinVolume ==
  ASSUME IInv, [Next]_vars, c.pc \in AtVolume, c' \in Run, c'.pc \in Pcs,
         c'.todo = c.todo, c'.vol = c.vol, c'.err \/ c'.err = c.err,
         UNCHANGED registered, Costs(1) \/ UNCHANGED faults,
         VolumeInv',
         \A v : v = c.vol /\ c'.pc = "next" /\ ~c'.err => Clean(v)'
  PROVE  IInv'
<1>1. c \in Run /\ registered /\ c.todo \subseteq vols /\ c.vol \in vols
  BY AtRun DEF Pcs
<1>2. TypeOK' /\ SettingInv'
  <2>1. c' \in Cleanup
    BY CleanupIsRun
  <2>2. faults' \in 0..MaxFaults
    BY CostsType, ConstantsAssumption DEF IInv, TypeOK
  <2> QED  BY <2>1, <2>2, FrameStep DEF IInv, TypeOK
<1>3. vols' = vols
  BY Shrinks, SettingSame
<1>4. RunInv'
  BY <1>1, <1>3 DEF RunInv
<1>5. ~c'.err => \A v \in vols \ c.todo : v = c.vol \/ Clean(v)'
  <2>1. ~c'.err => ~c.err
    OBVIOUS
  <2>2. ~c'.err => \A v \in vols \ c.todo : v = c.vol \/ Clean(v)
    BY <2>1 DEF IInv, DoneInv
  <2> QED  BY <2>2, CleanStays
<1>6. DoneInv'
  BY <1>1, <1>3, <1>5 DEF DoneInv, Pcs
<1> QED  BY <1>2, <1>4, <1>6 DEF IInv

\* NodeUnpublishVolume.
LEMMA UnpublishStep == IInv /\ Unpublish => IInv'
<1> SUFFICES ASSUME IInv, Unpublish
             PROVE  IInv'
  OBVIOUS
<1>1. [Next]_vars
  BY DEF Next, CleanupStep
<1>2. c.pc = "unpublish" /\ c.pc \in AtVolume /\ c \in Run
  BY AtRun DEF Unpublish, Pcs, AtVolume
<1>3. UNCHANGED <<setting, registered>> /\ (Costs(1) \/ UNCHANGED faults)
  BY DEF Unpublish
<1>4. gone' = gone
  BY <1>3, SettingSame
<1>5. CASE Go("old") /\ (c.vol \in gone \/ Take(c.vol, "target"))
  <2>1. /\ c' \in Run /\ c'.pc = "old"
        /\ c'.todo = c.todo /\ c'.vol = c.vol /\ c'.err = c.err
    BY <1>2, <1>5, GoFacts, ConstantsAssumption DEF Pcs, AtVolume
  <2>2. VolumeInv'
    BY <1>4, <1>5, <2>1 DEF VolumeInv, Take
  <2> QED  BY <1>1, <1>2, <1>3, <2>1, <2>2, WithinVolume DEF Pcs, AtVolume
<1>6. CASE Fails("next")
  <2>1. /\ c' \in Run /\ c'.todo = c.todo /\ c'.vol = c.vol
        /\ \/ c'.pc = "unpublish" /\ c'.err = c.err
           \/ c'.pc = "next" /\ c'.err
    BY <1>2, <1>6, FailsFacts, ConstantsAssumption DEF Pcs
  <2>2. VolumeInv'
    BY <2>1 DEF VolumeInv
  <2>3. c'.pc \in Pcs /\ (c'.err \/ c'.err = c.err) /\ ~(c'.pc = "next" /\ ~c'.err)
    BY <2>1 DEF Pcs, AtVolume
  <2> QED  BY <1>1, <1>2, <1>3, <2>1, <2>2, <2>3, WithinVolume
<1> QED  BY <1>5, <1>6 DEF Unpublish, UnpublishError

\* NodeUnstageVolume of either staging directory.
LEMMA UnstageStep ==
  ASSUME IInv, NEW p \in {"old", "new"}, Unstage(p)
  PROVE  IInv'
<1> DEFINE next == IF p = "old" THEN "new" ELSE "private"
<1>1. [Next]_vars
  BY DEF Next, CleanupStep
<1>2. c.pc = p /\ c.pc \in AtVolume /\ c \in Run /\ next \in Pcs
  BY AtRun DEF Unstage, Pcs, AtVolume
<1>3. UNCHANGED <<setting, registered, dirs>> /\ (Costs(1) \/ UNCHANGED faults)
  BY DEF Unstage
<1>4. gone' = gone /\ driver' = driver
  BY <1>3, SettingSame
<1>5. mounted' \subseteq mounted
  BY <1>1, Shrinks
<1> USE DEF VolumeInv
<1>6. CASE Go(next) /\ (p \notin StagingDirs(c.vol) \/ c.vol \in gone \/ Take(c.vol, p))
  <2>1. /\ c' \in Run /\ c'.pc = next
        /\ c'.todo = c.todo /\ c'.vol = c.vol /\ c'.err = c.err
    BY <1>2, <1>6, GoFacts, ConstantsAssumption
  <2>2. VolumeInv'
    BY <1>2, <1>4, <1>5, <1>6, <2>1 DEF IInv, Take, StagingDirs
  <2> QED  BY <1>1, <1>2, <1>3, <2>1, <2>2, WithinVolume DEF Pcs, AtVolume
<1>7. CASE Fails(next)
  <2>1. /\ c' \in Run /\ c'.todo = c.todo /\ c'.vol = c.vol
        /\ \/ c'.pc = p /\ c'.err = c.err
           \/ c'.pc = next /\ c'.err
    BY <1>2, <1>7, FailsFacts, ConstantsAssumption
  <2>2. VolumeInv'
    BY <1>2, <1>4, <1>5, <2>1 DEF IInv, StagingDirs
  <2>3. c'.pc \in Pcs /\ c'.pc # "next" /\ (c'.err \/ c'.err = c.err)
    BY <2>1 DEF Pcs, AtVolume
  <2> QED  BY <1>1, <1>2, <1>3, <2>1, <2>2, <2>3, WithinVolume
<1> QED  BY <1>6, <1>7 DEF Unstage

\* The private target is unmounted and removed.
LEMMA RemovePrivateStep == IInv /\ RemovePrivate => IInv'
<1> SUFFICES ASSUME IInv, RemovePrivate
             PROVE  IInv'
  OBVIOUS
<1>1. [Next]_vars
  BY DEF Next, CleanupStep
<1>2. c.pc = "private" /\ c.pc \in AtVolume /\ c \in Run
  BY AtRun DEF RemovePrivate, Pcs, AtVolume
<1>3. UNCHANGED <<setting, registered>> /\ (Costs(1) \/ UNCHANGED faults)
  BY DEF RemovePrivate
<1>4. gone' = gone /\ driver' = driver /\ mounted' \subseteq mounted
  BY <1>1, <1>3, SettingSame, Shrinks
<1>5. CASE Go("final") /\ Take(c.vol, PrivateTarget(c.vol)) /\ dirs' = dirs \ {c.vol}
  <2>1. /\ c' \in Run /\ c'.pc = "final"
        /\ c'.todo = c.todo /\ c'.vol = c.vol /\ c'.err = c.err
    BY <1>2, <1>5, GoFacts, ConstantsAssumption DEF Pcs, AtVolume
  <2>2. VolumeInv'
    BY <1>2, <1>4, <1>5, <2>1 DEF IInv, VolumeInv, Take, StagingDirs, PrivateTarget
  <2> QED  BY <1>1, <1>2, <1>3, <2>1, <2>2, WithinVolume DEF Pcs, AtVolume
<1>6. CASE GoErr("final")
  <2>1. /\ c' \in Run /\ c'.pc = "final"
        /\ c'.todo = c.todo /\ c'.vol = c.vol /\ c'.err
    BY <1>2, <1>6, GoErrFacts, ConstantsAssumption DEF Pcs, AtVolume
  <2>2. VolumeInv'
    BY <1>2, <1>4, <2>1 DEF IInv, VolumeInv
  <2> QED  BY <1>1, <1>2, <1>3, <2>1, <2>2, WithinVolume DEF Pcs, AtVolume
<1> QED  BY <1>5, <1>6 DEF RemovePrivate

\* A volume without an error at the end of its clean up, and whose loop-back
\* device is gone, is clean.
LEMMA EndOfVolume ==
  ASSUME IInv, [Next]_vars, c.pc = "final", ~c.err,
         NEW v, v = c.vol, v \notin loops'
  PROVE  Clean(v)'
<1>1. v \in vols
  BY AtRun DEF Pcs, AtVolume
<1>2. v \notin dirs'
  BY Shrinks DEF IInv, VolumeInv
<1>3. ASSUME NEW p \in Places, <<v, p>> \in mounted', p # "device"
      PROVE  v \in gone /\ p \in StagingDirs(v)
  <2>1. <<v, p>> \in mounted
    BY <1>3, Shrinks
  <2>2. p # PrivateTarget(v)
    BY <2>1 DEF IInv, VolumeInv
  <2>3. p \in {"target"} \cup StagingDirs(v)
    BY <1>1, <1>3, <2>1, <2>2 DEF IInv, SettingInv
  <2>4. v \in gone
    <3>1. StagingDirs(v) \subseteq {"old", "new"}
      BY StagingPlaces DEF IInv, TypeOK
    <3> QED  BY <2>1, <2>3, <3>1 DEF IInv, VolumeInv
  <2>5. p # "target"
    BY <2>2, <2>4 DEF IInv, SettingInv
  <2> QED  BY <2>3, <2>4, <2>5
<1>4. gone' = gone /\ \A w : StagingDirs(w)' = StagingDirs(w)
  BY Shrinks, SettingSame
<1> QED  BY <1>2, <1>3, <1>4 DEF Clean

\* FinalCleanup of the volume.
LEMMA FinalCleanupStep == IInv /\ FinalCleanup => IInv'
<1> SUFFICES ASSUME IInv, FinalCleanup
             PROVE  IInv'
  OBVIOUS
<1>1. [Next]_vars
  BY DEF Next, CleanupStep
<1>2. c.pc = "final" /\ c.pc \in AtVolume /\ c \in Run
  BY AtRun DEF FinalCleanup, Pcs, AtVolume
<1>3. UNCHANGED <<setting, registered>> /\ (Costs(1) \/ UNCHANGED faults)
  BY DEF FinalCleanup
<1>4. CASE Go("next") /\ c.vol \notin loops'
  <2>1. /\ c' \in Run /\ c'.pc = "next"
        /\ c'.todo = c.todo /\ c'.vol = c.vol /\ c'.err = c.err
    BY <1>2, <1>4, GoFacts, ConstantsAssumption DEF Pcs
  <2>2. VolumeInv'
    BY <2>1 DEF VolumeInv
  <2>3. \A v : v = c.vol /\ c'.pc = "next" /\ ~c'.err => Clean(v)'
    BY <1>1, <1>2, <1>4, <2>1, EndOfVolume
  <2> QED  BY <1>1, <1>2, <1>3, <2>1, <2>2, <2>3, WithinVolume DEF Pcs
<1>5. CASE GoErr("next")
  <2>1. /\ c' \in Run /\ c'.pc = "next"
        /\ c'.todo = c.todo /\ c'.vol = c.vol /\ c'.err
    BY <1>2, <1>5, GoErrFacts, ConstantsAssumption DEF Pcs
  <2>2. VolumeInv'
    BY <2>1 DEF VolumeInv
  <2> QED  BY <1>1, <1>2, <1>3, <2>1, <2>2, WithinVolume DEF Pcs
<1>6. "nothing" \in LoopBackAnswers(c.vol) => c.vol \notin loops
  BY DEF LoopBackAnswers
<1>7. ~RawBlockOfUnity(c.vol) => c.vol \notin loops
  BY DEF IInv, SettingInv
<1> QED  BY <1>4, <1>5, <1>6, <1>7 DEF FinalCleanup

\* A run begins: no volume is done.
LEMMA BeginStep == IInv /\ Begin => IInv'
<1> SUFFICES ASSUME IInv, Begin
             PROVE  IInv'
  OBVIOUS
<1>1. [Next]_vars
  BY DEF Next, CleanupStep
<1>2. c' = [pc |-> "next", todo |-> vols, vol |-> "none", tries |-> 0, err |-> FALSE]
  BY DEF Begin
<1>3. c' \in Run
  BY <1>2, ConstantsAssumption DEF Run, Pcs, IInv, TypeOK
<1>4. UNCHANGED <<setting, registered, faults>> /\ registered
  BY DEF Begin
<1>5. c' \in Cleanup
  BY <1>3, CleanupIsRun
<1>6. TypeOK' /\ SettingInv'
  BY <1>1, <1>4, <1>5, FrameStep DEF IInv, TypeOK
<1>7. vols' = vols
  BY <1>4, SettingSame
<1>8. c'.pc = "next" /\ c'.todo = vols'
  BY <1>2, <1>7
<1> QED  BY <1>4, <1>6, <1>8 DEF IInv, RunInv, VolumeInv, DoneInv, AtVolume

\* The run takes up a volume.
LEMMA NextVolumeStep ==
  ASSUME IInv, NEW v \in Volumes, NextVolume(v)
  PROVE  IInv'
<1>1. [Next]_vars
  BY DEF Next, CleanupStep
<1>2. c.pc = "next" /\ c \in Run /\ registered /\ c.todo \subseteq vols /\ v \in c.todo
  BY AtRun DEF NextVolume, Pcs
<1>3. c' = [c EXCEPT !.pc = "unpublish", !.vol = v, !.todo = @ \ {v}]
  BY DEF NextVolume
<1>4. /\ c' \in Run /\ c'.pc = "unpublish" /\ c'.vol = v
      /\ c'.todo = c.todo \ {v} /\ c'.err = c.err
  BY <1>2, <1>3 DEF Run, Pcs, AtVolume
<1>5. UNCHANGED <<setting, registered, faults>>
  BY DEF NextVolume
<1>6. TypeOK' /\ SettingInv'
  <2>1. c' \in Cleanup
    BY <1>4, CleanupIsRun
  <2> QED  BY <1>1, <1>5, <2>1, FrameStep DEF IInv, TypeOK
<1>7. vols' = vols
  BY <1>5, SettingSame
<1>8. RunInv' /\ VolumeInv'
  BY <1>2, <1>4, <1>5, <1>7 DEF RunInv, VolumeInv
<1>9. ~c.err => \A w \in vols \ c.todo : Clean(w)'
  BY <1>1, <1>2, CleanStays DEF IInv, DoneInv
<1>10. DoneInv'
  BY <1>2, <1>4, <1>5, <1>7, <1>9 DEF DoneInv
<1> QED  BY <1>6, <1>8, <1>10 DEF IInv

\* The run ends; the entry goes when it met no error.
LEMMA EndStep == IInv /\ End => IInv'
<1> SUFFICES ASSUME IInv, End
             PROVE  IInv'
  OBVIOUS
<1>1. [Next]_vars
  BY DEF Next, CleanupStep
<1>2. c.pc = "next" /\ c \in Run /\ c.todo = {} /\ registered' = c.err
  BY AtRun DEF End, Pcs
<1>3. c' = Idle /\ c' \in Cleanup /\ c'.pc = "idle"
  BY DEF End, Idle, Cleanup
<1>4. UNCHANGED <<setting, faults>> /\ registered' \in BOOLEAN
  BY <1>2 DEF End, Run
<1>5. TypeOK' /\ SettingInv'
  BY <1>1, <1>3, <1>4, FrameStep DEF IInv, TypeOK
<1>6. RunInv' /\ VolumeInv'
  BY <1>3 DEF RunInv, VolumeInv, AtVolume, Idle
<1>7. ~registered' => \A w \in vols : Clean(w)'
  <2>1. ~registered' => ~c.err
    BY <1>2
  <2>2. ~registered' => \A w \in vols : Clean(w)
    BY <1>2, <2>1 DEF IInv, DoneInv
  <2> QED  BY <1>1, <2>2, CleanStays
<1>8. DoneInv'
  BY <1>3, <1>4, <1>7, SettingSame DEF DoneInv, AtVolume
<1> QED  BY <1>5, <1>6, <1>8 DEF IInv

\* The rest of the node takes something down, or nothing happens.
LEMMA OtherStep ==
  ASSUME IInv, [Next]_vars, UNCHANGED <<registered, faults, c>>
  PROVE  IInv'
<1>1. UNCHANGED setting /\ mounted' \subseteq mounted /\ dirs' \subseteq dirs
  BY Shrinks
<1>2. TypeOK' /\ SettingInv'
  BY FrameStep DEF IInv, TypeOK
<1>3. vols' = vols /\ gone' = gone /\ driver' = driver
  BY <1>1, SettingSame
<1>4. RunInv'
  BY <1>3 DEF IInv, RunInv
<1>5. VolumeInv'
  BY <1>1, <1>3 DEF IInv, VolumeInv, StagingDirs, PrivateTarget
<1>6. DoneInv'
  BY <1>3, CleanStays DEF IInv, DoneInv
<1> QED  BY <1>2, <1>4, <1>5, <1>6 DEF IInv

\* The invariant holds in every state.
LEMMA IInvHolds == Spec => []IInv
<1>1. ASSUME IInv, [Next]_vars
      PROVE  IInv'
  <2>1. CASE CleanupStep
    BY <1>1, <2>1, BeginStep, UnpublishStep, RemovePrivateStep, FinalCleanupStep,
       EndStep, NextVolumeStep, UnstageStep DEF CleanupStep
  <2>2. ASSUME NEW v \in Volumes, KubeletLoop(v) \/ \E p \in Places : Kubelet(v, p)
        PROVE  IInv'
    BY <1>1, <2>2, OtherStep DEF KubeletLoop, Kubelet
  <2>3. CASE UNCHANGED vars
    BY <1>1, <2>3, OtherStep DEF vars
  <2> QED  BY <1>1, <2>1, <2>2, <2>3 DEF Next
<1> QED  BY InitIInv, <1>1, PTL DEF Spec

-----------------------------------------------------------------------------
\* Every variable of the clean up has its type, and the number of tries of a CSI
\* call stays below CSIMaxRetries.
THEOREM TypeCorrect == Spec => []TypeOK
<1>1. IInv => TypeOK
  BY DEF IInv
<1> QED  BY IInvHolds, <1>1, PTL

\* podmon unstages a volume only after the driver unpublished it (or the share
\* is gone), whatever calls failed, were retried or raced with kubelet.
THEOREM UnpublishedFirst == Spec => []UnstageAfterUnpublish
<1>1. IInv => UnstageAfterUnpublish
  BY DEF IInv, VolumeInv, UnstageAfterUnpublish
<1> QED  BY IInvHolds, <1>1, PTL

\* When the entry of a pod is dropped nothing podmon was to take down is left,
\* for any number of volumes, failed calls and passes.
THEOREM SuccessIsClean == Spec => []SuccessMeansClean
<1>1. ASSUME IInv
      PROVE  SuccessMeansClean
  <2>1. ~registered => \A v \in vols : Clean(v)
    BY <1>1 DEF IInv, DoneInv
  <2>2. dirs \subseteq vols /\ loops \subseteq vols
    BY <1>1 DEF IInv, TypeOK
  <2>3. ~registered => dirs = {} /\ loops = {}
    BY <2>1, <2>2 DEF Clean
  <2> QED  BY <2>1, <2>3 DEF SuccessMeansClean, Clean
<1> QED  BY IInvHolds, <1>1, PTL
=============================================================================
