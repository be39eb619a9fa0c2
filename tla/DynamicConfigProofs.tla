------------------------- MODULE DynamicConfigProofs -------------------------
(***************************************************************************)
(* Proofs for DynamicConfig: what the file holds and podmon rejects never  *)
(* takes effect, and a change of the file does once podmon runs.           *)
(***************************************************************************)
EXTENDS DynamicConfig, TLAPS

\* The type of the program counters, which TypeOK states per thread.
PcOK == pc \in [{"main", "viper"} -> MainPc \cup ViperPc]

\* An event is of a change.
EventsOfChanges == events <= changes

\* Where main is before viper watches the file, and once it gave up.
BeforeWatch == {"read", "watch", "exit"} \cup Updating

\* viper's thread is at rest until main watches the file, and counts as
\* following it only once main is done: main and viper's thread never run
\* updateConfiguration at the same time.
ViperWaits ==
    /\ pc["main"] \in BeforeWatch => events = 0 /\ pc["viper"] = "idle"
    /\ followed => pc["main"] = "run"

\* The parameters viper's thread has already set in the update it is in, or in
\* the one it last ended, are those the file it read asks for.
UpdateSoFar ==
    followed /\ Valid(vc) =>
       /\ pc["viper"] \in {"loss", "skip", "idle"} => pollRate = Asked(vc)[1]
       /\ pc["viper"] \in {"skip", "idle"} => lossThreshold = Asked(vc)[2]
       /\ pc["viper"] = "idle" => skipValidation = Asked(vc)[3]

\* The inductive invariant.
IInv == TypeOK /\ PcOK /\ EventsOfChanges /\ ViperWaits /\ UpdateSoFar

-----------------------------------------------------------------------------
\* At start, before the file is read, everything has its type and viper's thread
\* is at rest.
LEMMA InitIInv == Init => IInv
<1> SUFFICES ASSUME Init
             PROVE  IInv
  OBVIOUS
<1>1. pc = [main |-> "read", viper |-> "idle"] /\ ~followed /\ events = 0
  BY DEF Init
<1>2. pc \in [{"main", "viper"} -> {"read", "idle"}]
      /\ pc["main"] = "read" /\ pc["viper"] = "idle"
  BY <1>1
<1>3. vc \in Content
  BY DEF Init, NoContent, Content, Unset
<1>4. PcOK
  BY <1>2 DEF PcOK, MainPc, ViperPc, Updating
<1>5. pc["main"] \in MainPc /\ pc["viper"] \in ViperPc /\ followed \in BOOLEAN
  <2>1. followed = FALSE
    BY DEF Init
  <2> QED  BY <1>2, <2>1 DEF MainPc, ViperPc
<1>6. changes \in 0..MaxChanges /\ events \in 0..MaxChanges
      /\ pollRate = DefaultPoll /\ lossThreshold = DefaultLoss
  BY ConstantsAssumption DEF Init
<1>7. TypeOK
  BY <1>3, <1>5, <1>6 DEF Init, TypeOK
<1> QED  BY <1>1, <1>2, <1>4, <1>7 DEF Init, IInv, EventsOfChanges, ViperWaits, UpdateSoFar

\* Types: every write of a parameter is of a flag or of a number the update has
\* found greater than zero, and an event is of a change.
LEMMA TypeStep == IInv /\ [Next]_vars => (TypeOK /\ PcOK /\ EventsOfChanges)'
<1> SUFFICES ASSUME IInv, [Next]_vars
             PROVE  (TypeOK /\ PcOK /\ EventsOfChanges)'
  OBVIOUS
<1> USE ConstantsAssumption
    DEF IInv, TypeOK, PcOK, EventsOfChanges, disk, parameters, Goto
<1>1. CASE Change
  <2>1. changes' \in 0..MaxChanges /\ events' \in 0..MaxChanges /\ events' <= changes'
    BY <1>1 DEF Change
  <2> QED  BY <1>1, <2>1 DEF Change
<1>2. CASE Main
  BY <1>2 DEF Main, ReadInConfig, WatchConfig, OnConfigChange, SetFlagPoll,
              SetFlagLoss, MainPc, ViperPc, Updating
<1>3. CASE FileEvent
  <2>1. vc' \in Content
    BY <1>3 DEF FileEvent
  <2>2. events' \in 0..MaxChanges /\ events' <= changes'
    BY <1>3 DEF FileEvent
  <2> QED  BY <1>3, <2>1, <2>2 DEF FileEvent, MainPc, ViperPc, Updating
<1>4. ASSUME NEW t \in {"main", "viper"}, Update(t)
      PROVE  (TypeOK /\ PcOK /\ EventsOfChanges)'
  <2> USE DEF After, MainPc, ViperPc, Updating
  <2>1. CASE SetLogging(t)
    BY <2>1 DEF SetLogging
  <2>2. CASE SetPoll(t)
    <3>1. pollRate' \in {DefaultPoll, FlagPoll} \cup Settings
      BY <2>2 DEF SetPoll, Content, Unset, Rejected
    <3> QED  BY <2>2, <3>1 DEF SetPoll
  <2>3. CASE SetLoss(t)
    <3>1. lossThreshold' \in {DefaultLoss, FlagLoss} \cup Settings
      BY <2>3 DEF SetLoss, Content, Unset, Rejected
    <3> QED  BY <2>3, <3>1 DEF SetLoss
  <2>4. CASE SetSkip(t)
    BY <2>4 DEF SetSkip
  <2> QED  BY <1>4, <2>1, <2>2, <2>3, <2>4 DEF Update
<1>5. CASE UNCHANGED vars
  BY <1>5 DEF vars
<1> QED  BY <1>1, <1>2, <1>3, <1>4, <1>5 DEF Next

\* viper's thread stays at rest until main watches the file.
LEMMA WaitStep == IInv /\ [Next]_vars => ViperWaits'
<1> SUFFICES ASSUME IInv, [Next]_vars
             PROVE  ViperWaits'
  OBVIOUS
<1> USE DEF IInv, TypeOK, PcOK, ViperWaits, BeforeWatch, disk, parameters, Goto,
            MainPc, ViperPc, Updating
<1>1. CASE Change
  BY <1>1 DEF Change
<1>2. CASE Main
  BY <1>2 DEF Main, ReadInConfig, WatchConfig, OnConfigChange, SetFlagPoll, SetFlagLoss
<1>3. CASE FileEvent
  BY <1>3 DEF FileEvent
<1>4. ASSUME NEW t \in {"main", "viper"}, Update(t)
      PROVE  ViperWaits'
  BY <1>4 DEF Update, SetLogging, SetPoll, SetLoss, SetSkip, After
<1>5. CASE UNCHANGED vars
  BY <1>5 DEF vars
<1> QED  BY <1>1, <1>2, <1>3, <1>4, <1>5 DEF Next

\* What an update has set stays set until the next one begins: once main is done
\* only viper's thread writes, it reads the file again only between updates, and
\* it stops half way only at a file that is not valid.
LEMMA UpdateStep == IInv /\ [Next]_vars => UpdateSoFar'
<1> SUFFICES ASSUME IInv, [Next]_vars
             PROVE  UpdateSoFar'
  OBVIOUS
<1> USE DEF IInv, TypeOK, PcOK, ViperWaits, UpdateSoFar, disk, parameters, Goto
<1>1. CASE Change
  BY <1>1 DEF Change, Valid, Asked
<1>2. CASE Main
  BY <1>2 DEF Main, ReadInConfig, WatchConfig, OnConfigChange, SetFlagPoll,
              SetFlagLoss, BeforeWatch, Updating
<1>3. CASE FileEvent
  BY <1>3 DEF FileEvent
<1>4. CASE Update("main")
  BY <1>4 DEF Update, SetLogging, SetPoll, SetLoss, SetSkip
<1>5. CASE Update("viper")
  <2> USE DEF After, Valid, Asked, ViperPc, Updating
  <2>1. CASE SetLogging("viper")
    BY <2>1 DEF SetLogging
  <2>2. CASE SetPoll("viper")
    BY <2>2 DEF SetPoll
  <2>3. CASE SetLoss("viper")
    BY <2>3 DEF SetLoss
  <2>4. CASE SetSkip("viper")
    BY <2>4 DEF SetSkip
  <2> QED  BY <1>5, <2>1, <2>2, <2>3, <2>4 DEF Update
<1>6. CASE UNCHANGED vars
  BY <1>6 DEF vars, Valid, Asked
<1> QED  BY <1>1, <1>2, <1>3, <1>4, <1>5, <1>6 DEF Next

\* The invariant is inductive.
LEMMA IInvHolds == Spec => []IInv
<1>1. IInv /\ [Next]_vars => IInv'
  BY TypeStep, WaitStep, UpdateStep DEF IInv
<1> QED  BY InitIInv, <1>1, PTL DEF Spec

-----------------------------------------------------------------------------
\* Whatever the files and the flags hold, and whichever of main and viper's thread
\* writes, a poll rate or a loss threshold of the file that updateConfiguration
\* rejects is never the one in effect.
THEOREM TypeCorrect == Spec => []TypeOK
<1>1. IInv => TypeOK
  BY DEF IInv
<1> QED  BY IInvHolds, <1>1, PTL

\* Once podmon runs, every change of the file that viper handled took effect,
\* for any number of changes, in every mode and whatever the flags are.
THEOREM ChangesAreFollowed == Spec => []ChangesFollowed
<1>1. IInv => ChangesFollowed
  BY DEF IInv, UpdateSoFar, ChangesFollowed, Settled, parameters, Asked
<1> QED  BY IInvHolds, <1>1, PTL
=============================================================================
