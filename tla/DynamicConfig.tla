---------------------------- MODULE DynamicConfig ----------------------------
(***************************************************************************)
(* The parameters of podmon (cmd/podmon/main.go): command-line flags, the  *)
(* driver configuration file read at start (setupDynamicConfigUpdate,      *)
(* updateConfiguration) and read again by the thread viper starts whenever *)
(* the file changes.  That thread runs beside the rest of main, which sets *)
(* two of the parameters from the flags.                                   *)
(*                                                                         *)
(* Abstractions: a number the code rejects (not an integer, or not greater *)
(* than zero) is 0; of the logging parameters only whether the log level   *)
(* is recognised is kept, which decides whether the rest is looked at.     *)
(***************************************************************************)
EXTENDS Integers

CONSTANTS
    Settings,    \* the valid numbers a file may hold
    FlagPoll, FlagLoss, FlagSkip, \* the command-line flags, which main does not check
    Mode,        \* "controller", "node" or "standalone"
    MaxChanges   \* bound: changes of the file

ASSUME ConstantsAssumption ==
    /\ Settings \subseteq Nat \ {0}
    /\ FlagPoll \in Int /\ FlagLoss \in Int /\ FlagSkip \in BOOLEAN
    /\ Mode \in {"controller", "node", "standalone"} /\ MaxChanges \in Nat

VARIABLES
    file,     \* the configuration file
    changes,  \* times it was changed
    events,   \* undelivered file events
    vc,       \* what viper last read of it
    pollRate, lossThreshold, skipValidation,
    pc,       \* where main and viper's thread are
    followed  \* history: viper's thread began an update since main was done

parameters == <<pollRate, lossThreshold, skipValidation>>
disk == <<file, changes, events>>
vars == <<disk, vc, parameters, pc, followed>>

-----------------------------------------------------------------------------
Unset == -1
Rejected == 0
Content == [level : {"ok", "bad"},
            poll : {Unset, Rejected} \cup Settings,
            loss : {Unset, Rejected} \cup Settings,
            skip : {"unset", "bad", "true", "false"}]
\* What a variable holds before main sets it.
DefaultPoll == 10
DefaultLoss == 3
NoContent == [level |-> "ok", poll |-> Unset, loss |-> Unset, skip |-> "unset"]
Unreadable == [broken |-> TRUE]

Updating == {"log", "poll", "loss", "skip"}
MainPc == {"read", "watch", "callback", "flagPoll", "flagLoss", "run", "exit"} \cup Updating
ViperPc == {"idle"} \cup Updating

\* Where thread t goes when updateConfiguration returns an error, or no error.
After(t, failed) ==
    IF t = "viper" THEN "idle" ELSE IF failed THEN "exit" ELSE "watch"
Goto(t, next) == pc' = [pc EXCEPT ![t] = next]

\* The file is changed: an event, once viper watches.
Change ==
    /\ changes < MaxChanges /\ changes' = changes + 1
    /\ file' \in (Content \cup {Unreadable}) \ {file}
    /\ events' = IF pc["main"] \in {"callback", "flagPoll", "flagLoss", "run"}
                 THEN events + 1 ELSE events
    /\ UNCHANGED <<vc, parameters, pc, followed>>

-----------------------------------------------------------------------------
(* setupDynamicConfigUpdate and the rest of main. *)

ReadInConfig ==
    /\ pc["main"] = "read"
    /\ IF file = Unreadable
       THEN Goto("main", "exit") /\ UNCHANGED vc
       ELSE Goto("main", "log") /\ vc' = file
    /\ UNCHANGED <<disk, parameters, followed>>

WatchConfig ==
    /\ pc["main"] = "watch" /\ Goto("main", "callback")
    /\ UNCHANGED <<disk, vc, parameters, followed>>

OnConfigChange ==
    /\ pc["main"] = "callback" /\ Goto("main", "flagPoll")
    /\ UNCHANGED <<disk, vc, parameters, followed>>

SetFlagPoll ==
    /\ pc["main"] = "flagPoll" /\ Goto("main", "flagLoss")
    /\ pollRate' = FlagPoll
    /\ UNCHANGED <<disk, vc, lossThreshold, skipValidation, followed>>

SetFlagLoss ==
    /\ pc["main"] = "flagLoss" /\ Goto("main", "run")
    /\ lossThreshold' = FlagLoss
    /\ UNCHANGED <<disk, vc, pollRate, skipValidation, followed>>

\* viper's thread: read the file again, or keep what was read if it cannot be;
\* call back in either case, once there is a callback.
FileEvent ==
    /\ pc["viper"] = "idle" /\ events > 0 /\ events' = events - 1
    /\ vc' = IF file = Unreadable THEN vc ELSE file
    /\ Goto("viper", IF pc["main"] = "callback" THEN "idle" ELSE "log")
    /\ followed' = (followed \/ pc["main"] = "run")
    /\ UNCHANGED <<file, changes, parameters>>

-----------------------------------------------------------------------------
(* updateConfiguration, run by thread t. *)

\* setLoggingParameters, in the two modes that have such parameters.
SetLogging(t) ==
    /\ pc[t] = "log"
    /\ Goto(t, IF Mode # "standalone" /\ vc.level = "bad"
               THEN After(t, TRUE) ELSE "poll")
    /\ UNCHANGED <<disk, vc, parameters, followed>>

\* Mutant of SetPoll: the value is not checked.
SetPollUnchecked(t) ==
    /\ pc[t] = "poll"
    /\ pollRate' = IF vc.poll = Unset THEN FlagPoll ELSE vc.poll
    /\ Goto(t, "loss")
    /\ UNCHANGED <<disk, vc, lossThreshold, skipValidation, followed>>

SetPoll(t) ==
    /\ pc[t] = "poll"
    /\ IF vc.poll = Rejected
       THEN Goto(t, After(t, TRUE)) /\ UNCHANGED pollRate
       ELSE /\ pollRate' = IF vc.poll = Unset THEN FlagPoll ELSE vc.poll
            /\ Goto(t, "loss")
    /\ UNCHANGED <<disk, vc, lossThreshold, skipValidation, followed>>

\* Mutant of SetLoss: a parameter the file no longer sets keeps its value.
SetLossIfSet(t) ==
    /\ pc[t] = "loss"
    /\ IF vc.loss = Rejected
       THEN Goto(t, After(t, TRUE)) /\ UNCHANGED lossThreshold
       ELSE /\ lossThreshold' = IF vc.loss = Unset THEN lossThreshold ELSE vc.loss
            /\ Goto(t, "skip")
    /\ UNCHANGED <<disk, vc, pollRate, skipValidation, followed>>

SetLoss(t) ==
    /\ pc[t] = "loss"
    /\ IF vc.loss = Rejected
       THEN Goto(t, After(t, TRUE)) /\ UNCHANGED lossThreshold
       ELSE /\ lossThreshold' = IF vc.loss = Unset THEN FlagLoss ELSE vc.loss
            /\ Goto(t, "skip")
    /\ UNCHANGED <<disk, vc, pollRate, skipValidation, followed>>

SetSkip(t) ==
    /\ pc[t] = "skip"
    /\ IF vc.skip = "bad"
       THEN Goto(t, After(t, TRUE)) /\ UNCHANGED skipValidation
       ELSE /\ skipValidation' = IF vc.skip = "unset" THEN FlagSkip ELSE vc.skip = "true"
            /\ Goto(t, After(t, FALSE))
    /\ UNCHANGED <<disk, vc, pollRate, lossThreshold, followed>>

-----------------------------------------------------------------------------
Init ==
    /\ file \in Content \cup {Unreadable} /\ changes = 0 /\ events = 0
    /\ vc = NoContent
    /\ pollRate = DefaultPoll /\ lossThreshold = DefaultLoss /\ skipValidation = FALSE
    /\ pc = [main |-> "read", viper |-> "idle"] /\ followed = FALSE

Main == ReadInConfig \/ WatchConfig \/ OnConfigChange \/ SetFlagPoll \/ SetFlagLoss
Update(t) == SetLogging(t) \/ SetPoll(t) \/ SetLoss(t) \/ SetSkip(t)

Next == Change \/ Main \/ FileEvent \/ \E t \in {"main", "viper"} : Update(t)

Spec == Init /\ [][Next]_vars

-----------------------------------------------------------------------------
(* Properties. *)

\* Every variable has its type.  In particular the poll rate and the loss
\* threshold are at all times what a flag says or a number of the file that is
\* greater than zero: one that updateConfiguration rejects never takes effect,
\* not even for a moment.
TypeOK ==
    /\ file \in Content \cup {Unreadable} /\ vc \in Content
    /\ changes \in 0..MaxChanges /\ events \in 0..MaxChanges
    /\ pollRate \in {DefaultPoll, FlagPoll} \cup Settings
    /\ lossThreshold \in {DefaultLoss, FlagLoss} \cup Settings
    /\ skipValidation \in BOOLEAN
    /\ pc["main"] \in MainPc /\ pc["viper"] \in ViperPc /\ followed \in BOOLEAN

\* The parameters a valid file asks for, the flags filling in for it.
Valid(c) ==
    /\ c.level = "ok" \/ Mode = "standalone"
    /\ c.poll # Rejected /\ c.loss # Rejected /\ c.skip # "bad"
Asked(c) ==
    <<IF c.poll = Unset THEN FlagPoll ELSE c.poll,
      IF c.loss = Unset THEN FlagLoss ELSE c.loss,
      IF c.skip = "unset" THEN FlagSkip ELSE c.skip = "true">>

Settled == pc["main"] = "run" /\ pc["viper"] = "idle" /\ events = 0

\* Once podmon runs, a change of the file takes effect: when its event is
\* handled the parameters are those of the file viper read, also for what the
\* file no longer sets and after files that were rejected half way.
ChangesFollowed == Settled /\ followed /\ Valid(vc) => parameters = Asked(vc)
=============================================================================
