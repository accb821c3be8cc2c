---------------------------- MODULE ConfigStore -----------------------------
(***************************************************************************)
(* The configuration of the gateway: the file it starts from, the running  *)
(* configuration with the services registered for it, the version history, *)
(* and everybody who changes them - the admin API (upserts and deletes,    *)
(* rollback, publish with and without persisting), the goroutine that      *)
(* watches the file, the operator's editor, and restarts.                  *)
(*                                                                         *)
(* A configuration is opaque but for the services it defines and for which *)
(* of the three places that can refuse it does: validation, the            *)
(* construction of the rate limit service, and the construction of the     *)
(* auth plugin, which comes after the services were synchronised.          *)
(*                                                                         *)
(* All changes run under Gateway.mu. A publish holds it over several steps *)
(* (apply, save, roll back), between which the process may crash and       *)
(* readers that use the lock-free snapshot may run.                        *)
(***************************************************************************)
EXTENDS Integers, Sequences, FiniteSets

CONSTANTS
  Services,
  Configs,
  ServicesOf,        \* services a configuration defines
  Valid,             \* accepted by validateGatewayConfig and the transcoding check
  LimiterOK,         \* every rate limit rule has a known type
  AuthOK,            \* validate_url parses
  Boot,              \* first content of the file
  Main, Alt,         \* ./config/config.yml, and another file to persist to
  None,
  MaxHistory,        \* maxHistory (20 in the code)
  MaxOps,            \* bound: admin operations
  MaxEdits,          \* bound: edits of the file
  MaxCrashes         \* bound: restarts

Paths      == {Main, Alt}
Applicable == Valid \cap LimiterOK \cap AuthOK

ASSUME ServicesAssumption == ServicesOf \in [Configs -> SUBSET Services]
ASSUME ConfigsAssumption ==
  /\ Valid \subseteq Configs
  /\ LimiterOK \subseteq Configs
  /\ AuthOK \subseteq Configs
  /\ Boot \in Applicable
ASSUME NoneAssumption    == None \notin Configs \cup Paths /\ Main # Alt
ASSUME HistoryAssumption == MaxHistory \in Nat \ {0}
ASSUME BoundAssumption ==
  /\ MaxOps \in Nat
  /\ MaxEdits \in Nat
  /\ MaxCrashes \in Nat

VARIABLES
  file,        \* content and mtime per path
  writes,      \* writes so far: the next mtime
  up,          \* the process runs
  config,      \* g.config, and the snapshot the requests use
  registered,  \* configuration each service's checker and balancer come from
  history,     \* configHistory
  counter,     \* versionCounter
  reloadPath,
  watch,       \* the hot reload goroutine
  publish,     \* the handler of /admin/config/apply that holds Gateway.mu
  ops, edits, crashes,   \* see the bounds
  refused,     \* observer: the auth plugin refused the latest apply
  edited       \* observer: mtime of the last edit that the watcher was there for
               \*   or that came before the start, and of what was loaded last

runtime == <<config, registered, history, counter, refused>>
bounds  == <<ops, edits, crashes>>
vars == <<file, writes, up, runtime, reloadPath, watch, publish, bounds, edited>>

Entry == [version : Nat, config : Configs]

TypeOK ==
  /\ file \in [Paths -> [content : Configs \cup {None}, mtime : Nat]]
  /\ writes \in Nat
  /\ up \in BOOLEAN
  /\ config \in Configs \cup {None}
  /\ registered \in [Services -> Configs \cup {None}]
  /\ history \in Seq(Entry) /\ Len(history) <= MaxHistory
  /\ counter \in Nat
  /\ reloadPath \in Paths
  /\ watch \in [pc : {"off", "starting", "idle", "load", "apply"}, seen : Nat,
                stat : Nat, content : Configs \cup {None}, mtime : Nat]
  /\ publish \in [pc : {"idle", "save", "rollback"}, before : Configs \cup {None},
                  path : Paths, default : BOOLEAN]
  /\ ops \in 0 .. MaxOps
  /\ edits \in 0 .. MaxEdits
  /\ crashes \in 0 .. MaxCrashes
  /\ refused \in BOOLEAN
  /\ edited \in [last : Nat, loaded : Nat]

NoWatch   == [pc |-> "off", seen |-> 0, stat |-> 0, content |-> None, mtime |-> 0]
NoPublish == [pc |-> "idle", before |-> None, path |-> Main, default |-> FALSE]
Nothing   == [s \in Services |-> None]

Init ==
  /\ file = [p \in Paths |-> [content |-> IF p = Main THEN Boot ELSE None, mtime |-> 0]]
  /\ writes = 0
  /\ up = FALSE
  /\ config = None
  /\ registered = Nothing
  /\ history = <<>>
  /\ counter = 0
  /\ reloadPath = Main
  /\ watch = NoWatch
  /\ publish = NoPublish
  /\ ops = 0 /\ edits = 0 /\ crashes = 0
  /\ refused = FALSE
  /\ edited = [last |-> 0, loaded |-> 0]

-----------------------------------------------------------------------------
(* applyConfigLocked                                                       *)

\* Mutant: the history is never trimmed.
TrimNever(h) == h

\* Keep the newest MaxHistory entries.
Trim(h) == IF Len(h) > MaxHistory THEN SubSeq(h, Len(h) - MaxHistory + 1, Len(h)) ELSE h

\* Mutant: versions numbered by the length of the history.
RecordByLength(c) ==
  /\ counter' = counter + 1
  /\ history' = Trim(Append(history, [version |-> Len(history) + 1, config |-> c]))

\* recordConfigSnapshotLocked
Record(c) ==
  /\ counter' = counter + 1
  /\ history' = Trim(Append(history, [version |-> counter + 1, config |-> c]))

\* Mutant: services that the new configuration lacks stay.
SyncedAdding(old, new) ==
  [s \in Services |-> IF s \in ServicesOf[new] THEN new ELSE registered[s]]

\* syncServicesLocked: register what the new configuration defines, then remove
\* what only the old one does. A service that neither defines is left alone.
Synced(old, new) ==
  [s \in Services |->
     IF s \in ServicesOf[new] THEN new
     ELSE IF s \in ServicesOf[old] THEN None
     ELSE registered[s]]

\* The configuration gets as far as the services.
Synchronised(c) == c \in Valid \cap LimiterOK

\* Mutant: the version is recorded before the auth plugin is built.
ApplyRecordingEarly(c) ==
  /\ refused' = IF Synchronised(c) THEN c \notin AuthOK ELSE refused
  /\ registered' = IF Synchronised(c) THEN Synced(config, c) ELSE registered
  /\ config' = IF c \in Applicable THEN c ELSE config
  /\ IF Synchronised(c) THEN Record(c) ELSE UNCHANGED <<history, counter>>

\* Refusals before the services are synchronised change nothing; the auth plugin
\* refuses after it.
Apply(c) ==
  /\ refused' = IF Synchronised(c) THEN c \notin AuthOK ELSE refused
  /\ registered' = IF Synchronised(c) THEN Synced(config, c) ELSE registered
  /\ IF c \in Applicable
     THEN config' = c /\ Record(c)
     ELSE UNCHANGED <<config, history, counter>>

Write(p, c) ==
  /\ writes' = writes + 1
  /\ file' = [file EXCEPT ![p] = [content |-> c, mtime |-> writes + 1]]

Unlocked == up /\ publish.pc = "idle"

-----------------------------------------------------------------------------
(* The process.                                                            *)

\* main: Load, NewGateway, SetConfigPath, StartAutoReload. A file that cannot be
\* applied is fatal. The watcher's goroutine has yet to look at the file.
Start ==
  /\ ~up
  /\ file[Main].content \in Applicable
  /\ up' = TRUE
  /\ config' = file[Main].content
  /\ registered' = [s \in Services |->
       IF s \in ServicesOf[file[Main].content] THEN file[Main].content ELSE None]
  /\ counter' = 1
  /\ history' = <<[version |-> 1, config |-> file[Main].content]>>
  /\ refused' = FALSE
  /\ reloadPath' = Main
  /\ watch' = [NoWatch EXCEPT !.pc = "starting"]
  /\ edited' = [edited EXCEPT !.loaded = file[Main].mtime]
  /\ UNCHANGED <<file, writes, publish, bounds>>

Crash ==
  /\ up
  /\ crashes < MaxCrashes
  /\ crashes' = crashes + 1
  /\ up' = FALSE
  /\ config' = None /\ registered' = Nothing /\ history' = <<>> /\ counter' = 0
  /\ refused' = FALSE
  /\ reloadPath' = Main
  /\ watch' = NoWatch /\ publish' = NoPublish
  /\ UNCHANGED <<file, writes, ops, edits, edited>>

\* The operator edits the configuration file.
EditFile(c) ==
  /\ edits < MaxEdits
  /\ edits' = edits + 1
  /\ Write(Main, c)
  /\ edited' = [edited EXCEPT !.last = IF watch.pc = "starting" THEN @ ELSE writes + 1]
  /\ UNCHANGED <<up, runtime, reloadPath, watch, publish, ops, crashes>>

-----------------------------------------------------------------------------
(* The hot reload goroutine.                                               *)

WatchStart ==
  /\ watch.pc = "starting"
  /\ watch' = [watch EXCEPT !.pc = "idle", !.seen = file[Main].mtime]
  /\ UNCHANGED <<file, writes, up, runtime, reloadPath, publish, bounds, edited>>

\* A tick that finds a newer file.
WatchStat ==
  /\ watch.pc = "idle"
  /\ file[Main].mtime > watch.seen
  /\ watch' = [watch EXCEPT !.pc = "load", !.stat = file[Main].mtime]
  /\ UNCHANGED <<file, writes, up, runtime, reloadPath, publish, bounds, edited>>

WatchLoad ==
  /\ watch.pc = "load"
  /\ watch' = [watch EXCEPT !.pc = "apply", !.content = file[Main].content,
                            !.mtime = file[Main].mtime]
  /\ UNCHANGED <<file, writes, up, runtime, reloadPath, publish, bounds, edited>>

\* Mutant: lastModTime becomes the file's time at the end of the reload.
LastModTimeLate(done) == file[Main].mtime

\* lastModTime becomes the time of the stat, and only when the reload succeeds.
LastModTime(done) == IF done THEN watch.stat ELSE watch.seen

WatchApply ==
  LET done == watch.content \in Applicable IN
  /\ watch.pc = "apply"
  /\ Unlocked
  /\ Apply(watch.content)
  /\ reloadPath' = IF done THEN Main ELSE reloadPath
  /\ watch' = [NoWatch EXCEPT !.pc = "idle", !.seen = LastModTime(done)]
  /\ edited' = [edited EXCEPT !.loaded = IF done THEN watch.mtime ELSE @]
  /\ UNCHANGED <<file, writes, up, publish, bounds>>

-----------------------------------------------------------------------------
(* The admin API.                                                          *)

Operation == Unlocked /\ ops < MaxOps /\ ops' = ops + 1

\* mutateConfig: an upsert or a delete turns the running configuration into c.
MutateConfig(c) ==
  /\ Operation
  /\ Apply(c)
  /\ UNCHANGED <<file, writes, up, reloadPath, watch, publish, edits, crashes, edited>>

\* rollbackToVersionLocked searches from the newest entry backwards.
Rollback(version) ==
  LET found == {i \in DOMAIN history : history[i].version = version}
      newest == CHOOSE i \in found : \A j \in found : j <= i
  IN
  /\ Operation
  /\ found # {}
  /\ Apply(history[newest].config)
  /\ UNCHANGED <<file, writes, up, reloadPath, watch, publish, edits, crashes, edited>>

\* Publish for this process only.
PublishToMemory(c) ==
  /\ Operation
  /\ Apply(c)
  /\ UNCHANGED <<file, writes, up, reloadPath, watch, publish, edits, crashes, edited>>

\* Publish and persist; without a persist_path reloadPath is used. The rollback
\* also runs when it was the apply that failed.
PublishAndPersist(c, path) ==
  /\ Operation
  /\ Apply(c)
  /\ publish' = [pc |-> IF c \in Applicable THEN "save" ELSE "rollback",
                 before |-> config,
                 path |-> IF path = None THEN reloadPath ELSE path,
                 default |-> path = None]
  /\ UNCHANGED <<file, writes, up, reloadPath, watch, edits, crashes, edited>>

\* config.Save ends in an atomic rename.
Save ==
  /\ publish.pc = "save"
  /\ Write(publish.path, config)
  /\ reloadPath' = publish.path
  /\ publish' = NoPublish
  /\ UNCHANGED <<up, runtime, watch, bounds, edited>>

\* Mutant: a failed save is reported without rolling back.
SaveFailsKeeping ==
  /\ publish.pc = "save"
  /\ publish' = NoPublish
  /\ UNCHANGED <<file, writes, up, runtime, reloadPath, watch, bounds, edited>>

SaveFails ==
  /\ publish.pc = "save"
  /\ publish' = [publish EXCEPT !.pc = "rollback"]
  /\ UNCHANGED <<file, writes, up, runtime, reloadPath, watch, bounds, edited>>

\* Mutant: the configuration is put back without being applied.
RollbackAssigning ==
  /\ publish.pc = "rollback"
  /\ config' = publish.before
  /\ publish' = NoPublish
  /\ UNCHANGED <<file, writes, up, registered, history, counter, refused, reloadPath, watch,
                 bounds, edited>>

RollbackPublish ==
  /\ publish.pc = "rollback"
  /\ Apply(publish.before)
  /\ publish' = NoPublish
  /\ UNCHANGED <<file, writes, up, reloadPath, watch, bounds, edited>>

Next ==
  \/ Start
  \/ Crash
  \/ WatchStart
  \/ WatchStat
  \/ WatchLoad
  \/ WatchApply
  \/ \E c \in Configs :
       \/ EditFile(c)
       \/ MutateConfig(c)
       \/ PublishToMemory(c)
       \/ \E path \in {None, Alt} : PublishAndPersist(c, path)
  \/ \E i \in DOMAIN history : Rollback(history[i].version)
  \/ Save
  \/ SaveFails
  \/ RollbackPublish

Spec == Init /\ [][Next]_vars

\* The ticker fires, a publish ends, and Gateway.mu starves nobody.
Fairness ==
  /\ WF_vars(WatchStart)
  /\ WF_vars(WatchStat)
  /\ WF_vars(WatchLoad)
  /\ SF_vars(WatchApply)
  /\ WF_vars(Save \/ SaveFails \/ RollbackPublish)

LiveSpec == Spec /\ Fairness

-----------------------------------------------------------------------------
(* Properties.                                                             *)

\* The configuration that serves requests is the one the newest version names,
\* whichever of the writers came last and however it ended.
NewestIsCurrent ==
  up => /\ history # <<>>
        /\ history[Len(history)].config = config
        /\ history[Len(history)].version = counter

\* A version names one configuration: trimming and rollbacks never reuse a
\* number, so the search from the newest end finds the only entry.
VersionsIdentify ==
  \A i, j \in DOMAIN history : i < j => history[i].version < history[j].version

\* Every version that is offered for rollback can still be applied.
HistoryReplayable == \A i \in DOMAIN history : history[i].config \in Applicable

\* Persisting is all or nothing: when the handler lets go of the lock, either the
\* file holds the running configuration, or both are what they were before.
PublishAllOrNothing ==
  [][publish.pc # "idle" /\ publish'.pc = "idle" /\ up' =>
       \/ file'[publish.path].content = config' /\ reloadPath' = publish.path
       \/ file' = file /\ config' = publish.before]_vars

\* Checker and balancers serve the running configuration: its services, as it
\* defines them, unless the auth plugin has just refused another one, and besides
\* them at most services of a configuration that the auth plugin refused.
ServicesFollowConfig ==
  up =>
    /\ ~refused => \A s \in ServicesOf[config] : registered[s] = config
    /\ \A s \in Services :
         registered[s] \in Applicable => registered[s] = config /\ s \in ServicesOf[config]

\* "Publishing failed, the configuration in memory was rolled back" (admin.go):
\* then the services are those of the configuration it was rolled back to.
RolledBackMeansBack ==
  [][RollbackPublish => registered' = [s \in Services |->
       IF s \in ServicesOf[config'] THEN config' ELSE None]]_vars

\* Hot reload: an edit that can be applied is loaded, unless it is overwritten or
\* the process ends first - although the watcher stats, loads and applies at
\* different moments. An edit between the start and its first stat is the
\* exception: the watcher takes the time of that edit for that of the old content.
EditPending ==
  /\ up
  /\ file[Main].mtime = edited.last
  /\ file[Main].content \in Applicable
  /\ edited.loaded # edited.last

EveryEditIsLoaded == EditPending ~> ~EditPending
=============================================================================
