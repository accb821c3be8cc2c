------------------------- MODULE ConfigStoreProofs --------------------------
(***************************************************************************)
(* Theorems about ConfigStore for every set of configurations and services *)
(* and any number of operations, edits and restarts.                       *)
(***************************************************************************)
EXTENDS ConfigStore, SequenceTheorems, TLAPS

\* What a publish that holds the lock may put back.
PublishCanEnd == publish.pc # "idle" => up /\ publish.before \in Applicable

\* The inductive invariant. PublishCanEnd is what the others lack: a publish that fails
\* applies the configuration it remembered, and that must not be refused in turn.
IInv ==
  /\ TypeOK
  /\ NewestIsCurrent /\ VersionsIdentify /\ HistoryReplayable /\ ServicesFollowConfig
  /\ PublishCanEnd

LEMMA ApplicableIsConfig == Applicable \subseteq Configs
BY ConfigsAssumption DEF Applicable

-----------------------------------------------------------------------------
(* The history                                                             *)

Increasing(h) == \A i, j \in DOMAIN h : i < j => h[i].version < h[j].version
Replayable(h) == \A i \in DOMAIN h : h[i].config \in Applicable
EndsIn(h, c, n) == h # <<>> /\ h[Len(h)].config = c /\ h[Len(h)].version = n

\* Dropping the oldest entries keeps the order, the entries and the newest one.
LEMMA TrimLemma ==
  ASSUME NEW h \in Seq(Entry), Len(h) <= MaxHistory + 1, Increasing(h), Replayable(h),
         NEW c, NEW n, EndsIn(h, c, n)
  PROVE  /\ Trim(h) \in Seq(Entry) /\ Len(Trim(h)) <= MaxHistory
         /\ Increasing(Trim(h)) /\ Replayable(Trim(h)) /\ EndsIn(Trim(h), c, n)
<1>1. CASE Len(h) <= MaxHistory
  BY <1>1, HistoryAssumption DEF Trim
<1>2. CASE Len(h) > MaxHistory
  <2> DEFINE t == SubSeq(h, 2, Len(h))
  <2>1. Len(h) = MaxHistory + 1 /\ Len(h) \in Nat /\ MaxHistory \in Nat \ {0}
    BY <1>2, HistoryAssumption
  <2>2. Trim(h) = t
    BY <2>1 DEF Trim
  <2>3. /\ t \in Seq(Entry) /\ Len(t) = MaxHistory
        /\ \A i \in 1 .. MaxHistory : t[i] = h[i + 1]
    <3>1. \A i \in 2 .. Len(h) : h[i] \in Entry
      BY <2>1
    <3>2. /\ t \in Seq(Entry) /\ Len(t) = IF 2 <= Len(h) THEN Len(h) - 2 + 1 ELSE 0
          /\ \A i \in 1 .. Len(h) - 2 + 1 : t[i] = h[2 + i - 1]
      BY <3>1, <2>1, SubSeqProperties, 2 \in Int, Len(h) \in Int
    <3> QED BY <3>2, <2>1
  <2>4. DOMAIN t = 1 .. MaxHistory /\ DOMAIN h = 1 .. MaxHistory + 1
    BY <2>1, <2>3
  <2> HIDE DEF t
  <2>5. Increasing(t)
    <3> SUFFICES ASSUME NEW i \in DOMAIN t, NEW j \in DOMAIN t, i < j
                 PROVE  t[i].version < t[j].version
      BY DEF Increasing
    <3>1. i + 1 \in DOMAIN h /\ j + 1 \in DOMAIN h /\ i + 1 < j + 1
      BY <2>1, <2>4
    <3>2. t[i] = h[i + 1] /\ t[j] = h[j + 1]
      BY <2>3, <2>4
    <3> QED BY <3>1, <3>2 DEF Increasing
  <2>6. Replayable(t)
    BY <2>1, <2>3, <2>4 DEF Replayable
  <2>7. EndsIn(t, c, n)
    BY <2>1, <2>3, <2>4 DEF EndsIn
  <2> QED BY <2>1, <2>2, <2>3, <2>5, <2>6, <2>7
<1> QED BY <1>1, <1>2, HistoryAssumption

\* Recording a configuration keeps the history in order, and it ends in what was recorded.
LEMMA RecordLemma ==
  ASSUME TypeOK, VersionsIdentify, HistoryReplayable,
         NEW c \in Applicable, Record(c),
         history # <<>>, history[Len(history)].version = counter
  PROVE  /\ counter' \in Nat /\ history' \in Seq(Entry) /\ Len(history') <= MaxHistory
         /\ Increasing(history') /\ Replayable(history') /\ EndsIn(history', c, counter')
<1> DEFINE e == [version |-> counter + 1, config |-> c]
           h == Append(history, e)
<1>1. /\ history \in Seq(Entry) /\ Len(history) <= MaxHistory /\ counter \in Nat
      /\ e \in Entry /\ e.version = counter + 1 /\ e.config = c
  BY ApplicableIsConfig DEF TypeOK, Entry
<1>2. /\ h \in Seq(Entry) /\ Len(h) = Len(history) + 1 /\ h # <<>>
      /\ \A i \in 1 .. Len(history) : h[i] = history[i]
      /\ h[Len(history) + 1] = e
  BY <1>1, AppendProperties
<1>3. DOMAIN h = 1 .. Len(history) + 1 /\ DOMAIN history = 1 .. Len(history) /\ Len(history) \in Nat
  BY <1>1, <1>2
<1>4. counter' = counter + 1 /\ history' = Trim(h)
  BY DEF Record
<1> HIDE DEF e, h
<1>5. Increasing(h)
  <2> SUFFICES ASSUME NEW i \in DOMAIN h, NEW j \in DOMAIN h, i < j
               PROVE  h[i].version < h[j].version
    BY DEF Increasing
  <2>1. i \in DOMAIN history /\ h[i] = history[i] /\ h[i].version \in Nat
    <3>1. i \in 1 .. Len(history)
      BY <1>3
    <3>2. history[i] \in Entry
      BY <3>1, <1>1
    <3> QED BY <3>1, <3>2, <1>2, <1>3 DEF Entry
  <2>2. CASE j \in DOMAIN history
    BY <2>1, <2>2, <1>2, <1>3 DEF VersionsIdentify
  <2>3. CASE j = Len(history) + 1
    <3>1. i = Len(history) \/ i < Len(history)
      BY <2>1, <1>3
    <3>2. Len(history) \in DOMAIN history
      BY <1>3, <2>1
    <3>3. history[i].version <= counter
      BY <3>1, <3>2, <2>1, <1>1 DEF VersionsIdentify
    <3> QED BY <3>3, <2>1, <2>3, <1>1, <1>2
  <2> QED BY <2>2, <2>3, <1>3
<1>6. Replayable(h)
  BY <1>1, <1>2, <1>3 DEF Replayable, HistoryReplayable
<1>7. EndsIn(h, c, counter + 1)
  BY <1>1, <1>2 DEF EndsIn
<1>8. Len(h) <= MaxHistory + 1
  BY <1>1, <1>2, HistoryAssumption
<1> QED BY <1>1, <1>2, <1>4, <1>5, <1>6, <1>7, <1>8, TrimLemma

-----------------------------------------------------------------------------
(* Applying a configuration                                                *)

\* What applyConfigLocked keeps, whether it refuses the configuration or not; and a
\* configuration that can be applied is the running one afterwards.
LEMMA ApplyLemma ==
  ASSUME IInv, up, up', NEW c \in Configs \cup {None}, Apply(c)
  PROVE  /\ config' \in Configs \cup {None} /\ registered' \in [Services -> Configs \cup {None}]
         /\ history' \in Seq(Entry) /\ Len(history') <= MaxHistory
         /\ counter' \in Nat /\ refused' \in BOOLEAN
         /\ NewestIsCurrent' /\ VersionsIdentify' /\ HistoryReplayable' /\ ServicesFollowConfig'
         /\ c \in Applicable => config' = c
<1>1. /\ history # <<>> /\ history[Len(history)].config = config
      /\ history[Len(history)].version = counter
      /\ history \in Seq(Entry)
  BY DEF IInv, NewestIsCurrent, TypeOK
<1>2. config \in Applicable
  <2>1. Len(history) \in DOMAIN history
    BY <1>1
  <2> QED BY <2>1, <1>1 DEF IInv, HistoryReplayable
<1>3. registered' \in [Services -> Configs \cup {None}] /\ refused' \in BOOLEAN
  BY ConfigsAssumption DEF IInv, TypeOK, Apply, Synced, Synchronised
<1>4. None \notin Applicable
  BY NoneAssumption, ApplicableIsConfig
<1>5. CASE c \in Applicable
  <2>1. config' = c /\ Record(c) /\ refused' = FALSE /\ registered' = Synced(config, c)
    BY <1>5 DEF Apply, Applicable, Synchronised
  <2>2. /\ counter' \in Nat /\ history' \in Seq(Entry) /\ Len(history') <= MaxHistory
        /\ Increasing(history') /\ Replayable(history') /\ EndsIn(history', c, counter')
    BY <1>1, <1>5, <2>1, RecordLemma DEF IInv
  <2>3. NewestIsCurrent' /\ VersionsIdentify' /\ HistoryReplayable'
    BY <2>1, <2>2
       DEF NewestIsCurrent, VersionsIdentify, HistoryReplayable, EndsIn, Increasing, Replayable
  <2>4. ServicesFollowConfig'
    <3>1. ServicesOf[c] \subseteq Services
      BY <1>5, ApplicableIsConfig, ServicesAssumption
    <3>2. \A s \in ServicesOf[c] : registered'[s] = c
      BY <2>1, <3>1 DEF Synced
    <3>3. ASSUME NEW s \in Services, registered'[s] \in Applicable, s \notin ServicesOf[c]
          PROVE  FALSE
      <4>1. s \notin ServicesOf[config] /\ registered'[s] = registered[s]
        BY <2>1, <3>3, <1>4 DEF Synced
      <4> QED BY <4>1, <3>3 DEF IInv, ServicesFollowConfig
    <3> QED BY <2>1, <3>2, <3>3 DEF ServicesFollowConfig
  <2> QED BY <1>3, <2>1, <2>2, <2>3, <2>4, ApplicableIsConfig
<1>6. CASE c \notin Applicable
  <2>1. UNCHANGED <<config, history, counter>>
    BY <1>6 DEF Apply
  <2>2. NewestIsCurrent' /\ VersionsIdentify' /\ HistoryReplayable'
    BY <2>1 DEF IInv, NewestIsCurrent, VersionsIdentify, HistoryReplayable
  <2>3. ServicesFollowConfig'
    <3>1. CASE Synchronised(c)
      <4>1. refused' = TRUE /\ registered' = Synced(config, c)
        BY <1>6, <3>1 DEF Apply, Synchronised, Applicable
      <4>2. ASSUME NEW s \in Services, registered'[s] \in Applicable
            PROVE  registered'[s] = config /\ s \in ServicesOf[config]
        <5>1. registered'[s] = registered[s]
          BY <4>1, <4>2, <1>4, <1>6 DEF Synced
        <5> QED BY <5>1, <4>2 DEF IInv, ServicesFollowConfig
      <4> QED BY <4>1, <4>2, <2>1 DEF ServicesFollowConfig
    <3>2. CASE ~Synchronised(c)
      BY <2>1, <3>2 DEF Apply, IInv, ServicesFollowConfig
    <3> QED BY <3>1, <3>2
  <2> QED BY <1>3, <1>6, <2>1, <2>2, <2>3 DEF IInv, TypeOK
<1> QED BY <1>5, <1>6

-----------------------------------------------------------------------------
(* The inductive invariant                                                 *)

RuntimeTypeOK ==
  /\ config \in Configs \cup {None}
  /\ registered \in [Services -> Configs \cup {None}]
  /\ history \in Seq(Entry) /\ Len(history) <= MaxHistory
  /\ counter \in Nat /\ refused \in BOOLEAN

RuntimeInv ==
  /\ RuntimeTypeOK
  /\ NewestIsCurrent /\ VersionsIdentify /\ HistoryReplayable /\ ServicesFollowConfig

\* Everything that TypeOK says of the other variables.
RestTypeOK ==
  /\ file \in [Paths -> [content : Configs \cup {None}, mtime : Nat]] /\ writes \in Nat
  /\ up \in BOOLEAN /\ reloadPath \in Paths
  /\ watch \in [pc : {"off", "starting", "idle", "load", "apply"}, seen : Nat,
                stat : Nat, content : Configs \cup {None}, mtime : Nat]
  /\ publish \in [pc : {"idle", "save", "rollback"}, before : Configs \cup {None},
                  path : Paths, default : BOOLEAN]
  /\ ops \in 0 .. MaxOps /\ edits \in 0 .. MaxEdits /\ crashes \in 0 .. MaxCrashes
  /\ edited \in [last : Nat, loaded : Nat]

LEMMA Parts == IInv <=> RuntimeInv /\ RestTypeOK /\ PublishCanEnd
BY DEF IInv, RuntimeInv, RuntimeTypeOK, RestTypeOK, TypeOK

LEMMA PartsNext == IInv' <=> RuntimeInv' /\ RestTypeOK' /\ PublishCanEnd'
BY DEF IInv, RuntimeInv, RuntimeTypeOK, RestTypeOK, TypeOK

LEMMA ApplyKeepsRuntime ==
  ASSUME IInv, up, up', NEW c \in Configs \cup {None}, Apply(c)
  PROVE  RuntimeInv' /\ (c \in Applicable => config' = c)
BY ApplyLemma DEF RuntimeInv, RuntimeTypeOK

LEMMA RuntimeUnchanged ==
  ASSUME RuntimeInv, UNCHANGED <<up, runtime>>
  PROVE  RuntimeInv'
BY DEF RuntimeInv, RuntimeTypeOK, runtime, NewestIsCurrent, VersionsIdentify, HistoryReplayable,
       ServicesFollowConfig

LEMMA RunningIsApplicable ==
  ASSUME IInv, up
  PROVE  config \in Applicable
<1>1. Len(history) \in DOMAIN history /\ history[Len(history)].config = config
  BY DEF IInv, NewestIsCurrent, TypeOK
<1> QED BY <1>1 DEF IInv, HistoryReplayable

LEMMA PathsLemma == Main \in Paths /\ Alt \in Paths /\ None \notin Configs
BY NoneAssumption DEF Paths

LEMMA WriteLemma ==
  ASSUME RestTypeOK, NEW p \in Paths, NEW c \in Configs \cup {None}, Write(p, c)
  PROVE  /\ file' \in [Paths -> [content : Configs \cup {None}, mtime : Nat]] /\ writes' \in Nat
         /\ file'[p].content = c
BY DEF RestTypeOK, Write

LEMMA IdleLemma ==
  /\ NoWatch \in [pc : {"off", "starting", "idle", "load", "apply"}, seen : Nat,
                  stat : Nat, content : Configs \cup {None}, mtime : Nat]
  /\ NoPublish \in [pc : {"idle", "save", "rollback"}, before : Configs \cup {None},
                    path : Paths, default : BOOLEAN]
  /\ NoPublish.pc = "idle"
  /\ publish = NoPublish => PublishCanEnd
BY PathsLemma DEF NoWatch, NoPublish, PublishCanEnd

\* A process that does not run has nothing to keep.
LEMMA StoppedLemma ==
  /\ ~up /\ config = None /\ registered = Nothing /\ history = <<>> /\ counter = 0 /\ refused = FALSE
       => RuntimeInv
  /\ ~up' /\ config' = None /\ registered' = Nothing /\ history' = <<>> /\ counter' = 0 /\ refused' = FALSE
       => RuntimeInv'
<1>1. <<>> \in Seq(Entry) /\ Len(<<>>) = 0 /\ DOMAIN <<>> = {}
  BY EmptySeq
<1>2. Nothing \in [Services -> Configs \cup {None}] /\ 0 <= MaxHistory /\ 0 \in Nat
  BY HistoryAssumption DEF Nothing
<1>3. ASSUME ~up, config = None, registered = Nothing, history = <<>>, counter = 0, refused = FALSE
      PROVE  RuntimeInv
  <2>1. RuntimeTypeOK
    BY <1>1, <1>2, <1>3 DEF RuntimeTypeOK
  <2>2. NewestIsCurrent /\ VersionsIdentify /\ HistoryReplayable /\ ServicesFollowConfig
    BY <1>1, <1>3 DEF NewestIsCurrent, VersionsIdentify, HistoryReplayable, ServicesFollowConfig
  <2> QED BY <2>1, <2>2 DEF RuntimeInv
<1>4. ASSUME ~up', config' = None, registered' = Nothing, history' = <<>>, counter' = 0,
             refused' = FALSE
      PROVE  RuntimeInv'
  <2>1. RuntimeTypeOK'
    BY <1>1, <1>2, <1>4 DEF RuntimeTypeOK
  <2>2. NewestIsCurrent' /\ VersionsIdentify' /\ HistoryReplayable' /\ ServicesFollowConfig'
    BY <1>1, <1>4 DEF NewestIsCurrent, VersionsIdentify, HistoryReplayable, ServicesFollowConfig
  <2> QED BY <2>1, <2>2 DEF RuntimeInv
<1> QED BY <1>3, <1>4

LEMMA InitInv == Init => IInv
<1> SUFFICES ASSUME Init PROVE IInv
  OBVIOUS
<1>1. Boot \in Configs /\ 0 \in Nat
  BY ConfigsAssumption, ApplicableIsConfig
<1>2. file \in [Paths -> [content : Configs \cup {None}, mtime : Nat]]
  BY <1>1 DEF Init
<1>3. watch = NoWatch /\ publish = NoPublish
  BY DEF Init
<1>4. RestTypeOK /\ PublishCanEnd
  <2>1. ops \in 0 .. MaxOps /\ edits \in 0 .. MaxEdits /\ crashes \in 0 .. MaxCrashes
    BY BoundAssumption DEF Init
  <2>2. edited \in [last : Nat, loaded : Nat] /\ writes \in Nat /\ up \in BOOLEAN /\ reloadPath \in Paths
    BY PathsLemma DEF Init
  <2> QED BY <1>2, <1>3, <2>1, <2>2, IdleLemma DEF RestTypeOK
<1>5. RuntimeInv
  BY StoppedLemma DEF Init
<1> QED BY <1>4, <1>5, Parts

LEMMA StartKeepsInv == IInv /\ Start => IInv'
<1> SUFFICES ASSUME IInv, Start PROVE IInv'
  OBVIOUS
<1> DEFINE c == file[Main].content
<1>1. c \in Applicable /\ c \in Configs /\ file[Main].mtime \in Nat
  BY ApplicableIsConfig, PathsLemma DEF Start, IInv, TypeOK
<1>2. RestTypeOK' /\ PublishCanEnd'
  BY <1>1, Parts, PathsLemma DEF Start, RestTypeOK, PublishCanEnd, NoWatch, bounds
<1>3. history' = <<[version |-> 1, config |-> c]>> /\ config' = c /\ counter' = 1 /\ refused' = FALSE
  BY DEF Start
<1>4. /\ history' \in Seq(Entry) /\ Len(history') = 1 /\ DOMAIN history' = {1}
      /\ history'[1].config = c /\ history'[1].version = 1
  BY <1>1, <1>3 DEF Entry
<1>5. RuntimeTypeOK'
  <2>1. registered' \in [Services -> Configs \cup {None}]
    BY <1>1 DEF Start
  <2>2. 1 <= MaxHistory
    BY HistoryAssumption
  <2> QED BY <1>1, <1>3, <1>4, <2>1, <2>2 DEF RuntimeTypeOK
<1>6. NewestIsCurrent' /\ VersionsIdentify' /\ HistoryReplayable'
  BY <1>1, <1>3, <1>4 DEF NewestIsCurrent, VersionsIdentify, HistoryReplayable
<1>7. ServicesFollowConfig'
  BY <1>1, <1>3, PathsLemma, ApplicableIsConfig, ServicesAssumption DEF Start, ServicesFollowConfig
<1> QED BY <1>2, <1>5, <1>6, <1>7, PartsNext DEF RuntimeInv

LEMMA CrashKeepsInv == IInv /\ Crash => IInv'
<1> SUFFICES ASSUME IInv, Crash PROVE IInv'
  OBVIOUS
<1>1. RestTypeOK' /\ PublishCanEnd'
  <2>1. RestTypeOK /\ watch' = NoWatch /\ publish' = NoPublish
    BY Parts DEF Crash
  <2>2. crashes' \in 0 .. MaxCrashes
    BY <2>1, BoundAssumption DEF Crash, RestTypeOK
  <2>3. publish'.pc = "idle"
    BY <2>1, IdleLemma
  <2> QED BY <2>1, <2>2, <2>3, PathsLemma, IdleLemma DEF Crash, RestTypeOK, PublishCanEnd
<1>2. RuntimeInv'
  BY StoppedLemma DEF Crash
<1> QED BY <1>1, <1>2, PartsNext

\* Steps of the operator's editor and of the watcher that do not apply anything.
LEMMA WatchingKeepsInv ==
  IInv /\ (WatchStart \/ WatchStat \/ WatchLoad \/ \E c \in Configs : EditFile(c)) => IInv'
<1> SUFFICES ASSUME IInv, WatchStart \/ WatchStat \/ WatchLoad \/ \E c \in Configs : EditFile(c)
             PROVE IInv'
  OBVIOUS
<1>1. RuntimeInv /\ RestTypeOK /\ PublishCanEnd
  BY Parts
<1>2. CASE WatchStart \/ WatchStat \/ WatchLoad
  <2>1. RestTypeOK' /\ PublishCanEnd'
    <3>1. CASE WatchStart
      BY <1>1, <3>1, PathsLemma DEF WatchStart, RestTypeOK, PublishCanEnd, bounds
    <3>2. CASE WatchStat
      BY <1>1, <3>2, PathsLemma DEF WatchStat, RestTypeOK, PublishCanEnd, bounds
    <3>3. CASE WatchLoad
      BY <1>1, <3>3, PathsLemma DEF WatchLoad, RestTypeOK, PublishCanEnd, bounds
    <3> QED BY <1>2, <3>1, <3>2, <3>3
  <2>2. RuntimeInv'
    BY <1>1, <1>2, RuntimeUnchanged DEF WatchStart, WatchStat, WatchLoad
  <2> QED BY <2>1, <2>2, PartsNext
<1>3. ASSUME NEW c \in Configs, EditFile(c) PROVE IInv'
  <2>1. file' \in [Paths -> [content : Configs \cup {None}, mtime : Nat]] /\ writes' \in Nat
    BY <1>1, <1>3, PathsLemma, WriteLemma DEF EditFile
  <2>2. edits' \in 0 .. MaxEdits /\ edited' \in [last : Nat, loaded : Nat]
    BY <1>1, <1>3, BoundAssumption DEF EditFile, RestTypeOK
  <2>3. RestTypeOK' /\ PublishCanEnd'
    BY <1>1, <1>3, <2>1, <2>2 DEF EditFile, RestTypeOK, PublishCanEnd
  <2>4. RuntimeInv'
    BY <1>1, <1>3, RuntimeUnchanged DEF EditFile
  <2> QED BY <2>3, <2>4, PartsNext
<1> QED BY <1>2, <1>3

\* A version that is found names a configuration.
LEMMA RollbackApplies ==
  ASSUME IInv, NEW version, Rollback(version)
  PROVE  \E c \in Applicable : Apply(c)
<1> DEFINE found == {i \in DOMAIN history : history[i].version = version}
           newest == CHOOSE i \in found : \A j \in found : j <= i
<1>1. PICK i \in found : TRUE
  BY DEF Rollback
<1>2. \A j \in found : j = i
  <2> SUFFICES ASSUME NEW j \in found, j # i PROVE FALSE
    OBVIOUS
  <2>1. history \in Seq(Entry)
    BY DEF IInv, TypeOK
  <2>2. i < j \/ j < i
    BY <2>1
  <2>3. history[i].version < history[j].version \/ history[j].version < history[i].version
    BY <2>2 DEF IInv, VersionsIdentify
  <2>4. history[i] \in Entry
    BY <2>1
  <2> QED BY <2>3, <2>4 DEF Entry
<1>3. i <= i
  BY DEF IInv, TypeOK
<1>4. newest \in found
  <2>1. \A j \in found : j <= i
    BY <1>2, <1>3
  <2> QED BY <1>1, <2>1
<1>5. Apply(history[newest].config)
  BY DEF Rollback
<1> QED BY <1>4, <1>5 DEF IInv, HistoryReplayable

LEMMA OperationKeepsInv ==
  ASSUME IInv, NEW c \in Configs \cup {None}, Apply(c), Operation,
         UNCHANGED <<file, writes, up, reloadPath, watch, publish, edits, crashes, edited>>
  PROVE  IInv'
<1>1. RuntimeInv'
  BY ApplyKeepsRuntime DEF Operation, Unlocked
<1>2. RestTypeOK' /\ PublishCanEnd'
  BY Parts, BoundAssumption DEF RestTypeOK, PublishCanEnd, Operation
<1> QED BY <1>1, <1>2, PartsNext

LEMMA WatchApplyKeepsInv == IInv /\ WatchApply => IInv'
<1> SUFFICES ASSUME IInv, WatchApply PROVE IInv'
  OBVIOUS
<1>1. RestTypeOK /\ PublishCanEnd
  BY Parts
<1>2. watch.content \in Configs \cup {None} /\ watch.mtime \in Nat /\ watch.stat \in Nat /\ watch.seen \in Nat
  BY <1>1 DEF RestTypeOK
<1>3. RuntimeInv'
  BY <1>2, ApplyKeepsRuntime DEF WatchApply, Unlocked
<1>4. LastModTime(watch.content \in Applicable) \in Nat
  BY <1>2 DEF LastModTime
<1>5. RestTypeOK' /\ PublishCanEnd'
  BY <1>1, <1>2, <1>4, PathsLemma DEF WatchApply, RestTypeOK, PublishCanEnd, NoWatch, bounds
<1> QED BY <1>3, <1>5, PartsNext

LEMMA PublishKeepsInv ==
  ASSUME IInv, NEW c \in Configs, NEW path \in {None, Alt}, PublishAndPersist(c, path)
  PROVE  IInv'
<1>1. RestTypeOK /\ up /\ config \in Applicable
  BY Parts, RunningIsApplicable DEF PublishAndPersist, Operation, Unlocked
<1>2. RuntimeInv'
  BY ApplyKeepsRuntime DEF PublishAndPersist, Operation, Unlocked
<1>3. RestTypeOK'
  <2>1. ops' \in 0 .. MaxOps
    BY <1>1, BoundAssumption DEF RestTypeOK, PublishAndPersist, Operation
  <2>2. (IF path = None THEN reloadPath ELSE path) \in Paths
    BY <1>1, PathsLemma DEF RestTypeOK
  <2>3. publish' \in [pc : {"idle", "save", "rollback"}, before : Configs \cup {None},
                      path : Paths, default : BOOLEAN]
    BY <1>1, <2>2, ApplicableIsConfig DEF PublishAndPersist
  <2> QED BY <1>1, <2>1, <2>3 DEF RestTypeOK, PublishAndPersist
<1>4. PublishCanEnd'
  BY <1>1 DEF PublishAndPersist, PublishCanEnd
<1> QED BY <1>2, <1>3, <1>4, PartsNext

LEMMA SaveKeepsInv == IInv /\ (Save \/ SaveFails) => IInv'
<1> SUFFICES ASSUME IInv, Save \/ SaveFails PROVE IInv'
  OBVIOUS
<1>1. RuntimeInv /\ RestTypeOK /\ PublishCanEnd
  BY Parts
<1>2. RuntimeInv'
  BY <1>1, RuntimeUnchanged DEF Save, SaveFails
<1>3. CASE Save
  <2>1. publish.path \in Paths /\ config \in Configs \cup {None}
    BY <1>1 DEF RestTypeOK, RuntimeInv, RuntimeTypeOK
  <2>2. file' \in [Paths -> [content : Configs \cup {None}, mtime : Nat]] /\ writes' \in Nat
    BY <1>1, <1>3, <2>1, WriteLemma DEF Save
  <2>3. RestTypeOK' /\ PublishCanEnd'
    BY <1>1, <1>3, <2>1, <2>2, PathsLemma
       DEF Save, RestTypeOK, PublishCanEnd, NoPublish, bounds
  <2> QED BY <1>2, <2>3, PartsNext
<1>4. CASE SaveFails
  <2>1. RestTypeOK' /\ PublishCanEnd'
    BY <1>1, <1>4 DEF SaveFails, RestTypeOK, PublishCanEnd, bounds
  <2> QED BY <1>2, <2>1, PartsNext
<1> QED BY <1>3, <1>4

LEMMA RollbackPublishKeepsInv == IInv /\ RollbackPublish => IInv' /\ config' = publish.before
<1> SUFFICES ASSUME IInv, RollbackPublish PROVE IInv' /\ config' = publish.before
  OBVIOUS
<1>1. RestTypeOK /\ up /\ publish.before \in Applicable
  BY Parts DEF PublishCanEnd, RollbackPublish
<1>2. RuntimeInv' /\ config' = publish.before
  BY <1>1, ApplicableIsConfig, ApplyKeepsRuntime DEF RollbackPublish
<1>3. RestTypeOK' /\ PublishCanEnd'
  BY <1>1, PathsLemma DEF RollbackPublish, RestTypeOK, PublishCanEnd, NoPublish, bounds
<1> QED BY <1>2, <1>3, PartsNext

LEMMA NextKeepsInv == IInv /\ [Next]_vars => IInv'
<1> SUFFICES ASSUME IInv, [Next]_vars PROVE IInv'
  OBVIOUS
<1>1. CASE Start \/ Crash
  BY <1>1, StartKeepsInv, CrashKeepsInv
<1>2. CASE WatchStart \/ WatchStat \/ WatchLoad
  BY <1>2, WatchingKeepsInv
<1>3. CASE WatchApply
  BY <1>3, WatchApplyKeepsInv
<1>4. ASSUME NEW c \in Configs,
             EditFile(c) \/ MutateConfig(c) \/ PublishToMemory(c)
               \/ \E path \in {None, Alt} : PublishAndPersist(c, path)
      PROVE  IInv'
  <2>1. CASE EditFile(c)
    BY <2>1, WatchingKeepsInv
  <2>2. CASE MutateConfig(c) \/ PublishToMemory(c)
    BY <2>2, OperationKeepsInv DEF MutateConfig, PublishToMemory
  <2>3. CASE \E path \in {None, Alt} : PublishAndPersist(c, path)
    BY <2>3, PublishKeepsInv
  <2> QED BY <1>4, <2>1, <2>2, <2>3
<1>5. ASSUME NEW i \in DOMAIN history, Rollback(history[i].version)
      PROVE  IInv'
  <2>1. PICK c \in Applicable : Apply(c)
    BY <1>5, RollbackApplies
  <2> QED BY <1>5, <2>1, ApplicableIsConfig, OperationKeepsInv DEF Rollback
<1>6. CASE Save \/ SaveFails \/ RollbackPublish
  BY <1>6, SaveKeepsInv, RollbackPublishKeepsInv
<1>7. CASE UNCHANGED vars
  <2>1. RuntimeInv /\ RestTypeOK /\ PublishCanEnd
    BY Parts
  <2>2. UNCHANGED <<file, writes, up, runtime, reloadPath, watch, publish, bounds, edited>>
    BY <1>7 DEF vars
  <2>3. RuntimeInv'
    BY <2>1, <2>2, RuntimeUnchanged
  <2>4. RestTypeOK' /\ PublishCanEnd'
    BY <2>1, <2>2 DEF RestTypeOK, PublishCanEnd, bounds
  <2> QED BY <2>3, <2>4, PartsNext
<1> QED BY <1>1, <1>2, <1>3, <1>4, <1>5, <1>6, <1>7 DEF Next

-----------------------------------------------------------------------------
(* Theorems                                                                *)

THEOREM Invariance == Spec => []IInv
BY InitInv, NextKeepsInv, PTL DEF Spec

\* The state stays well-typed, and the history within maxHistory.
THEOREM TypeCorrect == Spec => []TypeOK
<1>1. IInv => TypeOK
  BY DEF IInv
<1> QED BY <1>1, Invariance, PTL

\* Whoever writes, the watcher, the admin API, a publish that fails or a restart: the
\* newest version of the history is the configuration that serves requests.
THEOREM NewestServes == Spec => []NewestIsCurrent
<1>1. IInv => NewestIsCurrent
  BY DEF IInv
<1> QED BY <1>1, Invariance, PTL

\* A version number names one configuration for as long as it is in the history.
THEOREM VersionsAreUnique == Spec => []VersionsIdentify
<1>1. IInv => VersionsIdentify
  BY DEF IInv
<1> QED BY <1>1, Invariance, PTL

\* A rollback never meets a configuration that is refused.
THEOREM RollbackIsPossible == Spec => []HistoryReplayable
<1>1. IInv => HistoryReplayable
  BY DEF IInv
<1> QED BY <1>1, Invariance, PTL

\* Checker and balancers hold the services of the running configuration, and none
\* of another one that could have been installed.
THEOREM ServicesAreTheConfigs == Spec => []ServicesFollowConfig
<1>1. IInv => ServicesFollowConfig
  BY DEF IInv
<1> QED BY <1>1, Invariance, PTL

\* A publish that lets go of the lock has saved the running configuration, or has
\* left the file alone and put the configuration back.
THEOREM PersistIsAtomic == Spec => PublishAllOrNothing
<1> DEFINE Ended == publish.pc # "idle" /\ publish'.pc = "idle" /\ up' =>
                      \/ file'[publish.path].content = config' /\ reloadPath' = publish.path
                      \/ file' = file /\ config' = publish.before
<1>1. IInv /\ [Next]_vars => [Ended]_vars
  <2> SUFFICES ASSUME IInv, Next, publish.pc # "idle", publish'.pc = "idle", up'
               PROVE  \/ file'[publish.path].content = config' /\ reloadPath' = publish.path
                      \/ file' = file /\ config' = publish.before
    OBVIOUS
  <2>1. up /\ ~Unlocked
    BY Parts DEF PublishCanEnd, Unlocked
  <2>2. publish' # publish /\ ~Start /\ ~Crash
    BY <2>1 DEF Start, Crash
  <2>3. Save \/ RollbackPublish
    <3>1. ~WatchStart /\ ~WatchStat /\ ~WatchLoad /\ ~WatchApply
      BY <2>1, <2>2 DEF WatchStart, WatchStat, WatchLoad, WatchApply
    <3>2. \A c \in Configs : ~EditFile(c) /\ ~MutateConfig(c) /\ ~PublishToMemory(c)
      BY <2>1, <2>2 DEF EditFile, MutateConfig, PublishToMemory, Operation
    <3>3. \A c \in Configs, path \in {None, Alt} : ~PublishAndPersist(c, path)
      BY <2>1 DEF PublishAndPersist, Operation
    <3>4. \A version : ~Rollback(version)
      BY <2>1 DEF Rollback, Operation
    <3>5. ~SaveFails
      <4>1. publish \in [pc : {"idle", "save", "rollback"}, before : Configs \cup {None},
                        path : Paths, default : BOOLEAN]
        BY Parts DEF RestTypeOK
      <4> QED BY <4>1 DEF SaveFails
    <3> QED BY <2>2, <3>1, <3>2, <3>3, <3>4, <3>5 DEF Next
  <2>4. CASE Save
    <3>1. RestTypeOK /\ publish.path \in Paths /\ config \in Configs \cup {None}
      BY Parts DEF RestTypeOK, RuntimeInv, RuntimeTypeOK
    <3>2. file'[publish.path].content = config
      BY <2>4, <3>1, WriteLemma DEF Save
    <3> QED BY <2>4, <3>2 DEF Save, runtime
  <2>5. CASE RollbackPublish
    BY <2>5, RollbackPublishKeepsInv DEF RollbackPublish
  <2> QED BY <2>3, <2>4, <2>5
<1> QED BY <1>1, Invariance, PTL DEF Spec, PublishAllOrNothing
=============================================================================
