-------------------------- MODULE HealthSyncProofs --------------------------
(***************************************************************************)
(* Theorems about HealthSync for every set of instances and any number of  *)
(* applied configurations.                                                 *)
(***************************************************************************)
EXTENDS HealthSync, TLAPS

-----------------------------------------------------------------------------
(* The inductive invariant                                                 *)

\* Which generation the checker and the factory hold at each step of an apply. The
\* balancer that is made on demand never has an instance.
Registrations ==
  /\ apply.pc \in {"idle", "store", "commit"} =>
       IF infoCur = None THEN lbCur \in {None, 0} ELSE lbCur = infoCur
  /\ apply.pc = "replace" => infoCur = gen
  /\ apply.pc = "removeLB" => infoCur = None
  /\ alive[0] = Absent

\* A round that no apply has met works on what is registered: its info, its balancer,
\* and instances that both have.
RoundIsCurrent ==
  ~overlap /\ InRound =>
    /\ apply.pc = "idle"
    /\ infoCur # None /\ checker.gen = infoCur
    /\ \A i \in checker.todo : info[infoCur][i] # "absent"
    /\ checker.pc \in {"update", "notify", "set"} => checker.inst \in checker.todo
    /\ checker.pc \in {"notify", "set"} => info[infoCur][checker.inst] = Yes(checker.ok)
    /\ checker.pc = "set" => checker.lb = lbCur

\* An apply that no round has met registers instances of its configuration only.
BeingReplaced ==
  ~overlap =>
    /\ apply.pc = "store" => \A i \in Instances : apply.copy[i] # "absent" => i \in apply.target
    /\ apply.pc = "replace" => \A i \in Instances : info[gen][i] # "absent" => i \in apply.target

\* What the checker takes for healthy is in rotation, or the hook is on its way.
InStep ==
  ~overlap /\ apply.pc \in {"idle", "commit"} =>
    \A i \in Instances : Configured(i) =>
      /\ alive[lbCur][i] # "absent"
      /\ info[infoCur][i] = "yes" => alive[lbCur][i] = "yes" \/ HookPending(i)

IInv == TypeOK /\ Registrations /\ RoundIsCurrent /\ BeingReplaced /\ InStep

-----------------------------------------------------------------------------
(* Operators                                                               *)

Apply   == [pc : {"idle", "store", "replace", "removeLB", "commit"}, target : SUBSET Instances,
            copy : [Instances -> Flags]]
Checker == [pc : {"wait", "probe", "update", "notify", "set", "exit"}, gen : Gens,
            todo : SUBSET Instances, inst : Instances, ok : BOOLEAN, lb : Gens]

LEMMA GensLemma == 0 \in Gens /\ 1 \in Gens /\ None \notin Gens
BY AppliesAssumption, NoneAssumption DEF Gens

LEMMA OperatorTypes ==
  /\ Absent \in [Instances -> Flags]
  /\ \A c \in SUBSET Instances, p \in [Instances -> Flags] : Registered(c, p) \in [Instances -> Flags]
  /\ \A c \in SUBSET Instances : AllAlive(c) \in [Instances -> Flags]
  /\ \A b \in BOOLEAN : Yes(b) \in {"yes", "no"}
BY DEF Absent, Flags, Registered, AllAlive, Yes

LEMMA WaitingLemma ==
  /\ Waiting \in Checker /\ Waiting.pc = "wait"
  /\ NoApply \in Apply /\ NoApply.pc = "idle"
<1>1. (CHOOSE i \in Instances : TRUE) \in Instances
  BY InstanceAssumption
<1> QED BY <1>1, GensLemma, OperatorTypes DEF Waiting, NoApply, Checker, Apply

\* The round goes on with the rest of its instances, or is over.
LEMMA AdvanceLemma ==
  ASSUME NEW ck \in Checker
  PROVE  /\ Advance(ck) \in Checker
         /\ Advance(ck).pc \in {"wait", "probe"}
         /\ Advance(ck).pc = "probe" =>
              Advance(ck).gen = ck.gen /\ Advance(ck).todo \subseteq ck.todo
<1>1. ck.todo \ {ck.inst} \subseteq Instances /\ ck.gen \in Gens
  BY DEF Checker
<1>2. CASE ck.todo \ {ck.inst} = {}
  BY <1>2, WaitingLemma DEF Advance
<1>3. CASE ck.todo \ {ck.inst} # {}
  <2> DEFINE next == [Waiting EXCEPT !.pc = "probe", !.gen = ck.gen, !.todo = ck.todo \ {ck.inst}]
  <2>1. /\ next \in Checker /\ next.pc = "probe" /\ next.gen = ck.gen
        /\ next.todo = ck.todo \ {ck.inst}
    BY <1>1, WaitingLemma DEF Checker
  <2>2. Advance(ck) = next
    BY <1>3 DEF Advance
  <2> QED BY <2>1, <2>2
<1> QED BY <1>2, <1>3

LEMMA Types ==
  TypeOK <=>
    /\ up \in [Instances -> BOOLEAN] /\ config \in SUBSET Instances /\ gen \in 1 .. MaxApplies
    /\ info \in [Gens -> [Instances -> Flags]] /\ infoCur \in Gens \cup {None}
    /\ alive \in [Gens -> [Instances -> Flags]] /\ lbCur \in Gens \cup {None}
    /\ apply \in Apply /\ checker \in Checker /\ overlap \in BOOLEAN
BY DEF TypeOK, Apply, Checker

LEMMA GenIsGen == TypeOK => gen \in Gens /\ gen # 0
BY AppliesAssumption DEF TypeOK, Gens

-----------------------------------------------------------------------------
(* Init                                                                    *)

LEMMA InitInv == Init => IInv
<1> SUFFICES ASSUME Init PROVE IInv
  OBVIOUS
<1>1. TypeOK
  <2>1. 1 \in 1 .. MaxApplies
    BY AppliesAssumption
  <2>2. config \in SUBSET Instances
    BY DEF Init
  <2>3. info \in [Gens -> [Instances -> Flags]] /\ alive \in [Gens -> [Instances -> Flags]]
    BY <2>2, OperatorTypes DEF Init
  <2> QED BY <2>1, <2>2, <2>3, GensLemma, WaitingLemma DEF Init, TypeOK, Apply, Checker
<1>2. apply.pc = "idle" /\ checker.pc = "wait" /\ infoCur = 1 /\ lbCur = 1
  BY WaitingLemma DEF Init
<1>3. Registrations
  BY <1>2, GensLemma DEF Init, Registrations
<1>4. RoundIsCurrent /\ BeingReplaced
  BY <1>2 DEF RoundIsCurrent, BeingReplaced, InRound
<1>5. InStep
  <2>1. info[1] = Registered(config, Absent) /\ alive[1] = AllAlive(config)
    BY GensLemma DEF Init
  <2>2. \A i \in Instances : info[1][i] # "absent" => alive[1][i] = "yes"
    BY <2>1 DEF Registered, AllAlive
  <2> QED BY <1>2, <2>2 DEF InStep, Configured
<1> QED BY <1>1, <1>3, <1>4, <1>5 DEF IInv

-----------------------------------------------------------------------------
(* The checker's steps                                                     *)

\* A step of the checker that touches nothing but its own variables, and keeps the hook
\* pending for the instances it is pending for.
LEMMA CheckerStep ==
  ASSUME IInv, checker' \in Checker, UNCHANGED <<up, hcVars, lbVars, cfgVars>>,
         overlap' \in BOOLEAN, ~overlap' => ~overlap,
         ~overlap' => RoundIsCurrent',
         \A i \in Instances : ~overlap' /\ Configured(i) /\ HookPending(i) => HookPending(i)'
  PROVE  IInv'
<1>1. TypeOK'
  BY Types DEF IInv, TypeOK, Checker, hcVars, lbVars, cfgVars
<1>2. Registrations' /\ BeingReplaced'
  BY DEF IInv, Registrations, BeingReplaced, hcVars, lbVars, cfgVars
<1>3. RoundIsCurrent'
  BY DEF RoundIsCurrent
<1>4. InStep'
  <2> SUFFICES ASSUME ~overlap', apply.pc \in {"idle", "commit"}, NEW i \in Instances, Configured(i)
               PROVE  /\ alive[lbCur][i] # "absent"
                      /\ info[infoCur][i] = "yes" => alive[lbCur][i] = "yes" \/ HookPending(i)'
    BY DEF InStep, Configured, hcVars, lbVars, cfgVars
  <2> QED BY DEF IInv, InStep
<1> QED BY <1>1, <1>2, <1>3, <1>4 DEF IInv

LEMMA StartRoundKeepsInv == IInv /\ StartRound => IInv'
<1> SUFFICES ASSUME IInv, StartRound PROVE IInv'
  OBVIOUS
<1> DEFINE todo == {i \in Instances : info[infoCur][i] # "absent"}
<1>1. checker \in Checker /\ infoCur \in Gens /\ apply \in Apply /\ overlap \in BOOLEAN
  BY Types DEF IInv, StartRound
<1>2. /\ checker' \in Checker /\ checker'.pc = "probe" /\ checker'.gen = infoCur
      /\ checker'.todo = todo
  BY <1>1 DEF StartRound, Checker
<1>3. overlap' = (overlap \/ apply.pc # "idle")
  BY DEF StartRound
<1>4. ~overlap' => RoundIsCurrent'
  BY <1>2, <1>3 DEF StartRound, RoundIsCurrent, hcVars, lbVars, cfgVars
<1>5. \A i \in Instances : ~HookPending(i)
  BY DEF StartRound, HookPending
<1> QED BY <1>1, <1>2, <1>3, <1>4, <1>5, CheckerStep DEF StartRound, HookPending

LEMMA ProbeKeepsInv == ASSUME IInv, NEW i \in Instances, Probe(i) PROVE IInv'
<1>1. checker \in Checker /\ up \in [Instances -> BOOLEAN] /\ overlap \in BOOLEAN
  BY Types DEF IInv
<1>2. /\ checker' \in Checker /\ checker'.pc = "update" /\ checker'.gen = checker.gen
      /\ checker'.todo = checker.todo /\ checker'.inst \in checker'.todo
  BY <1>1 DEF Probe, Checker
<1>3. ~overlap' => RoundIsCurrent'
  BY <1>2 DEF Probe, IInv, RoundIsCurrent, InRound, hcVars, lbVars, cfgVars
<1> QED BY <1>1, <1>2, <1>3, CheckerStep DEF Probe, HookPending

\* The hook is not called when nothing has changed, so what was in step still is; a
\* change of status leaves the hook pending.
LEMMA UpdateStatusKeepsInv == IInv /\ UpdateStatus => IInv'
<1> SUFFICES ASSUME IInv, UpdateStatus PROVE IInv'
  OBVIOUS
<1> DEFINE g == checker.gen
           i == checker.inst
           unchanged == info[g][i] = Yes(checker.ok)
<1>1. /\ checker \in Checker /\ g \in Gens /\ i \in Instances /\ Yes(checker.ok) \in {"yes", "no"}
      /\ info \in [Gens -> [Instances -> Flags]] /\ overlap \in BOOLEAN /\ checker.pc = "update"
  BY Types, OperatorTypes DEF IInv, Checker, UpdateStatus
<1>2. /\ info' \in [Gens -> [Instances -> Flags]] /\ info'[g][i] = Yes(checker.ok)
      /\ \A h \in Gens, j \in Instances : h # g \/ j # i => info'[h][j] = info[h][j]
  BY <1>1 DEF UpdateStatus, Flags
<1>3. checker' = IF unchanged THEN Advance(checker) ELSE [checker EXCEPT !.pc = "notify"]
  BY DEF UpdateStatus
<1>4. /\ checker' \in Checker
      /\ unchanged => /\ checker'.pc \in {"wait", "probe"}
                      /\ checker'.pc = "probe" => checker'.gen = g /\ checker'.todo \subseteq checker.todo
      /\ ~unchanged => /\ checker'.pc = "notify" /\ checker'.gen = g /\ checker'.inst = i
                       /\ checker'.todo = checker.todo /\ checker'.ok = checker.ok
  BY <1>1, <1>3, AdvanceLemma DEF Checker
<1>5. UNCHANGED <<up, infoCur, lbVars, cfgVars, overlap>>
  BY DEF UpdateStatus
<1>6. TypeOK'
  BY <1>2, <1>4, <1>5, Types DEF IInv, TypeOK, Checker, lbVars, cfgVars
<1>7. Registrations'
  BY <1>5 DEF IInv, Registrations, lbVars, cfgVars
<1>8. ~overlap => /\ apply.pc = "idle" /\ infoCur # None /\ g = infoCur /\ infoCur \in Gens
                  /\ \A j \in checker.todo : info[infoCur][j] # "absent"
                  /\ i \in checker.todo
  BY <1>1, Types DEF IInv, RoundIsCurrent, InRound
<1>9. RoundIsCurrent'
  <2> SUFFICES ASSUME ~overlap, InRound'
               PROVE  RoundIsCurrent'
    BY <1>5 DEF RoundIsCurrent
  <2>1. \A j \in checker.todo : info'[infoCur][j] # "absent"
    <3> SUFFICES ASSUME NEW j \in checker.todo PROVE info'[infoCur][j] # "absent"
      OBVIOUS
    <3>1. j \in Instances
      BY <1>1 DEF Checker
    <3> QED BY <3>1, <1>1, <1>2, <1>8
  <2>2. CASE unchanged
    <3>1. checker'.pc = "probe"
      BY <2>2, <1>4 DEF InRound
    <3> QED BY <3>1, <2>1, <2>2, <1>4, <1>5, <1>8 DEF RoundIsCurrent, cfgVars
  <2>3. CASE ~unchanged
    BY <2>1, <2>3, <1>2, <1>4, <1>5, <1>8 DEF RoundIsCurrent, cfgVars
  <2> QED BY <2>2, <2>3
<1>10. BeingReplaced'
  BY <1>5, <1>8 DEF BeingReplaced, cfgVars
<1>11. InStep'
  <2> SUFFICES ASSUME ~overlap, NEW j \in Instances, Configured(j)'
               PROVE  /\ alive[lbCur][j] # "absent"
                      /\ info'[infoCur][j] = "yes" => alive[lbCur][j] = "yes" \/ HookPending(j)'
    BY <1>5 DEF InStep, lbVars
  <2>1. Configured(j) /\ alive[lbCur][j] # "absent" /\ ~HookPending(j)
    BY <1>1, <1>2, <1>5, <1>8 DEF Configured, IInv, InStep, HookPending
  <2>2. CASE j = i /\ ~unchanged
    BY <2>1, <2>2, <1>4 DEF HookPending
  <2>3. CASE j # i \/ unchanged
    <3>1. info'[infoCur][j] = info[infoCur][j]
      BY <2>3, <1>1, <1>2, <1>8
    <3> QED BY <3>1, <2>1, <1>8 DEF IInv, InStep
  <2> QED BY <2>2, <2>3
<1> QED BY <1>6, <1>7, <1>9, <1>10, <1>11 DEF IInv

\* As long as a round is current there is a balancer to load.
LEMMA LoadBalancerKeepsInv == IInv /\ LoadBalancer => IInv'
<1> SUFFICES ASSUME IInv, LoadBalancer PROVE IInv'
  OBVIOUS
<1>1. checker \in Checker /\ lbCur \in Gens \cup {None} /\ overlap \in BOOLEAN /\ checker.pc = "notify"
  BY Types DEF IInv, LoadBalancer
<1>2. /\ checker' \in Checker
      /\ lbCur = None => /\ checker'.pc \in {"wait", "probe"}
                         /\ checker'.pc = "probe" =>
                              checker'.gen = checker.gen /\ checker'.todo \subseteq checker.todo
      /\ lbCur # None => /\ checker'.pc = "set" /\ checker'.gen = checker.gen
                         /\ checker'.todo = checker.todo /\ checker'.inst = checker.inst
                         /\ checker'.ok = checker.ok /\ checker'.lb = lbCur
  BY <1>1, AdvanceLemma DEF LoadBalancer, Checker
<1>3. ~overlap => lbCur # None
  <2> SUFFICES ASSUME ~overlap PROVE lbCur # None
    OBVIOUS
  <2>1. apply.pc = "idle" /\ infoCur # None
    BY <1>1 DEF IInv, RoundIsCurrent, InRound
  <2> QED BY <2>1 DEF IInv, Registrations
<1>4. ~overlap' => RoundIsCurrent'
  BY <1>1, <1>2, <1>3 DEF LoadBalancer, IInv, RoundIsCurrent, InRound, hcVars, lbVars, cfgVars
<1> QED BY <1>1, <1>2, <1>3, <1>4, CheckerStep DEF LoadBalancer, HookPending

\* The flag that is set is the one that the status asks for.
LEMMA SetInstanceAliveKeepsInv == IInv /\ SetInstanceAlive => IInv'
<1> SUFFICES ASSUME IInv, SetInstanceAlive PROVE IInv'
  OBVIOUS
<1> DEFINE b == checker.lb
           i == checker.inst
<1>1. /\ checker \in Checker /\ b \in Gens /\ i \in Instances /\ Yes(checker.ok) \in {"yes", "no"}
      /\ alive \in [Gens -> [Instances -> Flags]] /\ overlap \in BOOLEAN /\ checker.pc = "set"
  BY Types, OperatorTypes DEF IInv, Checker, SetInstanceAlive
<1>2. alive' = [alive EXCEPT ![b][i] = IF @ = "absent" THEN @ ELSE Yes(checker.ok)]
  BY DEF SetInstanceAlive
<1>3. /\ alive' \in [Gens -> [Instances -> Flags]]
      /\ alive'[b][i] = IF alive[b][i] = "absent" THEN "absent" ELSE Yes(checker.ok)
      /\ \A c \in Gens, j \in Instances : c # b \/ j # i => alive'[c][j] = alive[c][j]
  BY <1>1, <1>2 DEF Flags
<1>4. /\ checker' \in Checker /\ checker'.pc \in {"wait", "probe"}
      /\ checker'.pc = "probe" => checker'.gen = checker.gen /\ checker'.todo \subseteq checker.todo
  BY <1>1, AdvanceLemma DEF SetInstanceAlive
<1>5. UNCHANGED <<up, hcVars, lbCur, cfgVars, overlap>>
  BY DEF SetInstanceAlive
<1>6. TypeOK'
  BY <1>3, <1>4, <1>5, Types DEF IInv, TypeOK, Checker, hcVars, cfgVars
<1>7. Registrations'
  <2>1. alive[0] = Absent /\ 0 \in Gens
    BY GensLemma DEF IInv, Registrations
  <2>2. \A j \in Instances : alive'[0][j] = "absent"
    BY <2>1, <1>1, <1>3 DEF Absent
  <2>3. alive'[0] = Absent
    BY <2>1, <2>2, <1>3 DEF Absent
  <2> QED BY <2>3, <1>5 DEF IInv, Registrations, hcVars, cfgVars
<1>8. RoundIsCurrent'
  BY <1>1, <1>4, <1>5 DEF IInv, RoundIsCurrent, InRound, hcVars, cfgVars
<1>9. BeingReplaced'
  BY <1>5 DEF IInv, BeingReplaced, hcVars, cfgVars
<1>10. InStep'
  <2> SUFFICES ASSUME ~overlap, NEW j \in Instances, Configured(j)
               PROVE  /\ alive'[lbCur][j] # "absent"
                      /\ info[infoCur][j] = "yes" => alive'[lbCur][j] = "yes"
    BY <1>5 DEF InStep, Configured, hcVars
  <2>1. /\ apply.pc = "idle" /\ infoCur # None /\ b = lbCur
        /\ info[infoCur][i] = Yes(checker.ok)
    BY <1>1 DEF IInv, RoundIsCurrent, InRound
  <2>2. /\ alive[lbCur][j] # "absent"
        /\ info[infoCur][j] = "yes" => alive[lbCur][j] = "yes" \/ j = i
    BY <2>1 DEF IInv, InStep, HookPending
  <2> QED BY <1>1, <1>3, <2>1, <2>2
<1> QED BY <1>6, <1>7, <1>8, <1>9, <1>10 DEF IInv

LEMMA StopCheckerKeepsInv == IInv /\ StopChecker => IInv'
<1> SUFFICES ASSUME IInv, StopChecker PROVE IInv'
  OBVIOUS
<1>1. /\ checker \in Checker /\ overlap \in BOOLEAN /\ checker.pc = "wait"
      /\ checker' \in Checker /\ checker'.pc = "exit"
  BY Types DEF IInv, StopChecker, Checker
<1>2. RoundIsCurrent'
  BY <1>1 DEF RoundIsCurrent, InRound
<1> QED BY <1>1, <1>2, CheckerStep DEF StopChecker, HookPending

-----------------------------------------------------------------------------
(* The steps of an apply                                                   *)

\* A step of the apply that leaves no round current: what it meets has overlapped.
LEMMA ApplyStep ==
  ASSUME RoundIsCurrent, UNCHANGED checker, ~overlap' => ~InRound
  PROVE  RoundIsCurrent'
BY DEF RoundIsCurrent, InRound

LEMMA BeginApplyKeepsInv ==
  ASSUME IInv, NEW c \in SUBSET Instances, BeginApply(c)
  PROVE  IInv'
<1> DEFINE copy == Registered(c, IF infoCur = None THEN Absent ELSE info[infoCur])
<1>1. /\ infoCur \in Gens \cup {None} /\ info \in [Gens -> [Instances -> Flags]]
      /\ gen \in 1 .. MaxApplies /\ copy \in [Instances -> Flags]
  BY Types, OperatorTypes DEF IInv
<1>2. /\ apply' \in Apply /\ apply'.pc = "store" /\ apply'.target = c /\ apply'.copy = copy
      /\ gen' \in 1 .. MaxApplies
  BY <1>1, AppliesAssumption DEF BeginApply, Apply
<1>3. TypeOK'
  BY <1>2, Types DEF BeginApply, IInv, TypeOK, Apply, InRound, hcVars, lbVars
<1>4. Registrations'
  BY <1>2 DEF BeginApply, IInv, Registrations, hcVars, lbVars
<1>5. RoundIsCurrent'
  BY ApplyStep DEF BeginApply, IInv
<1>6. BeingReplaced' /\ InStep'
  BY <1>1, <1>2 DEF BeingReplaced, InStep, Registered
<1> QED BY <1>3, <1>4, <1>5, <1>6 DEF IInv

LEMMA StoreInfoKeepsInv == IInv /\ StoreInfo => IInv'
<1> SUFFICES ASSUME IInv, StoreInfo PROVE IInv'
  OBVIOUS
<1>1. /\ apply \in Apply /\ info \in [Gens -> [Instances -> Flags]] /\ gen \in Gens
      /\ overlap \in BOOLEAN
  BY Types, GenIsGen DEF IInv
<1>2. /\ apply' \in Apply /\ apply'.pc = "replace" /\ apply'.target = apply.target
      /\ info' \in [Gens -> [Instances -> Flags]] /\ info'[gen] = apply.copy
      /\ overlap' = (overlap \/ InRound)
  BY <1>1 DEF StoreInfo, Apply, Overlaps
<1>3. TypeOK'
  BY <1>1, <1>2, Types DEF StoreInfo, IInv, TypeOK, Apply, InRound, lbVars
<1>4. Registrations' /\ InStep'
  BY <1>2 DEF StoreInfo, IInv, Registrations, InStep, lbVars
<1>5. RoundIsCurrent'
  BY <1>2, ApplyStep DEF StoreInfo, IInv
<1>6. BeingReplaced'
  BY <1>2 DEF StoreInfo, IInv, BeingReplaced
<1> QED BY <1>3, <1>4, <1>5, <1>6 DEF IInv

\* The new balancer has every instance that is registered, and offers it.
LEMMA ReplaceKeepsInv == IInv /\ ReplaceServiceInstances => IInv'
<1> SUFFICES ASSUME IInv, ReplaceServiceInstances PROVE IInv'
  OBVIOUS
<1>1. /\ apply \in Apply /\ alive \in [Gens -> [Instances -> Flags]] /\ gen \in Gens /\ gen # 0
      /\ overlap \in BOOLEAN /\ AllAlive(apply.target) \in [Instances -> Flags]
  BY Types, GenIsGen, OperatorTypes DEF IInv, Apply
<1>2. /\ apply' \in Apply /\ apply'.pc = "commit" /\ lbCur' = gen
      /\ alive' \in [Gens -> [Instances -> Flags]] /\ alive'[gen] = AllAlive(apply.target)
      /\ alive'[0] = alive[0] /\ overlap' = (overlap \/ InRound)
  BY <1>1, GensLemma DEF ReplaceServiceInstances, Apply, Overlaps
<1>3. UNCHANGED <<up, config, gen, hcVars, checker>> /\ infoCur = gen
  BY DEF ReplaceServiceInstances, IInv, Registrations
<1>4. TypeOK'
  BY <1>1, <1>2, <1>3, Types DEF IInv, TypeOK, Apply, InRound, hcVars
<1>5. Registrations'
  BY <1>1, <1>2, <1>3, GensLemma DEF IInv, Registrations, hcVars
<1>6. RoundIsCurrent'
  BY <1>2, <1>3, ApplyStep DEF IInv
<1>7. BeingReplaced'
  BY <1>2 DEF BeingReplaced
<1>8. InStep'
  <2> SUFFICES ASSUME ~overlap, NEW j \in Instances, info[gen][j] # "absent"
               PROVE  alive'[gen][j] = "yes"
    BY <1>2, <1>3 DEF InStep, Configured, hcVars
  <2>1. j \in apply.target
    BY DEF IInv, BeingReplaced, ReplaceServiceInstances
  <2> QED BY <2>1, <1>2 DEF AllAlive
<1> QED BY <1>4, <1>5, <1>6, <1>7, <1>8 DEF IInv

LEMMA RemoveKeepsInv == IInv /\ (BeginRemove \/ RemoveBalancer) => IInv'
<1> SUFFICES ASSUME IInv, BeginRemove \/ RemoveBalancer PROVE IInv'
  OBVIOUS
<1>1. apply \in Apply /\ overlap \in BOOLEAN /\ Absent \in [Instances -> Flags] /\ gen \in 1 .. MaxApplies
  BY Types, OperatorTypes DEF IInv
<1>2. CASE BeginRemove
  <2>1. apply' \in Apply /\ apply'.pc = "removeLB" /\ gen' \in 1 .. MaxApplies
    BY <1>1, <1>2, AppliesAssumption DEF BeginRemove, Apply
  <2>2. TypeOK'
    BY <1>2, <2>1, Types DEF BeginRemove, IInv, TypeOK, Apply, InRound, lbVars
  <2>3. Registrations' /\ BeingReplaced' /\ InStep'
    BY <1>2, <2>1 DEF BeginRemove, IInv, Registrations, BeingReplaced, InStep, lbVars
  <2>4. RoundIsCurrent'
    BY <1>2, ApplyStep DEF BeginRemove, IInv
  <2> QED BY <2>2, <2>3, <2>4 DEF IInv
<1>3. CASE RemoveBalancer
  <2>1. apply' \in Apply /\ apply'.pc = "commit" /\ infoCur = None
    BY <1>1, <1>3 DEF RemoveBalancer, Apply, IInv, Registrations
  <2>2. TypeOK'
    BY <1>1, <1>3, <2>1, Types DEF RemoveBalancer, Overlaps, IInv, TypeOK, Apply, InRound, hcVars
  <2>3. Registrations' /\ BeingReplaced' /\ InStep'
    BY <1>3, <2>1
       DEF RemoveBalancer, IInv, Registrations, BeingReplaced, InStep, Configured, hcVars
  <2>4. RoundIsCurrent'
    BY <1>3, ApplyStep DEF RemoveBalancer, Overlaps, IInv
  <2> QED BY <2>2, <2>3, <2>4 DEF IInv
<1> QED BY <1>2, <1>3

LEMMA FinishApplyKeepsInv == IInv /\ FinishApply => IInv'
<1> SUFFICES ASSUME IInv, FinishApply PROVE IInv'
  OBVIOUS
<1>1. /\ apply \in Apply /\ overlap \in BOOLEAN /\ config \in SUBSET Instances
      /\ apply.pc = "commit" /\ apply' = NoApply /\ apply'.pc = "idle" /\ apply' \in Apply
      /\ overlap' = (overlap \/ InRound)
  BY Types, WaitingLemma DEF IInv, FinishApply, Overlaps
<1>2. TypeOK'
  BY <1>1, Types DEF FinishApply, IInv, TypeOK, Apply, InRound, hcVars, lbVars
<1>3. Registrations' /\ BeingReplaced'
  BY <1>1 DEF FinishApply, IInv, Registrations, BeingReplaced, hcVars, lbVars
<1>4. RoundIsCurrent'
  BY <1>1, ApplyStep DEF FinishApply, IInv
<1>5. InStep'
  BY <1>1 DEF FinishApply, IInv, InStep, Configured, HookPending, hcVars, lbVars
<1> QED BY <1>2, <1>3, <1>4, <1>5 DEF IInv

-----------------------------------------------------------------------------
(* Everybody else, and every step                                          *)

\* A balancer is made on demand only where nothing is registered.
LEMMA GetOrCreateKeepsInv == IInv /\ GetOrCreateLoadBalancer => IInv'
<1> SUFFICES ASSUME IInv, GetOrCreateLoadBalancer PROVE IInv'
  OBVIOUS
<1>1. TypeOK'
  BY GensLemma, Types DEF GetOrCreateLoadBalancer, IInv, TypeOK, hcVars, cfgVars
<1>2. apply.pc \in {"idle", "store", "commit"} => infoCur = None
  BY DEF GetOrCreateLoadBalancer, IInv, Registrations
<1>3. Registrations' /\ BeingReplaced'
  BY <1>2 DEF GetOrCreateLoadBalancer, IInv, Registrations, BeingReplaced, hcVars, cfgVars
<1>4. RoundIsCurrent'
  BY <1>2 DEF GetOrCreateLoadBalancer, IInv, RoundIsCurrent, InRound, hcVars, cfgVars
<1>5. InStep'
  BY <1>2 DEF GetOrCreateLoadBalancer, InStep, Configured, hcVars, cfgVars
<1> QED BY <1>1, <1>3, <1>4, <1>5 DEF IInv

LEMMA NextKeepsInv == IInv /\ [Next]_vars => IInv'
<1> SUFFICES ASSUME IInv, [Next]_vars PROVE IInv'
  OBVIOUS
<1>1. CASE CheckerNext \/ StopChecker
  BY <1>1, StartRoundKeepsInv, ProbeKeepsInv, UpdateStatusKeepsInv, LoadBalancerKeepsInv,
     SetInstanceAliveKeepsInv, StopCheckerKeepsInv DEF CheckerNext
<1>2. CASE ApplyNext
  BY <1>2, BeginApplyKeepsInv, StoreInfoKeepsInv, ReplaceKeepsInv, RemoveKeepsInv,
     FinishApplyKeepsInv DEF ApplyNext
<1>3. CASE GetOrCreateLoadBalancer
  BY <1>3, GetOrCreateKeepsInv
<1>4. ASSUME NEW i \in Instances, InstanceChange(i) PROVE IInv'
  BY <1>4 DEF InstanceChange, IInv, TypeOK, Registrations, RoundIsCurrent, InRound, BeingReplaced,
              InStep, Configured, HookPending, hcVars, lbVars, cfgVars
<1>5. CASE UNCHANGED vars
  BY <1>5 DEF vars, IInv, TypeOK, Registrations, RoundIsCurrent, InRound, BeingReplaced, InStep,
              Configured, HookPending, hcVars, lbVars, cfgVars
<1> QED BY <1>1, <1>2, <1>3, <1>4, <1>5 DEF Next

-----------------------------------------------------------------------------
(* Theorems                                                                *)

THEOREM Invariance == Spec => []IInv
BY InitInv, NextKeepsInv, PTL DEF Spec

\* The state stays well-typed: no step loads a balancer or an info that is not there.
THEOREM TypeCorrect == Spec => []TypeOK
<1>1. IInv => TypeOK
  BY DEF IInv
<1> QED BY <1>1, Invariance, PTL

\* Whatever requests, rounds and applies do in between: after an apply the checker and
\* the factory hold what it has built, or neither has the service.
THEOREM ApplyLeavesAgreement == Spec => []CheckerAndBalancerAgree
<1>1. IInv => CheckerAndBalancerAgree
  <2> SUFFICES ASSUME IInv, apply.pc = "idle"
               PROVE  /\ infoCur # None => lbCur = infoCur
                      /\ infoCur = None => \A i \in Instances : ~InRotation(i)
    BY DEF CheckerAndBalancerAgree
  <2>1. infoCur = None => lbCur = None \/ alive[lbCur] = Absent
    BY DEF IInv, Registrations
  <2> QED BY <2>1 DEF IInv, Registrations, InRotation, Absent
<1> QED BY <1>1, Invariance, PTL

\* An instance that the checker takes for healthy is withheld from requests only for as
\* long as the hook is on its way, unless the latest apply has met a round.
THEOREM HealthyIsInRotation == Spec => []OutOfRotationIsUnhealthy
<1>1. IInv => OutOfRotationIsUnhealthy
  <2> SUFFICES ASSUME IInv, apply.pc = "idle", ~overlap, NEW i \in Instances,
                      Configured(i), ~InRotation(i), ~HookPending(i)
               PROVE  ~IsInstanceHealthy(i)
    BY DEF OutOfRotationIsUnhealthy
  <2>1. info[infoCur][i] = "yes" => alive[lbCur][i] = "yes"
    BY DEF IInv, InStep
  <2>2. lbCur = infoCur /\ infoCur # None
    BY DEF IInv, Registrations, Configured
  <2> QED BY <2>1, <2>2 DEF InRotation, IsInstanceHealthy
<1> QED BY <1>1, Invariance, PTL
=============================================================================
