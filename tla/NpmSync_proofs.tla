---------------------------- MODULE NpmSync_proofs ----------------------------
(***************************************************************************)
(* Proofs about NpmSync, for every set of hosts and commands: types, the   *)
(* inductive invariant, and that no change of the policy is lost between   *)
(* the flag, the sleep, the lock and the reading of the rules.             *)
(***************************************************************************)
EXTENDS NpmSync, TLAPS

PCs == {"idle", "sleeping", "waiting", "fetching", "writing", "selecting",
        "done"}

-----------------------------------------------------------------------------
(* Types.                                                                   *)

LEMMA EndsType ==
    ASSUME TypeOK, NEW a \in Actor, NEW o \in Op, NEW ok \in BOOLEAN,
           Ends(a, o, ok)
    PROVE  /\ pc' \in [Actor -> PCs] /\ pending' \in BOOLEAN
           /\ cancelled' \in BOOLEAN
  BY ConstantsAssumption DEF TypeOK, Ends, TaskEnds, PCs

LEMMA BeginsType ==
    ASSUME TypeOK, NEW a \in Actor, NEW o \in Op, Begins(a, o)
    PROVE  /\ pc' \in [Actor -> PCs] /\ pending' \in BOOLEAN
           /\ cancelled' \in BOOLEAN /\ overtaken' \in BOOLEAN
           /\ lock' \in Actor \cup {NoOne} /\ target' \in Host
  <1>1. CASE stage = "gone" \/ (o.kind = "sync" /\ ~ cfg.enabled)
    <2>1. Ends(a, o, stage # "gone") /\ UNCHANGED <<lock, target, overtaken>>
      BY <1>1 DEF Begins
    <2>2. QED
      BY <2>1, EndsType DEF TypeOK
  <1>2. CASE ~ (stage = "gone" \/ (o.kind = "sync" /\ ~ cfg.enabled))
    BY <1>2 DEF Begins, TypeOK, Config, PCs
  <1>3. QED
    BY <1>1, <1>2

LEMMA SerializedType ==
    ASSUME TypeOK, NEW a \in Actor, NEW o \in Op, Serialized(a, o)
    PROVE  /\ pc' \in [Actor -> PCs] /\ pending' \in BOOLEAN
           /\ cancelled' \in BOOLEAN /\ overtaken' \in BOOLEAN
           /\ lock' \in Actor \cup {NoOne} /\ target' \in Host
  BY BeginsType DEF Serialized, TypeOK, PCs

LEMMA ScheduleType ==
    ASSUME TypeOK, Schedule \/ UNCHANGED <<pc, pending>>
    PROVE  pc' \in [Actor -> PCs] /\ pending' \in BOOLEAN
  BY DEF TypeOK, Schedule, PCs

LEMMA EdgeType ==
    ASSUME TypeOK, edge' = Reconciled \/ PartlyReconciled
    PROVE  edge' \in [Host -> 0..MaxPolicy]
  BY ConstantsAssumption DEF TypeOK, Reconciled, PartlyReconciled

LEMMA TypeStep == TypeOK /\ [Next]_vars => TypeOK'
  <1> SUFFICES ASSUME TypeOK, [Next]_vars PROVE TypeOK'
    OBVIOUS
  <1>1. ASSUME NEW c \in Call, NEW k \in Kinds, NEW h \in Host,
               Command(c, [kind |-> k, host |-> h])
        PROVE  TypeOK'
    <2> DEFINE o == [kind |-> k, host |-> h]
    <2>1. o \in Op /\ c \in Actor
      BY ConstantsAssumption DEF Op, Actor, AllKinds
    <2>2. op' \in [Actor -> Op]
      BY <1>1, <2>1 DEF Command, TypeOK
    <2>3. \/ Ends(c, o, TRUE) /\ UNCHANGED <<lock, target, overtaken>>
          \/ Serialized(c, o)
      BY <1>1 DEF Command
    <2>4. /\ pc' \in [Actor -> PCs] /\ pending' \in BOOLEAN
          /\ cancelled' \in BOOLEAN /\ overtaken' \in BOOLEAN
          /\ lock' \in Actor \cup {NoOne} /\ target' \in Host
      BY <2>1, <2>3, EndsType, SerializedType DEF TypeOK
    <2>5. QED
      BY <1>1, <2>2, <2>4 DEF Command, TypeOK, PCs
  <1>2. ASSUME NEW a \in Actor, Turn(a) PROVE TypeOK'
    <2>1. op[a] \in Op
      BY DEF TypeOK
    <2>2. QED
      BY <1>2, <2>1, BeginsType DEF Turn, TypeOK, PCs
  <1>3. CASE Slept
    <2>1. op[Loop] \in Op /\ Loop \in Actor
      BY DEF TypeOK, Actor
    <2>2. QED
      BY <1>3, <2>1, SerializedType DEF Slept, TypeOK, PCs
  <1>4. ASSUME NEW a \in Actor, Answered(a) PROVE TypeOK'
    <2>1. op[a] \in Op
      BY DEF TypeOK
    <2>2. CASE Fetched(a)
      BY <2>2, ConstantsAssumption DEF Fetched, TypeOK
    <2>3. CASE FetchFails(a)
      BY <2>1, <2>3, EndsType DEF FetchFails, Release, TypeOK, PCs
    <2>4. CASE Written(a)
      <3>1. cfg' \in Config
        BY <2>4 DEF Written, TypeOK, Config, Protects
      <3>2. QED
        BY <2>1, <2>4, <3>1, EndsType, EdgeType
           DEF Written, Release, TypeOK, PCs
    <2>5. CASE WriteFails(a)
      BY <2>1, <2>5, EndsType, EdgeType DEF WriteFails, Release, TypeOK, PCs
    <2>6. CASE Selected(a)
      <3>1. cfg' \in Config
        <4>1. op[a].host \in Host /\ cfg \in Config
          BY <2>1 DEF Op, TypeOK
        <4>2. [enabled |-> FALSE, host |-> op[a].host] \in Config
          BY <4>1 DEF Config
        <4>3. cfg' = [enabled |-> FALSE, host |-> op[a].host] \/ cfg' = cfg
          BY <2>6 DEF Selected
        <4>4. QED
          BY <4>1, <4>2, <4>3
      <3>2. QED
        BY <2>6, <3>1 DEF Selected, TypeOK
    <2>7. QED
      BY <1>4, <2>2, <2>3, <2>4, <2>5, <2>6 DEF Answered
  <1>5. CASE SetPolicy
    BY <1>5, ScheduleType, ConstantsAssumption DEF SetPolicy, TypeOK, PCs
  <1>6. CASE Unload
    <2>1. cancelled' \in BOOLEAN
      BY <1>6, Zenon DEF Unload, TypeOK
    <2>2. overtaken' \in BOOLEAN
      <3>1. CASE lock \in Call
        BY <1>6, <3>1 DEF Unload
      <3>2. CASE lock \notin Call
        BY <1>6, <3>2 DEF Unload
      <3>3. QED
        BY <3>1, <3>2
    <2>3. pc' \in [Actor -> PCs]
      BY <1>6 DEF Unload, TypeOK, PCs
    <2>4. reloads' \in 0..MaxReloads
      BY <1>6, ConstantsAssumption DEF Unload, TypeOK
    <2>5. QED
      BY <1>6, <2>1, <2>2, <2>3, <2>4 DEF Unload, TypeOK, PCs
  <1>7. CASE Unloaded
    BY <1>7 DEF Unloaded, TypeOK
  <1>8. CASE SetUp
    BY <1>8, ScheduleType DEF SetUp, TypeOK, PCs
  <1>9. CASE Crash
    <2>1. edge' \in [Host -> 0..MaxPolicy] /\ broken' \in BOOLEAN
      BY <1>9, EdgeType DEF Crash, TypeOK
    <2>2. pc' \in [Actor -> PCs]
      BY <1>9 DEF Crash, TypeOK, PCs
    <2>3. reloads' \in 0..MaxReloads
      BY <1>9, ConstantsAssumption DEF Crash, TypeOK
    <2>4. QED
      BY <1>9, <2>1, <2>2, <2>3 DEF Crash, TypeOK, PCs
  <1>10. CASE UNCHANGED vars
    BY <1>10 DEF vars, TypeOK
  <1>11. QED
    BY <1>1, <1>2, <1>3, <1>4, <1>5, <1>6, <1>7, <1>8, <1>9, <1>10 DEF Next

LEMMA TypeInit == Init => TypeOK
  <1> SUFFICES ASSUME Init PROVE TypeOK
    OBVIOUS
  <1>1. cfg \in Config /\ cfg.host \in Host
    BY DEF Init, Config
  <1>2. op \in [Actor -> Op]
    BY <1>1 DEF Init, Op, AllKinds
  <1>3. /\ edge \in [Host -> 0..MaxPolicy] /\ policy \in 1..MaxPolicy
        /\ want \in 0..MaxPolicy /\ reloads \in 0..MaxReloads
    BY ConstantsAssumption DEF Init
  <1>4. pc \in [Actor -> PCs]
    BY DEF Init, PCs
  <1>5. QED
    BY <1>1, <1>2, <1>3, <1>4 DEF Init, TypeOK, PCs

\* Every reachable state is well typed.
THEOREM TypeCorrect == Spec => []TypeOK
  BY TypeInit, TypeStep, PTL DEF Spec

-----------------------------------------------------------------------------
(* The invariant.                                                           *)

\* What the end of an operation does to the actors: the one that ends is not
\* busy any more, and the task sleeps again if the flag was set.
LEMMA EndsShape ==
    ASSUME TypeOK, LoopShape, NEW a \in Actor, NEW o \in Op,
           NEW ok \in BOOLEAN, Ends(a, o, ok), a = Loop => o.kind = "sync"
    PROVE  /\ pc'[a] \notin Busy /\ pc'[a] # "waiting"
           /\ \A b \in Actor \ {a} : pc'[b] = pc[b]
           /\ pc'[Loop] \notin {"selecting", "done"}
           /\ a = Loop => pc'[Loop] \in {"idle", "sleeping"} /\ ~ cancelled'
           /\ a # Loop => UNCHANGED <<pending, cancelled>>
           /\ a = Loop /\ ok /\ pending /\ ~ cancelled => pc'[Loop] = "sleeping"
           /\ a = Loop /\ cancelled => pc'[Loop] = "idle"
  BY ConstantsAssumption DEF TypeOK, LoopShape, Ends, TaskEnds, Busy, Actor

\* Begins keeps the parts of the invariant that speak of who does what.
LEMMA BeginsShape ==
    ASSUME IInv, NEW a \in Actor, NEW o \in Op, Begins(a, o), lock = NoOne,
           pc[a] \notin Busy, a = Loop => o.kind = "sync" /\ stage # "gone",
           a \in Call => pc[a] \in {"idle", "waiting"},
           UNCHANGED <<edge, policy, cfg, stage, want, broken>>,
           op' = op \/ (a \in Call /\ op'[Loop] = op[Loop])
    PROVE  /\ HolderIsBusy' /\ LoopShape' /\ NotOvertaken'
           /\ RulesAreCurrent' /\ SyncedOrComing'
  <1>0. /\ Loop \in Actor /\ Loop \notin Call /\ NoOne \notin Actor
        /\ \A c \in Call : c \in Actor
        /\ \A b \in Actor : b # Loop => b \in Call
    BY ConstantsAssumption DEF Actor
  <1>1. \A b \in Actor : pc[b] \notin Busy
    BY <1>0 DEF IInv, HolderIsBusy
  <1>2. CASE stage = "gone" \/ (o.kind = "sync" /\ ~ cfg.enabled)
    <2>1. /\ Ends(a, o, stage # "gone") /\ UNCHANGED <<lock, target, overtaken>>
          /\ (stage # "gone") \in BOOLEAN
      BY <1>2 DEF Begins
    <2>2. /\ pc'[a] \notin Busy /\ pc'[a] # "waiting"
          /\ \A b \in Actor \ {a} : pc'[b] = pc[b]
          /\ pc'[Loop] \notin {"selecting", "done"}
          /\ a = Loop => pc'[Loop] \in {"idle", "sleeping"} /\ ~ cancelled'
          /\ a # Loop => UNCHANGED <<pending, cancelled>>
      BY <2>1, EndsShape DEF IInv
    <2>3. \A b \in Actor : pc'[b] \notin Busy
      BY <1>1, <2>2
    <2>4. HolderIsBusy'
      BY <1>0, <2>1, <2>3 DEF HolderIsBusy
    <2>5. LoopShape'
      BY <1>0, <2>2 DEF IInv, LoopShape
    <2>6. NotOvertaken' /\ RulesAreCurrent'
      BY <1>0, <2>1, <2>3 DEF NotOvertaken, RulesAreCurrent, Busy
    <2>7. SyncedOrComing'
      <3>1. CASE a = Loop
        BY <1>2, <3>1 DEF SyncedOrComing
      <3>2. CASE a # Loop
        BY <1>0, <2>2, <3>2 DEF IInv, SyncedOrComing, Synced, SyncComing
      <3>3. QED
        BY <3>1, <3>2
    <2>8. QED
      BY <2>4, <2>5, <2>6, <2>7
  <1>3. CASE ~ (stage = "gone" \/ (o.kind = "sync" /\ ~ cfg.enabled))
    <2>1. /\ lock' = a /\ overtaken' = (stage # "loaded")
          /\ pc' = [pc EXCEPT ![a] = "fetching"]
          /\ UNCHANGED <<pending, cancelled>>
      BY <1>3 DEF Begins
    <2>2. pc'[a] = "fetching" /\ \A b \in Actor \ {a} : pc'[b] = pc[b]
      BY <2>1 DEF IInv, TypeOK
    <2>3. HolderIsBusy'
      BY <1>0, <1>1, <2>1, <2>2 DEF HolderIsBusy, Busy
    <2>4. LoopShape'
      BY <1>0, <1>3, <2>1, <2>2 DEF IInv, LoopShape
    <2>5. NotOvertaken'
      BY <2>1 DEF NotOvertaken
    <2>6. RulesAreCurrent'
      BY <1>0, <1>1, <2>2 DEF RulesAreCurrent, Busy
    <2>7. SyncedOrComing'
      BY <1>0, <2>2 DEF IInv, SyncedOrComing, Synced, SyncComing, Busy
    <2>8. QED
      BY <2>3, <2>4, <2>5, <2>6, <2>7
  <1>4. QED
    BY <1>2, <1>3

Shapes == HolderIsBusy /\ LoopShape /\ NotOvertaken /\ RulesAreCurrent
            /\ SyncedOrComing

LEMMA ActorFacts ==
    /\ Loop \in Actor /\ Loop \notin Call /\ NoOne \notin Actor
    /\ \A c \in Call : c \in Actor
    /\ \A b \in Actor : b # Loop => b \in Call
  BY ConstantsAssumption DEF Actor

LEMMA SerializedKeeps ==
    ASSUME IInv, NEW a \in Actor, NEW o \in Op, Serialized(a, o),
           a = Loop => o.kind = "sync" /\ pc[a] = "sleeping",
           a \in Call => pc[a] = "idle",
           UNCHANGED <<edge, policy, cfg, stage, want, broken>>,
           op' = op \/ (a \in Call /\ \A b \in Actor \ {a} : op'[b] = op[b])
    PROVE  Shapes'
  <1>1. /\ pc[a] \notin Busy /\ op'[Loop] = op[Loop]
        /\ a = Loop => stage # "gone"
    BY ActorFacts DEF IInv, LoopShape, Busy
  <1>2. CASE Begins(a, o) /\ lock = NoOne
    BY <1>1, <1>2, BeginsShape, ActorFacts DEF Shapes
  <1>3. CASE /\ pc' = [pc EXCEPT ![a] = "waiting"]
             /\ UNCHANGED <<lock, target, pending, cancelled, overtaken>>
    <2>1. pc'[a] = "waiting" /\ \A b \in Actor \ {a} : pc'[b] = pc[b]
      BY <1>3 DEF IInv, TypeOK
    <2>2. HolderIsBusy'
      BY <1>1, <1>3, <2>1 DEF IInv, HolderIsBusy, Busy
    <2>3. LoopShape'
      BY <1>1, <1>3, <2>1, ActorFacts DEF IInv, LoopShape
    <2>4. NotOvertaken'
      BY <1>3 DEF IInv, NotOvertaken
    <2>5. SyncComing => SyncComing'
      BY <2>1, ActorFacts DEF SyncComing
    <2>6. RulesAreCurrent'
      BY <1>1, <1>3, <2>1, <2>5, ActorFacts
         DEF IInv, RulesAreCurrent, Busy, Protects
    <2>7. SyncedOrComing'
      BY <2>5 DEF IInv, SyncedOrComing, Synced
    <2>8. QED
      BY <2>2, <2>3, <2>4, <2>6, <2>7 DEF Shapes
  <1>4. QED
    BY <1>2, <1>3 DEF Serialized

LEMMA ScheduleKeeps ==
    ASSUME IInv, Schedule, stage' = "loaded", stage \in {"loaded", "gone"},
           UNCHANGED <<edge, cfg, lock, op, want, cancelled, overtaken, broken>>
    PROVE  Shapes'
  <1>1. /\ pc'[Loop] \in {"sleeping", "waiting"} \cup Busy
        /\ pc[Loop] # "idle" => pc' = pc /\ pending'
        /\ \A b \in Actor \ {Loop} : pc'[b] = pc[b]
        /\ pc'[Loop] \in Busy <=> pc[Loop] \in Busy
    BY ActorFacts DEF IInv, TypeOK, LoopShape, Schedule, Busy
  <1>2. SyncComing'
    BY <1>1 DEF SyncComing
  <1>3. HolderIsBusy'
    BY <1>1, ActorFacts DEF IInv, HolderIsBusy
  <1>4. LoopShape'
    BY <1>1 DEF IInv, LoopShape, Busy
  <1>5. NotOvertaken'
    BY DEF NotOvertaken
  <1>6. RulesAreCurrent'
    BY <1>1, <1>2, ActorFacts DEF RulesAreCurrent, Busy, Schedule, IInv, TypeOK
  <1>7. SyncedOrComing'
    BY <1>2 DEF SyncedOrComing
  <1>8. QED
    BY <1>3, <1>4, <1>5, <1>6, <1>7 DEF Shapes

\* A transaction that fails: whatever it changed, it has said so.
LEMMA FailureKeeps ==
    ASSUME IInv, NEW a \in Actor, pc[a] \in Busy, Ends(a, op[a], FALSE), Release,
           broken', UNCHANGED <<policy, cfg, stage, op, want, overtaken>>
    PROVE  Shapes'
  <1>1. op[a] \in Op /\ (a = Loop => op[a].kind = "sync")
    BY DEF IInv, TypeOK, LoopShape
  <1>2. /\ pc'[a] \notin Busy
        /\ \A b \in Actor \ {a} : pc'[b] = pc[b]
        /\ pc'[Loop] \notin {"selecting", "done"}
        /\ a = Loop => pc'[Loop] \in {"idle", "sleeping"} /\ ~ cancelled'
        /\ a # Loop => UNCHANGED <<pending, cancelled>>
    BY <1>1, EndsShape DEF IInv
  <1>3. \A b \in Actor : pc'[b] \notin Busy
    BY <1>2 DEF IInv, HolderIsBusy
  <1>4. HolderIsBusy' /\ NotOvertaken' /\ RulesAreCurrent'
    BY <1>3, ActorFacts
       DEF HolderIsBusy, NotOvertaken, RulesAreCurrent, Busy, Release
  <1>5. LoopShape'
    <2>1. CASE a = Loop
      BY <1>1, <1>2, <2>1 DEF IInv, LoopShape, Busy
    <2>2. CASE a # Loop
      BY <1>2, <2>2, ActorFacts DEF IInv, LoopShape
    <2>3. QED
      BY <2>1, <2>2
  <1>6. SyncedOrComing'
    BY DEF SyncedOrComing
  <1>7. QED
    BY <1>4, <1>5, <1>6 DEF Shapes

LEMMA WrittenKeeps ==
    ASSUME IInv, NEW a \in Actor, Written(a)
    PROVE  Shapes'
  <1>1. /\ op[a] \in Op /\ (a = Loop => op[a].kind = "sync")
        /\ pc[a] = "writing" /\ pc[a] \in Busy /\ lock = a
        /\ (stage # "gone") \in BOOLEAN
    BY DEF IInv, TypeOK, LoopShape, Written, HolderIsBusy, Busy
  <1>2. /\ Ends(a, op[a], stage # "gone")
        /\ UNCHANGED <<policy, stage, op, target, want, overtaken>>
    BY DEF Written
  <1>3. /\ pc'[a] \notin Busy
        /\ \A b \in Actor \ {a} : pc'[b] = pc[b]
        /\ pc'[Loop] \notin {"selecting", "done"}
        /\ a = Loop => pc'[Loop] \in {"idle", "sleeping"} /\ ~ cancelled'
        /\ a # Loop => UNCHANGED <<pending, cancelled>>
        /\ a = Loop /\ stage # "gone" /\ pending /\ ~ cancelled
              => pc'[Loop] = "sleeping"
    BY <1>1, <1>2, EndsShape DEF IInv
  <1>4. \A b \in Actor : pc'[b] \notin Busy
    BY <1>1, <1>3 DEF IInv, HolderIsBusy
  <1>5. HolderIsBusy' /\ NotOvertaken' /\ RulesAreCurrent'
    BY <1>4, ActorFacts
       DEF HolderIsBusy, NotOvertaken, RulesAreCurrent, Busy, Release, Written
  <1>6. LoopShape'
    <2>1. CASE a = Loop
      BY <1>1, <1>2, <1>3, <2>1 DEF IInv, LoopShape, Busy
    <2>2. CASE a # Loop
      BY <1>2, <1>3, <2>2, ActorFacts DEF IInv, LoopShape
    <2>3. QED
      BY <2>1, <2>2
  <1>7. SyncedOrComing'
    <2> SUFFICES ASSUME cfg'.enabled, ~ broken', stage' = "loaded"
                 PROVE  Synced' \/ SyncComing'
      BY DEF SyncedOrComing, SyncComing
    <2>1. /\ stage = "loaded" /\ ~ overtaken
          /\ cfg' = [enabled |-> Protects(op[a]), host |-> target]
          /\ edge' = Reconciled
      BY <1>2 DEF Written
    <2>2. want = policy => Synced'
      BY <1>2, <2>1 DEF Synced, Reconciled
    <2>3. CASE a = Loop
      <3>1. want = policy \/ pending
        BY <1>1, <2>1, <2>3 DEF IInv, RulesAreCurrent
      <3>2. ~ cancelled
        BY <2>1 DEF IInv, LoopShape
      <3>3. QED
        BY <1>3, <2>1, <2>2, <2>3, <3>1, <3>2 DEF SyncComing
    <2>4. CASE a # Loop
      <3>1. a \in Call /\ Protects(op[a])
        BY <2>1, <2>4, ActorFacts
      <3>2. want = policy \/ SyncComing
        BY <1>1, <2>1, <3>1 DEF IInv, RulesAreCurrent
      <3>3. QED
        BY <1>2, <1>3, <2>2, <2>4, <3>2, ActorFacts DEF SyncComing
    <2>5. QED
      BY <2>3, <2>4
  <1>8. QED
    BY <1>5, <1>6, <1>7 DEF Shapes

LEMMA FetchedKeeps ==
    ASSUME IInv, NEW a \in Actor, Fetched(a)
    PROVE  Shapes'
  <1>1. /\ pc[a] = "fetching" /\ pc'[a] = "writing"
        /\ \A b \in Actor \ {a} : pc'[b] = pc[b]
    BY DEF IInv, TypeOK, Fetched
  <1>2. lock = a
    BY <1>1 DEF IInv, HolderIsBusy, Busy
  <1>3. HolderIsBusy'
    BY <1>1, <1>2 DEF IInv, HolderIsBusy, Busy, Fetched
  <1>4. SyncComing => SyncComing'
    BY <1>1, ActorFacts DEF SyncComing, Busy, Fetched
  <1>5. LoopShape' /\ NotOvertaken'
    BY <1>1, ActorFacts DEF IInv, LoopShape, NotOvertaken, Busy, Fetched
  <1>6. \A b \in Actor \ {a} : pc'[b] # "writing"
    BY <1>1, <1>2 DEF IInv, HolderIsBusy, Busy
  <1>7. RulesAreCurrent'
    <2>1. ASSUME NEW b \in Actor, pc'[b] = "writing",
                 b = Loop \/ Protects(op'[b])
          PROVE  want' = policy'
      <3>1. b = a
        BY <1>6, <2>1
      <3>2. Protects(op[a])
        BY <2>1, <3>1 DEF Fetched, IInv, LoopShape, Protects
      <3>3. QED
        BY <3>2 DEF Fetched
    <2>2. QED
      BY <2>1, ActorFacts DEF RulesAreCurrent
  <1>8. SyncedOrComing'
    BY <1>4 DEF IInv, SyncedOrComing, Synced, Fetched
  <1>9. QED
    BY <1>3, <1>5, <1>7, <1>8 DEF Shapes

LEMMA SelectedKeeps ==
    ASSUME IInv, NEW a \in Actor, Selected(a)
    PROVE  Shapes'
  <1>1. /\ pc[a] = "selecting" /\ a # Loop /\ pc'[a] = "done"
        /\ \A b \in Actor \ {a} : pc'[b] = pc[b]
    BY DEF IInv, TypeOK, LoopShape, Selected
  <1>2. HolderIsBusy' /\ LoopShape' /\ NotOvertaken'
    BY <1>1, ActorFacts
       DEF IInv, HolderIsBusy, LoopShape, NotOvertaken, Busy, Selected
  <1>3. SyncComing => SyncComing'
    BY <1>1, ActorFacts DEF SyncComing, Selected
  <1>4. RulesAreCurrent'
    BY <1>1, <1>3, ActorFacts DEF IInv, RulesAreCurrent, Selected, Protects
  <1>5. SyncedOrComing'
    <2>1. cfg' = cfg \/ ~ cfg'.enabled
      BY DEF Selected
    <2>2. QED
      BY <1>3, <2>1 DEF IInv, SyncedOrComing, Synced, Selected
  <1>6. QED
    BY <1>2, <1>4, <1>5 DEF Shapes

LEMMA UnloadKeeps ==
    ASSUME IInv, Unload \/ Unloaded
    PROVE  Shapes'
  <1>1. /\ stage' \in {"unloading", "gone"} /\ lock' = lock /\ op' = op
        /\ \A b \in Actor \ {Loop} : pc'[b] = pc[b]
        /\ pc'[Loop] \in Busy <=> pc[Loop] \in Busy
        /\ pc'[Loop] \notin {"selecting", "done"}
    BY ActorFacts DEF IInv, TypeOK, LoopShape, Unload, Unloaded, Busy
  <1>2. HolderIsBusy'
    BY <1>1, ActorFacts DEF IInv, HolderIsBusy
  <1>3. LoopShape'
    <2>1. CASE Unload
      BY <1>1, <2>1, ActorFacts DEF IInv, TypeOK, LoopShape, Unload, Busy
    <2>2. CASE Unloaded
      BY <1>1, <2>2 DEF IInv, LoopShape, Unloaded, Busy
    <2>3. QED
      BY <2>1, <2>2
  <1>4. NotOvertaken'
    BY <1>1 DEF IInv, NotOvertaken, Unload, Unloaded
  <1>5. SyncComing'
    BY <1>1 DEF SyncComing
  <1>6. RulesAreCurrent' /\ SyncedOrComing'
    BY <1>1, <1>5 DEF RulesAreCurrent, SyncedOrComing
  <1>7. QED
    BY <1>2, <1>3, <1>4, <1>6 DEF Shapes

LEMMA CrashKeeps ==
    ASSUME IInv, Crash
    PROVE  Shapes'
  <1>1. /\ lock' = NoOne /\ op' = op /\ stage' = "loaded" /\ ~ cancelled'
        /\ \A b \in Actor : pc'[b] \in {"idle", "sleeping", "done"}
        /\ pc'[Loop] = IF cfg.enabled THEN "sleeping" ELSE "idle"
        /\ cfg' = cfg
    BY ActorFacts DEF Crash
  <1>2. HolderIsBusy' /\ LoopShape' /\ NotOvertaken' /\ RulesAreCurrent'
    BY <1>1, ActorFacts
       DEF IInv, HolderIsBusy, LoopShape, NotOvertaken, RulesAreCurrent, Busy
  <1>3. SyncedOrComing'
    BY <1>1 DEF SyncedOrComing, SyncComing
  <1>4. QED
    BY <1>2, <1>3 DEF Shapes

LEMMA InvariantStep == IInv /\ [Next]_vars => IInv'
  <1> SUFFICES ASSUME IInv, [Next]_vars PROVE IInv'
    OBVIOUS
  <1>1. TypeOK'
    BY TypeStep DEF IInv
  <1>2. SUFFICES Shapes'
    BY <1>1 DEF IInv, Shapes
  <1>3. ASSUME NEW c \in Call, NEW k \in Kinds, NEW h \in Host,
               Command(c, [kind |-> k, host |-> h])
        PROVE  Shapes'
    <2> DEFINE o == [kind |-> k, host |-> h]
    <2>1. /\ o \in Op /\ c \in Actor /\ c # Loop /\ pc[c] = "idle"
          /\ op' = [op EXCEPT ![c] = o]
          /\ \A b \in Actor \ {c} : op'[b] = op[b]
          /\ UNCHANGED <<edge, policy, cfg, stage, want, broken>>
      BY <1>3, ConstantsAssumption DEF Command, Op, Actor, AllKinds, IInv, TypeOK
    <2>2. CASE Serialized(c, o)
      BY <2>1, <2>2, SerializedKeeps
    <2>3. CASE Ends(c, o, TRUE) /\ UNCHANGED <<lock, target, overtaken>>
      <3>1. /\ pc'[c] \notin Busy
            /\ \A b \in Actor \ {c} : pc'[b] = pc[b]
            /\ UNCHANGED <<pending, cancelled>>
        BY <2>1, <2>3, EndsShape DEF IInv
      <3>2. HolderIsBusy' /\ LoopShape' /\ NotOvertaken'
        BY <2>1, <2>3, <3>1, ActorFacts
           DEF IInv, HolderIsBusy, LoopShape, NotOvertaken, Busy
      <3>3. SyncComing => SyncComing'
        BY <2>1, <3>1, ActorFacts DEF SyncComing
      <3>4. RulesAreCurrent' /\ SyncedOrComing'
        BY <2>1, <2>3, <3>1, <3>3, ActorFacts
           DEF IInv, RulesAreCurrent, SyncedOrComing, Synced, Protects, Busy
      <3>5. QED
        BY <3>2, <3>4 DEF Shapes
    <2>4. QED
      BY <1>3, <2>2, <2>3 DEF Command
  <1>4. ASSUME NEW a \in Actor, Turn(a) PROVE Shapes'
    <2>1. /\ pc[a] = "waiting" /\ pc[a] \notin Busy /\ op[a] \in Op
          /\ a = Loop => op[a].kind = "sync" /\ stage # "gone"
      BY <1>4 DEF Turn, IInv, TypeOK, LoopShape, Busy
    <2>2. QED
      BY <1>4, <2>1, BeginsShape DEF Turn, Shapes
  <1>5. CASE Slept
    <2>1. /\ Loop \in Actor /\ Loop \notin Call /\ op[Loop] \in Op
          /\ op[Loop].kind = "sync"
      BY ActorFacts DEF IInv, TypeOK, LoopShape
    <2>2. QED
      BY <1>5, <2>1, SerializedKeeps DEF Slept
  <1>6. ASSUME NEW a \in Actor, FetchFails(a) \/ WriteFails(a) PROVE Shapes'
    BY <1>6, FailureKeeps DEF FetchFails, WriteFails, Busy
  <1>7. CASE SetPolicy
    <2>1. CASE stage = "loaded"
      BY <1>7, <2>1, ScheduleKeeps DEF SetPolicy
    <2>2. CASE stage # "loaded"
      BY <1>7, <2>2
         DEF SetPolicy, Shapes, IInv, HolderIsBusy, LoopShape, NotOvertaken,
             RulesAreCurrent, SyncedOrComing, SyncComing
    <2>3. QED
      BY <2>1, <2>2
  <1>8. CASE SetUp
    <2>1. CASE cfg.enabled
      BY <1>8, <2>1, ScheduleKeeps DEF SetUp
    <2>2. CASE ~ cfg.enabled
      <3>1. /\ pc[Loop] = "idle" /\ stage' = "loaded"
            /\ UNCHANGED <<pc, pending, edge, policy, cfg, lock, op, want,
                           cancelled, overtaken, broken>>
        BY <1>8, <2>2 DEF SetUp, IInv, LoopShape
      <3>2. HolderIsBusy' /\ LoopShape' /\ NotOvertaken' /\ SyncedOrComing'
        BY <1>8, <2>2, <3>1
           DEF SetUp, IInv, HolderIsBusy, LoopShape, NotOvertaken,
               SyncedOrComing
      <3>3. RulesAreCurrent'
        BY <1>8, <3>1 DEF SetUp, IInv, RulesAreCurrent, HolderIsBusy,
                          NotOvertaken, Busy, Actor
      <3>4. QED
        BY <3>2, <3>3 DEF Shapes
    <2>3. QED
      BY <2>1, <2>2
  <1>9. CASE UNCHANGED vars
    BY <1>9 DEF vars, Shapes, IInv, HolderIsBusy, LoopShape, NotOvertaken,
                RulesAreCurrent, SyncedOrComing, Synced, SyncComing
  <1>10. QED
    BY <1>3, <1>4, <1>5, <1>6, <1>7, <1>8, <1>9, FetchedKeeps, WrittenKeeps,
       SelectedKeeps, UnloadKeeps, CrashKeeps
       DEF Next, Answered

LEMMA InvariantInit == Init => IInv
  <1> SUFFICES ASSUME Init PROVE IInv
    OBVIOUS
  <1>1. TypeOK
    BY TypeInit
  <1>2. /\ lock = NoOne /\ op[Loop].kind = "sync"
        /\ \A a \in Actor : pc[a] = "idle"
        /\ ~ cancelled /\ ~ cfg.enabled /\ stage = "loaded"
    BY ActorFacts DEF Init
  <1>3. QED
    BY <1>1, <1>2, ActorFacts
       DEF IInv, HolderIsBusy, LoopShape, NotOvertaken, RulesAreCurrent,
           SyncedOrComing, Busy

\* The inductive invariant: the lock's holder, the task and the running
\* transaction keep the promise that a change is under way or has arrived.
THEOREM Invariance == Spec => []IInv
  BY InvariantInit, InvariantStep, PTL DEF Spec

\* No change of the policy is lost: when nothing runs or is scheduled, edge
\* protection is on and the last transaction succeeded, the proxy holds the
\* policy in force.
THEOREM NoChangeIsLost == Spec => []QuietMeansSynced
  <1>1. IInv => QuietMeansSynced
    BY ActorFacts DEF IInv, SyncedOrComing, SyncComing, Quiet, QuietMeansSynced, Busy
  <1>2. QED
    BY <1>1, Invariance, PTL
=============================================================================
