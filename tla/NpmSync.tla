------------------------------- MODULE NpmSync -------------------------------
(***************************************************************************)
(* When the policy reaches Nginx Proxy Manager: events schedule a          *)
(* debounced synchronization, panel commands run transactions of their     *)
(* own, one lock serializes the transactions, and the selection of another *)
(* proxy host writes the stored connection without it.                     *)
(*                                                                         *)
(* Actors are the synchronization task (Loop) and the panel commands       *)
(* (Call).  A step is the code between two suspension points.  The hosts   *)
(* of one transaction change in one step here, or, when it fails, any of   *)
(* them may have (NpmReconcile has the steps in between).  One host is     *)
(* protected at a time; a selection names a host that exists.              *)
(***************************************************************************)
EXTENDS Naturals, FiniteSets

CONSTANTS
    Host,       \* proxy hosts
    Call,       \* panel commands, each made at most once
    Loop,       \* the task of _async_debounced_sync
    NoOne,      \* the policy lock is free
    Kinds,      \* the panel commands this instance makes
    MaxPolicy,  \* bound: local policies, one after the other
    MaxReloads, \* bound: unloads and crashes
    Faults      \* what may go wrong: fetch, write, crash

AllKinds == {"enable", "sync", "disable", "select"}

ASSUME ConstantsAssumption ==
    /\ Host # {}
    /\ Loop \notin Call /\ NoOne \notin Call \cup {Loop}
    /\ Kinds \subseteq AllKinds
    /\ MaxPolicy \in Nat \ {0} /\ MaxReloads \in Nat
    /\ Faults \subseteq {"fetch", "write", "crash"}

Actor == Call \cup {Loop}

VARIABLES
    edge,       \* version of the managed block on each host, 0 is none
    policy,     \* the version the integration would write now
    cfg,        \* the stored connection: enabled, proxy_host_id
    stage,      \* loaded, unloading, or gone
    pending,    \* _NPM_SYNC_PENDING
    lock,       \* who runs a policy transaction
    pc,         \* where each actor is
    op,         \* what each actor does, and the host it selects
    target,     \* proxy_host_id as the running transaction read it
    want,       \* the version it writes
    cancelled,  \* the task is cancelled and finishes its transaction
    overtaken,  \* history: an unload came while the transaction ran
    broken,     \* history: the last transaction did not succeed
    reloads     \* counter of the bound

vars == <<edge, policy, cfg, stage, pending, lock, pc, op, target, want,
          cancelled, overtaken, broken, reloads>>

Config == [enabled : BOOLEAN, host : Host]
Op == [kind : AllKinds \cup {"none"}, host : Host]

TypeOK ==
    /\ edge \in [Host -> 0..MaxPolicy]
    /\ policy \in 1..MaxPolicy
    /\ cfg \in Config
    /\ stage \in {"loaded", "unloading", "gone"}
    /\ pending \in BOOLEAN
    /\ lock \in Actor \cup {NoOne}
    /\ pc \in [Actor -> {"idle", "sleeping", "waiting", "fetching", "writing",
                         "selecting", "done"}]
    /\ op \in [Actor -> Op]
    /\ target \in Host
    /\ want \in 0..MaxPolicy
    /\ cancelled \in BOOLEAN
    /\ overtaken \in BOOLEAN /\ broken \in BOOLEAN
    /\ reloads \in 0..MaxReloads

\* Connected, a host selected, nothing enabled.
Init ==
    /\ edge = [h \in Host |-> 0]
    /\ policy = 1
    /\ cfg \in [enabled : {FALSE}, host : Host]
    /\ stage = "loaded"
    /\ pending = FALSE
    /\ lock = NoOne
    /\ pc = [a \in Actor |-> "idle"]
    /\ op = [a \in Actor |-> [kind |-> IF a = Loop THEN "sync" ELSE "none",
                              host |-> cfg.host]]
    /\ target = cfg.host
    /\ want = 0
    /\ cancelled = FALSE
    /\ overtaken = FALSE /\ broken = FALSE
    /\ reloads = 0

-----------------------------------------------------------------------------
(* Scheduling.                                                              *)

\* schedule_npm_sync.  A new task takes the flag at once and sleeps.
Schedule ==
    IF pc[Loop] = "idle"
    THEN pc' = [pc EXCEPT ![Loop] = "sleeping"] /\ pending' = FALSE
    ELSE pending' = TRUE /\ UNCHANGED pc

\* Mutant: the flag is taken after the synchronization.
TaskEndsForgetful(ok) ==
    /\ pc' = [pc EXCEPT ![Loop] = "idle"]
    /\ pending' = (pending /\ ~ ok)
    /\ cancelled' = FALSE

\* async_sync_npm has returned or raised in the task: another round if the
\* flag was set meanwhile; an error ends the task and leaves the flag.
TaskEnds(ok) ==
    /\ IF ok /\ pending /\ ~ cancelled
       THEN pc' = [pc EXCEPT ![Loop] = "sleeping"] /\ pending' = FALSE
       ELSE pc' = [pc EXCEPT ![Loop] = "idle"] /\ UNCHANGED pending
    /\ cancelled' = FALSE

\* A selection goes on once its disable transaction succeeded.
Ends(a, o, ok) ==
    \/ a = Loop /\ TaskEnds(ok)
    \/ /\ a # Loop
       /\ pc' = [pc EXCEPT ![a] =
                   IF ok /\ o.kind = "select" THEN "selecting" ELSE "done"]
       /\ UNCHANGED <<pending, cancelled>>

-----------------------------------------------------------------------------
(* Transactions.                                                            *)

Protects(o) == o.kind \in {"enable", "sync"}

\* The lock is the actor's: it reads the stored connection and asks NPM for
\* its hosts, unless nothing is loaded or nothing is to be synchronized.
Begins(a, o) ==
    IF stage = "gone" \/ (o.kind = "sync" /\ ~ cfg.enabled)
    THEN Ends(a, o, stage # "gone") /\ UNCHANGED <<lock, target, overtaken>>
    ELSE /\ lock' = a
         /\ target' = cfg.host /\ overtaken' = (stage # "loaded")
         /\ pc' = [pc EXCEPT ![a] = "fetching"]
         /\ UNCHANGED <<pending, cancelled>>

Serialized(a, o) ==
    IF lock = NoOne /\ \A b \in Actor : pc[b] # "waiting"
    THEN Begins(a, o)
    ELSE /\ pc' = [pc EXCEPT ![a] = "waiting"]
         /\ UNCHANGED <<lock, target, pending, cancelled, overtaken>>

\* A panel command arrives.  Only an enabled connection is disabled before
\* another host is selected.
Command(c, o) ==
    /\ pc[c] = "idle" /\ stage = "loaded"
    /\ op' = [op EXCEPT ![c] = o]
    /\ IF o.kind = "select" /\ ~ cfg.enabled
       THEN Ends(c, o, TRUE) /\ UNCHANGED <<lock, target, overtaken>>
       ELSE Serialized(c, o)
    /\ UNCHANGED <<edge, policy, cfg, stage, want, broken, reloads>>

Slept ==
    /\ pc[Loop] = "sleeping"
    /\ Serialized(Loop, op[Loop])
    /\ UNCHANGED <<edge, policy, cfg, stage, op, want, broken, reloads>>

Turn(a) ==
    /\ pc[a] = "waiting" /\ lock = NoOne
    /\ Begins(a, op[a])
    /\ UNCHANGED <<edge, policy, cfg, stage, op, want, broken, reloads>>

Release == lock' = NoOne

\* Mutant: the rules of a later moment.
FetchedEarly(a) ==
    /\ pc[a] = "fetching"
    /\ want' = IF Protects(op[a]) THEN policy + 1 ELSE 0
    /\ pc' = [pc EXCEPT ![a] = "writing"]
    /\ UNCHANGED <<edge, policy, cfg, stage, pending, lock, op, target,
                   cancelled, broken, reloads, overtaken>>

\* The hosts are there: the rules are those of this moment.
Fetched(a) ==
    /\ pc[a] = "fetching"
    /\ want' = IF Protects(op[a]) THEN policy ELSE 0
    /\ pc' = [pc EXCEPT ![a] = "writing"]
    /\ UNCHANGED <<edge, policy, cfg, stage, pending, lock, op, target,
                   cancelled, broken, reloads, overtaken>>

FetchFails(a) ==
    /\ "fetch" \in Faults
    /\ pc[a] = "fetching"
    /\ broken' = TRUE
    /\ Ends(a, op[a], FALSE) /\ Release
    /\ UNCHANGED <<edge, policy, cfg, stage, op, target, want, reloads,
                   overtaken>>

\* Blocks on the other hosts are found by their marker and removed.
Reconciled == [h \in Host |-> IF h = target THEN want ELSE 0]

\* Every host is done and the connection is stored, if there still is an
\* entry to store it in.
Written(a) ==
    /\ pc[a] = "writing"
    /\ edge' = Reconciled
    /\ broken' = (stage = "gone" \/ overtaken)
    /\ cfg' = IF stage = "gone" THEN cfg
              ELSE [enabled |-> Protects(op[a]), host |-> target]
    /\ Ends(a, op[a], stage # "gone") /\ Release
    /\ UNCHANGED <<policy, stage, op, target, want, reloads, overtaken>>

PartlyReconciled ==
    \E S \in SUBSET Host :
        edge' = [h \in Host |-> IF h \in S THEN Reconciled[h] ELSE edge[h]]

\* Mutant: the error keeps the lock.
WriteFailsLocked(a) ==
    /\ "write" \in Faults
    /\ pc[a] = "writing"
    /\ PartlyReconciled
    /\ broken' = TRUE
    /\ Ends(a, op[a], FALSE)
    /\ UNCHANGED <<policy, cfg, stage, lock, op, target, want, reloads,
                   overtaken>>

WriteFails(a) ==
    /\ "write" \in Faults
    /\ pc[a] = "writing"
    /\ PartlyReconciled
    /\ broken' = TRUE
    /\ Ends(a, op[a], FALSE) /\ Release
    /\ UNCHANGED <<policy, cfg, stage, op, target, want, reloads, overtaken>>

\* async_select_npm_host: the hosts are there, the connection is stored.  No
\* lock is taken, and the connection may have been enabled meanwhile.
Selected(c) ==
    /\ pc[c] = "selecting"
    /\ \/ stage # "gone" /\ cfg' = [enabled |-> FALSE, host |-> op[c].host]
       \/ stage = "gone" /\ UNCHANGED cfg
       \/ "fetch" \in Faults /\ UNCHANGED cfg
    /\ pc' = [pc EXCEPT ![c] = "done"]
    /\ UNCHANGED <<edge, policy, stage, pending, lock, op, target, want,
                   cancelled, broken, reloads, overtaken>>

-----------------------------------------------------------------------------
(* Everybody else.                                                          *)

\* A ban, a network or a setting changes; its event schedules.
SetPolicy ==
    /\ policy < MaxPolicy
    /\ policy' = policy + 1
    /\ IF stage = "loaded" THEN Schedule ELSE UNCHANGED <<pc, pending>>
    /\ UNCHANGED <<edge, cfg, stage, lock, op, target, want, cancelled, broken,
                   reloads, overtaken>>

\* unload_npm_sync cancels the task, which finishes its transaction first.
Unload ==
    /\ stage = "loaded" /\ reloads < MaxReloads
    /\ stage' = "unloading"
    /\ reloads' = reloads + 1
    /\ overtaken' = (lock \in Call)
    /\ IF pc[Loop] \in {"sleeping", "waiting"}
       THEN pc' = [pc EXCEPT ![Loop] = "idle"] /\ UNCHANGED cancelled
       ELSE cancelled' = (pc[Loop] # "idle") /\ UNCHANGED pc
    /\ UNCHANGED <<edge, policy, cfg, pending, lock, op, target, want, broken>>

Unloaded ==
    /\ stage = "unloading" /\ pc[Loop] = "idle"
    /\ stage' = "gone"
    /\ pending' = FALSE
    /\ UNCHANGED <<edge, policy, cfg, lock, pc, op, target, want, cancelled,
                   broken, reloads, overtaken>>

\* Mutant: nothing is synchronized when the integration is set up.
SetUpQuiet ==
    /\ stage = "gone"
    /\ stage' = "loaded"
    /\ UNCHANGED <<edge, policy, cfg, pending, lock, pc, op, target, want,
                   cancelled, broken, reloads, overtaken>>

SetUp ==
    /\ stage = "gone"
    /\ stage' = "loaded"
    /\ IF cfg.enabled THEN Schedule ELSE UNCHANGED <<pc, pending>>
    /\ UNCHANGED <<edge, policy, cfg, lock, op, target, want, cancelled, broken,
                   reloads, overtaken>>

\* The process ends, with requests on their way, and is set up again.
Crash ==
    /\ "crash" \in Faults
    /\ reloads < MaxReloads
    /\ reloads' = reloads + 1
    /\ IF \E a \in Actor : pc[a] = "writing"
       THEN PartlyReconciled /\ broken' = TRUE
       ELSE UNCHANGED <<edge, broken>>
    /\ stage' = "loaded"
    /\ pending' = FALSE /\ cancelled' = FALSE
    /\ lock' = NoOne
    /\ pc' = [a \in Actor |->
                IF a = Loop /\ cfg.enabled THEN "sleeping"
                ELSE IF a = Loop \/ pc[a] = "idle" THEN "idle" ELSE "done"]
    /\ UNCHANGED <<policy, cfg, op, target, want, overtaken>>

Answered(a) ==
    Fetched(a) \/ FetchFails(a) \/ Written(a) \/ WriteFails(a) \/ Selected(a)

Next ==
    \/ \E c \in Call, k \in Kinds, h \in Host :
          Command(c, [kind |-> k, host |-> h])
    \/ \E a \in Actor : Turn(a) \/ Answered(a)
    \/ Slept \/ SetPolicy \/ Unload \/ Unloaded \/ SetUp \/ Crash

Spec == Init /\ [][Next]_vars

\* Sleeps and requests end, a free lock is given to a waiter, and an unload
\* goes on when the task it waits for has ended.
Fairness ==
    /\ \A a \in Actor : WF_vars(Turn(a)) /\ WF_vars(Answered(a))
    /\ WF_vars(Slept) /\ WF_vars(Unloaded)

FairSpec == Spec /\ Fairness

-----------------------------------------------------------------------------
Quiet ==
    /\ stage = "loaded" /\ lock = NoOne
    /\ \A a \in Actor : pc[a] \in {"idle", "done"}

\* The selected host has the policy in force, no other has a block.
Synced == \A h \in Host : edge[h] = IF h = cfg.host THEN policy ELSE 0

\* When nothing is running or scheduled, protection is enabled and the last
\* transaction succeeded, the selected host has the policy in force, the last
\* change of it included, and no other host has a block: no change is lost
\* between the flag, the sleep, the lock and the reading of the rules.
QuietMeansSynced ==
    Quiet /\ cfg.enabled /\ ~ broken => Synced

\* While the integration stays loaded and enabled and transactions succeed,
\* the policy in force arrives at the proxy.
ChangesArrive ==
    <>[](stage = "loaded" /\ cfg.enabled /\ ~ broken)
        => <>[](edge[cfg.host] = policy)

\* Every panel command is answered: failures, unloading and the task's
\* transactions never keep the policy lock.
EveryCommandEnds == \A c \in Call : pc[c] # "idle" ~> pc[c] = "done"

-----------------------------------------------------------------------------
(* The inductive invariant behind QuietMeansSynced.                         *)

Busy == {"fetching", "writing"}

\* The lock belongs to the actor that has a request on its way.
HolderIsBusy == \A a \in Actor : pc[a] \in Busy <=> lock = a

\* The task only synchronizes, is gone when the integration is, and outlives
\* its cancellation only while an unload waits for its transaction.
LoopShape ==
    /\ op[Loop].kind = "sync"
    /\ pc[Loop] \notin {"selecting", "done"}
    /\ stage = "gone" => pc[Loop] = "idle"
    /\ cancelled => stage = "unloading" /\ pc[Loop] \in Busy

\* A transaction no unload came into ran in the loaded integration.
NotOvertaken == lock \in Call /\ ~ overtaken => stage = "loaded"

SyncComing ==
    stage # "loaded" \/ pc[Loop] \in {"sleeping", "waiting"} \cup Busy

\* Rules on their way to the proxy are those in force, or another round is
\* certain: through the flag for the task, through the task for a command.
RulesAreCurrent ==
    /\ pc[Loop] = "writing" /\ stage = "loaded" => want = policy \/ pending
    /\ \A c \in Call :
          pc[c] = "writing" /\ Protects(op[c]) /\ ~ overtaken =>
              want = policy \/ SyncComing

SyncedOrComing == cfg.enabled /\ ~ broken => Synced \/ SyncComing

IInv == TypeOK /\ HolderIsBusy /\ LoopShape /\ NotOvertaken
            /\ RulesAreCurrent /\ SyncedOrComing

-----------------------------------------------------------------------------
(* A statement of the repository that the code does not keep.              *)

\* README: disabling "removes our marked blocks from every host IP Ban Manager
\* managed".  When the stored connection says disabled, nothing is running and
\* the last transaction succeeded, no host has a managed block.
DisabledIsClean ==
    Quiet /\ ~ cfg.enabled /\ ~ broken => \A h \in Host : edge[h] = 0
=============================================================================
