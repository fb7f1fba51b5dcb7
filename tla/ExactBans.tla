------------------------------ MODULE ExactBans ------------------------------
(***************************************************************************)
(* Home Assistant's exact ban list as IP Ban Manager drives it: the live   *)
(* lookup used by the request path, the file ip_bans.yaml, and the one     *)
(* lock (ban_file_lock) under which the live lookup and the file change.   *)
(*                                                                         *)
(* Each member of Task is one call of a ban-list coroutine.  The steps of  *)
(* a call are the stretches of code between two suspension points:         *)
(*    Call    up to the lock (and through it when it is free),             *)
(*    Enter   from the lock to the executor job,                           *)
(*    the executor job itself, which lands, fails or outlives its call,    *)
(*    Finish..., RollBack, FailAdd   from the job's result to the return.  *)
(* Cancel delivers a CancelledError at the call's suspension point, and    *)
(* Crash ends the process and starts it again.                             *)
(*                                                                         *)
(* Abstracted: timestamps and the order of the file's entries, the YAML    *)
(* text, notifications and metrics.  The failed-login counters which these *)
(* calls clear as they return are LoginFlow's.                             *)
(***************************************************************************)
EXTENDS FiniteSets

CONSTANTS
    Addr,       \* source addresses
    Task,       \* calls, each made at most once
    NoTask,     \* the lock is free
    Kinds,      \* the kinds of call this instance makes
    Classes,    \* the policy classes an address may be in
    Faults      \* the faults the environment may inject

AllKinds == {"add", "login", "remove", "clear", "setup", "replace", "load"}
AllClasses == {"plain", "trusted", "watched", "blocked", "locked"}
AllFaults == {"write", "append", "read", "cancel", "repeat", "crash"}

ASSUME ConstantsAssumption ==
    /\ NoTask \notin Task
    /\ Kinds \subseteq AllKinds
    /\ Classes \subseteq AllClasses /\ Classes # {}
    /\ Faults \subseteq AllFaults

VARIABLES
    live,       \* addresses in ban_manager.ip_bans_lookup
    file,       \* addresses in ip_bans.yaml; {} is a missing file
    class,      \* what the managed policy says of each address
    lock,       \* the call inside ban_file_lock
    pc,         \* where each call is
    op,         \* what each call was asked to do
    stale,      \* addresses a call listed before it waited for the lock
    prev,       \* previous_bans of async_mutate_ip_bans; what a load has read
    shielded,   \* calls that already swallowed one CancelledError
    outcome,    \* how each call ended
    unbanned,   \* ip_unbanned events: <<call, address>>
    orphans,    \* executor jobs whose call is gone
    unsaved     \* history: addresses whose file entry is not promised

vars == <<live, file, class, lock, pc, op, stale, prev, shielded,
          outcome, unbanned, orphans, unsaved>>

Op == [kind : AllKinds \cup {"none"}, addrs : SUBSET Addr]
Job == [kind : {"append", "rewrite"}, addrs : SUBSET Addr]
Outside == {"new", "queued", "done"}
Inside == {"writing", "landed", "failed",
           "appending", "appended", "appendfailed", "loading", "read"}
Outcome == {"none", "ok", "skipped", "rejected", "error", "cancelled", "lost"}

TypeOK ==
    /\ live \in SUBSET Addr
    /\ file \in SUBSET Addr
    /\ class \in [Addr -> Classes]
    /\ lock \in Task \cup {NoTask}
    /\ pc \in [Task -> Outside \cup Inside]
    /\ op \in [Task -> Op]
    /\ stale \in [Task -> SUBSET Addr]
    /\ prev \in [Task -> SUBSET Addr]
    /\ shielded \in SUBSET Task
    /\ outcome \in [Task -> Outcome]
    /\ unbanned \in SUBSET (Task \X Addr)
    /\ orphans \in SUBSET Job
    /\ unsaved \in SUBSET Addr

Init ==
    /\ live \in SUBSET Addr
    /\ file = live
    /\ class \in [Addr -> Classes]
    /\ lock = NoTask
    /\ pc = [t \in Task |-> "new"]
    /\ op = [t \in Task |-> [kind |-> "none", addrs |-> {}]]
    /\ stale = [t \in Task |-> {}]
    /\ prev = [t \in Task |-> {}]
    /\ shielded = {}
    /\ outcome = [t \in Task |-> "none"]
    /\ unbanned = {}
    /\ orphans = {}
    /\ unsaved = {}

-----------------------------------------------------------------------------
(* The policy as the ban list sees it.                                     *)

\* "trusted": internal, or allowlisted while allowlisted logins cannot ban.
\* "watched": allowlisted while allowlisted logins can ban.
\* "blocked": inside a blocked network.  "locked": default deny or region.
Managed(a) == class[a] \in {"blocked", "locked"}

\* remote_addr in ip_bans_lookup, the network-aware membership test.
InLookup(a) == a \in live \/ Managed(a)

-----------------------------------------------------------------------------
(* Ends of a call.  Leave releases the lock.                                *)

Return(t, result) ==
    /\ pc' = [pc EXCEPT ![t] = "done"]
    /\ outcome' = [outcome EXCEPT ![t] = result]

Leave(t, result) == lock' = NoTask /\ Return(t, result)

-----------------------------------------------------------------------------
(* The critical section, from the lock to the first suspension point.  o   *)
(* is the request, so that a call which finds the lock free can run it in  *)
(* the step that made the call.                                            *)

Mutated(o, listed) ==
    CASE o.kind = "remove"  -> live \ o.addrs
      [] o.kind = "setup"   -> live \ listed
      [] o.kind = "clear"   -> {}
      [] o.kind = "replace" -> o.addrs

Mutators == {"remove", "setup", "clear", "replace"}
Adders == {"add", "login"}

\* Mutant: popping an address that is not there raises nothing.
EnterMutateUnchecked(t, o, listed) ==
    /\ o.kind \in Mutators
    /\ prev' = [prev EXCEPT ![t] = live]
    /\ live' = Mutated(o, listed)
    /\ lock' = t
    /\ pc' = [pc EXCEPT ![t] = "writing"]
    /\ UNCHANGED <<file, outcome>>

\* async_mutate_ip_bans: remember, mutate, publish, start the durable write.
EnterMutate(t, o, listed) ==
    /\ o.kind \in Mutators
    /\ o.kind = "remove" => o.addrs \subseteq live
    /\ prev' = [prev EXCEPT ![t] = live]
    /\ live' = Mutated(o, listed)
    /\ lock' = t
    /\ pc' = [pc EXCEPT ![t] = "writing"]
    /\ UNCHANGED <<file, outcome>>

\* remove(): the address is not banned, nothing is written.
EnterNotBanned(t, o) ==
    /\ o.kind = "remove"
    /\ ~ (o.addrs \subseteq live)
    /\ Return(t, "error")
    /\ UNCHANGED <<live, file, lock, prev>>

\* Mutant: the allowlist is not consulted again inside the lock.
EnterAddUnchecked(t, o) ==
    /\ o.kind \in Adders
    /\ \A a \in o.addrs : ~ InLookup(a)
    /\ live' = live \cup o.addrs
    /\ lock' = t
    /\ pc' = [pc EXCEPT ![t] = "appending"]
    /\ UNCHANGED <<file, prev, outcome>>

\* allowlist_async_add_ban: a new exact ban, live first, then appended.
EnterAdd(t, o) ==
    /\ o.kind \in Adders
    /\ \A a \in o.addrs : class[a] # "trusted" /\ ~ InLookup(a)
    /\ live' = live \cup o.addrs
    /\ lock' = t
    /\ pc' = [pc EXCEPT ![t] = "appending"]
    /\ UNCHANGED <<file, prev, outcome>>

\* allowlist_async_add_ban returns without adding: the address is trusted, or
\* the lookup already contains it.
EnterNoAdd(t, o) ==
    /\ o.kind \in Adders
    /\ \E a \in o.addrs : class[a] = "trusted" \/ InLookup(a)
    /\ Return(t, "skipped")
    /\ UNCHANGED <<live, file, lock, prev>>

\* network_aware_async_load: the native load starts reading the file.
EnterLoad(t, o) ==
    /\ o.kind = "load"
    /\ lock' = t
    /\ pc' = [pc EXCEPT ![t] = "loading"]
    /\ UNCHANGED <<live, file, prev, outcome>>

EnterWith(t, o, listed) ==
    /\ \/ EnterMutate(t, o, listed)
       \/ EnterNotBanned(t, o)
       \/ EnterAdd(t, o)
       \/ EnterNoAdd(t, o)
       \/ EnterLoad(t, o)
    /\ UNCHANGED <<class, shielded, unbanned, orphans, unsaved>>

\* A waiter gets the lock.
Enter(t) ==
    /\ pc[t] = "queued"
    /\ lock = NoTask
    /\ EnterWith(t, op[t], stale[t])
    /\ UNCHANGED <<op, stale>>

-----------------------------------------------------------------------------
(* Calls.                                                                   *)

Request(k, S) == [kind |-> k, addrs |-> S]

\* Requests the callers can make: one address, a whole list, or none.
Requests ==
    {Request(k, {a}) : k \in Kinds \cap {"add", "login", "remove"}, a \in Addr}
        \cup {Request(k, S) : k \in Kinds \cap {"replace"}, S \in SUBSET Addr}
        \cup {Request(k, {}) : k \in Kinds \cap {"clear", "setup", "load"}}

\* What the coroutine lists before it waits: every ban (remove_all), the
\* trusted bans (setup), the bans the new list leaves out (replace).
Listed(o) ==
    CASE o.kind = "clear"   -> live
      [] o.kind = "setup"   -> {a \in live : class[a] = "trusted"}
      [] o.kind = "replace" -> live \ o.addrs
      [] OTHER              -> {}

\* async_add_ip_ban refuses internal, allowlisted and network-blocked
\* addresses before it reaches the ban manager.
Refused(o) ==
    /\ o.kind = "add"
    /\ \E a \in o.addrs : class[a] \in {"trusted", "watched", "blocked"}

Call(t, o) ==
    /\ pc[t] = "new"
    /\ ~ Refused(o)
    /\ o.kind = "setup" => Listed(o) # {}
    /\ op' = [op EXCEPT ![t] = o]
    /\ stale' = [stale EXCEPT ![t] = Listed(o)]
    /\ IF lock = NoTask /\ \A u \in Task : pc[u] # "queued"
       THEN EnterWith(t, o, Listed(o))
       ELSE /\ pc' = [pc EXCEPT ![t] = "queued"]
            /\ UNCHANGED <<live, file, class, lock, prev, shielded,
                           outcome, unbanned, orphans, unsaved>>

\* The call ends before the lock: refused, or nothing for setup to remove.
CallEnds(t, o) ==
    /\ pc[t] = "new"
    /\ Refused(o) \/ (o.kind = "setup" /\ Listed(o) = {})
    /\ op' = [op EXCEPT ![t] = o]
    /\ Return(t, IF Refused(o) THEN "rejected" ELSE "ok")
    /\ UNCHANGED <<live, file, class, lock, stale, prev, shielded,
                   unbanned, orphans, unsaved>>

-----------------------------------------------------------------------------
(* Executor jobs of the call inside the lock.                               *)

WriteLands(t) ==
    /\ pc[t] = "writing"
    /\ file' = live
    /\ unsaved' = IF orphans = {} THEN {} ELSE unsaved
    /\ pc' = [pc EXCEPT ![t] = "landed"]
    /\ UNCHANGED <<live, class, lock, op, stale, prev, shielded,
                   outcome, unbanned, orphans>>

WriteFails(t) ==
    /\ "write" \in Faults
    /\ pc[t] = "writing"
    /\ pc' = [pc EXCEPT ![t] = "failed"]
    /\ UNCHANGED <<live, file, class, lock, op, stale, prev, shielded,
                   outcome, unbanned, orphans, unsaved>>

AppendLands(t) ==
    /\ pc[t] = "appending"
    /\ file' = file \cup op[t].addrs
    /\ pc' = [pc EXCEPT ![t] = "appended"]
    /\ UNCHANGED <<live, class, lock, op, stale, prev, shielded,
                   outcome, unbanned, orphans, unsaved>>

AppendFails(t) ==
    /\ "append" \in Faults
    /\ pc[t] = "appending"
    /\ pc' = [pc EXCEPT ![t] = "appendfailed"]
    /\ UNCHANGED <<live, file, class, lock, op, stale, prev, shielded,
                   outcome, unbanned, orphans, unsaved>>

\* The job of a load has read the file: an empty result stands for a missing
\* or unreadable one.  The coroutine resumes later.
ReadEnds(t) ==
    /\ pc[t] = "loading"
    /\ \E found \in {file} \cup (IF "read" \in Faults THEN {{}} ELSE {}) :
          prev' = [prev EXCEPT ![t] = found]
    /\ pc' = [pc EXCEPT ![t] = "read"]
    /\ UNCHANGED <<live, file, class, lock, op, stale, shielded,
                   outcome, unbanned, orphans, unsaved>>

-----------------------------------------------------------------------------
(* The call resumes with the job's result, leaves the lock and returns.    *)

\* Addresses the caller announces as unbanned.
Announced(t) ==
    CASE op[t].kind = "remove"            -> op[t].addrs
      [] op[t].kind \in {"clear", "setup"} -> stale[t]
      [] OTHER                            -> {}

FinishMutate(t) ==
    /\ pc[t] = "landed"
    /\ t \notin shielded
    /\ Leave(t, "ok")
    /\ unbanned' = unbanned \cup ({t} \X Announced(t))
    /\ UNCHANGED <<live, file, class, op, stale, prev, shielded, orphans,
                   unsaved>>

\* The swallowed CancelledError is raised again once the write has landed.
FinishCancelled(t) ==
    /\ pc[t] = "landed"
    /\ t \in shielded
    /\ Leave(t, "cancelled")
    /\ UNCHANGED <<live, file, class, op, stale, prev, shielded,
                   unbanned, orphans, unsaved>>

\* Mutant: the live bans stay as mutated.
RollBackForgotten(t) ==
    /\ pc[t] = "failed"
    /\ Leave(t, "error")
    /\ UNCHANGED <<live, file, class, op, stale, prev, shielded,
                   unbanned, orphans, unsaved>>

\* Mutant: the error path does not release the lock.
RollBackLocked(t) ==
    /\ pc[t] = "failed"
    /\ live' = prev[t]
    /\ Return(t, "error")
    /\ UNCHANGED <<file, class, lock, op, stale, prev, shielded,
                   unbanned, orphans, unsaved>>

\* The write failed: the previous bans become live again.
RollBack(t) ==
    /\ pc[t] = "failed"
    /\ live' = prev[t]
    /\ Leave(t, "error")
    /\ UNCHANGED <<file, class, op, stale, prev, shielded, unbanned,
                   orphans, unsaved>>

FinishAdd(t) ==
    /\ pc[t] = "appended"
    /\ Leave(t, "ok")
    /\ UNCHANGED <<live, file, class, op, stale, prev, shielded, unbanned,
                   orphans, unsaved>>

\* The append raised: the native add leaves the ban live and not in the file.
FailAdd(t) ==
    /\ pc[t] = "appendfailed"
    /\ Leave(t, "error")
    /\ unsaved' = unsaved \cup op[t].addrs
    /\ UNCHANGED <<live, file, class, op, stale, prev, shielded,
                   unbanned, orphans>>

\* The native load replaces the lookup by what its job has read, and keeps it
\* when that is nothing.  An abandoned job may have written in between.
FinishLoad(t) ==
    /\ pc[t] = "read"
    /\ live' = IF prev[t] = {} THEN live ELSE prev[t]
    /\ unsaved' = IF prev[t] # {} /\ prev[t] = file /\ orphans = {}
                  THEN {} ELSE unsaved
    /\ Leave(t, "ok")
    /\ UNCHANGED <<file, class, op, stale, prev, shielded, unbanned,
                   orphans>>

-----------------------------------------------------------------------------
(* Cancellation.                                                            *)

Cancellable == "cancel" \in Faults
CancelUntouched == UNCHANGED <<live, file, class, op, stale, prev,
                               unbanned>>

CancelQueued(t) ==
    /\ Cancellable /\ pc[t] = "queued"
    /\ Return(t, "cancelled")
    /\ CancelUntouched /\ UNCHANGED <<lock, shielded, orphans, unsaved>>

\* Mutant: the first CancelledError leaves the lock with the write running.
CancelWriteLeaves(t) ==
    /\ Cancellable /\ pc[t] = "writing" /\ t \notin shielded
    /\ orphans' = orphans \cup {[kind |-> "rewrite", addrs |-> live]}
    /\ Leave(t, "cancelled")
    /\ CancelUntouched /\ UNCHANGED <<shielded, unsaved>>

\* The first CancelledError during the shielded write: await write again.
CancelWrite(t) ==
    /\ Cancellable /\ pc[t] = "writing" /\ t \notin shielded
    /\ shielded' = shielded \cup {t}
    /\ CancelUntouched /\ UNCHANGED <<pc, lock, outcome, orphans, unsaved>>

\* A second one reaches the write task itself.  The executor job cannot be
\* stopped, and except Exception does not catch CancelledError.
AbandonWrite(t) ==
    /\ Cancellable /\ "repeat" \in Faults
    /\ pc[t] = "writing" /\ t \in shielded
    /\ orphans' = orphans \cup {[kind |-> "rewrite", addrs |-> live]}
    /\ unsaved' = Addr
    /\ Leave(t, "cancelled")
    /\ CancelUntouched /\ UNCHANGED shielded

\* The second one arrives as the failed write is about to be reported: what
\* the call changed stays live, and is not in the file.
CancelFailed(t) ==
    /\ Cancellable /\ "repeat" \in Faults
    /\ pc[t] = "failed" /\ t \in shielded
    /\ unsaved' = unsaved \cup (live \ prev[t]) \cup (prev[t] \ live)
    /\ Leave(t, "cancelled")
    /\ CancelUntouched /\ UNCHANGED <<shielded, orphans>>

CancelAppend(t) ==
    /\ Cancellable /\ pc[t] = "appending"
    /\ orphans' = orphans \cup {[kind |-> "append", addrs |-> op[t].addrs]}
    /\ unsaved' = unsaved \cup op[t].addrs
    /\ Leave(t, "cancelled")
    /\ CancelUntouched /\ UNCHANGED shielded

\* The job is over, or was only a read: nothing is left behind.
CancelDone(t) ==
    /\ Cancellable /\ pc[t] \in {"landed", "appended", "loading", "read"}
    /\ Leave(t, "cancelled")
    /\ CancelUntouched /\ UNCHANGED <<shielded, orphans, unsaved>>

CancelFailedAppend(t) ==
    /\ Cancellable /\ pc[t] = "appendfailed"
    /\ unsaved' = unsaved \cup op[t].addrs
    /\ Leave(t, "cancelled")
    /\ CancelUntouched /\ UNCHANGED <<shielded, orphans>>

Cancel(t) ==
    \/ CancelQueued(t) \/ CancelWrite(t) \/ AbandonWrite(t)
    \/ CancelFailed(t) \/ CancelAppend(t) \/ CancelDone(t)
    \/ CancelFailedAppend(t)

-----------------------------------------------------------------------------
(* The environment.                                                         *)

\* Mutant: the append writes its whole record where the address belongs.
OrphanWritesRecord(j) ==
    /\ j \in orphans
    /\ orphans' = orphans \ {j}
    /\ file' = file \cup {j}
    /\ UNCHANGED <<live, class, lock, pc, op, stale, prev, shielded,
                   outcome, unbanned, unsaved>>

\* A job without a call reaches the disk, or never ran (it was still queued
\* in the executor, or it failed).
OrphanEnds(j) ==
    /\ j \in orphans
    /\ orphans' = orphans \ {j}
    /\ \/ file' = IF j.kind = "append" THEN file \cup j.addrs ELSE j.addrs
       \/ file' = file
    /\ UNCHANGED <<live, class, lock, pc, op, stale, prev, shielded,
                   outcome, unbanned, unsaved>>

\* apply_blocked_networks and the allowlist: the policy changes in place.
SetClass(a, c) ==
    /\ class[a] # c
    /\ class' = [class EXCEPT ![a] = c]
    /\ UNCHANGED <<live, file, lock, pc, op, stale, prev, shielded,
                   outcome, unbanned, orphans, unsaved>>

\* The process ends and starts again from the file.
Crash ==
    /\ "crash" \in Faults
    /\ live' = file
    /\ lock' = NoTask
    /\ pc' = [t \in Task |-> IF pc[t] = "new" THEN "new" ELSE "done"]
    /\ outcome' = [t \in Task |->
                     IF pc[t] \in {"new", "done"} THEN outcome[t] ELSE "lost"]
    /\ orphans' = {}
    /\ unsaved' = {}
    /\ UNCHANGED <<file, class, op, stale, prev, shielded, unbanned>>

-----------------------------------------------------------------------------
ExecutorStep(t) ==
    \/ WriteLands(t) \/ WriteFails(t)
    \/ AppendLands(t) \/ AppendFails(t)
    \/ ReadEnds(t)

Resume(t) ==
    \/ FinishMutate(t) \/ FinishCancelled(t) \/ RollBack(t)
    \/ FinishAdd(t) \/ FailAdd(t) \/ FinishLoad(t)

Next ==
    \/ \E t \in Task :
          \/ \E o \in Requests : Call(t, o) \/ CallEnds(t, o)
          \/ Enter(t) \/ ExecutorStep(t) \/ Resume(t) \/ Cancel(t)
    \/ \E j \in orphans : OrphanEnds(j)
    \/ \E a \in Addr, c \in Classes : SetClass(a, c)
    \/ Crash

Spec == Init /\ [][Next]_vars

\* The event loop runs ready coroutines and executor jobs end; nobody has to
\* call, cancel, crash or change the policy.
Fairness == \A t \in Task : WF_vars(Enter(t)) /\ WF_vars(ExecutorStep(t))
                            /\ WF_vars(Resume(t))

FairSpec == Spec /\ Fairness
-----------------------------------------------------------------------------
(* The refinement mapping.                                                  *)

\* The bans the call inside the lock has not yet changed.
Committed ==
    CASE lock = NoTask -> live
      [] lock # NoTask /\ pc[lock] \in {"writing", "failed"} -> prev[lock]
      [] lock # NoTask /\ pc[lock] \in {"appending", "appendfailed"} ->
            live \ op[lock].addrs
      [] OTHER -> live

AbstractRequest(t) ==
    Request(op[t].kind, IF op[t].kind = "setup" THEN stale[t] ELSE op[t].addrs)

AbstractPhase(t) ==
    CASE pc[t] = "new"                     -> "idle"
      [] pc[t] = "done"                    -> "done"
      [] pc[t] \in {"landed", "appended"}  -> "applied"
      [] OTHER                             -> "pending"

Abstract == INSTANCE AbstractBans WITH
    store <- Committed,
    weak  <- unsaved,
    req   <- [t \in Task |-> AbstractRequest(t)],
    phase <- [t \in Task |-> AbstractPhase(t)],
    reply <- outcome

\* Every call on the ban list is atomic: it takes effect once, between its
\* invocation and its reply, on the bans then in force, and a failed one not
\* at all (async_mutate_ip_bans, allowlist_async_add_ban).  A call cut off
\* while its job runs or fails has its effect, and gives up the promise that a
\* restart or a reload will find the bans as they are (weak).
ImplementsAbstractBans == Abstract!Spec

-----------------------------------------------------------------------------
\* Whenever nobody is inside ban_file_lock, the live lookup and ip_bans.yaml
\* hold the same bans: a rollback, a restart, a reload and a first cancellation
\* never part them.  What may part them is marked in unsaved: the address of an
\* append that failed or was cut off (FailAdd, CancelAppend), what a failed
\* write had changed when a second cancellation kept it from being undone
\* (CancelFailed), and every address once a second cancellation has left a
\* rewrite running behind the released lock (AbandonWrite), until the whole
\* file is written or read again with no such job about.
LiveMatchesFile == lock = NoTask => live \ unsaved = file \ unsaved

\* A trusted address gets a new exact ban only where an administrator's list
\* says so or an earlier ban comes back (a rolled-back removal, a reload): the
\* trust of an address is checked inside the lock, after any wait for it.
TrustedNotNewlyBanned ==
    [][\A a \in live' \ live : class[a] = "trusted" =>
          \/ a \in file
          \/ \E t \in Task : pc[t] \in {"failed", "read"} /\ a \in prev[t]
          \/ \E t \in Task : op'[t].kind = "replace" /\ a \in op'[t].addrs]_vars

\* An ip_unbanned event of a single removal names an address that this very
\* call took out of the list, never one that another call had removed first.
RemovalEventIsOwn ==
    [][\A p \in unbanned' \ unbanned :
          op[p[1]].kind = "remove" => p[2] \in prev[p[1]] \ live]_vars

\* Every call ends, whatever fails or is cancelled while it or another call
\* holds the lock: no error path keeps ban_file_lock.
EveryCallEnds == \A t \in Task : pc[t] # "new" ~> pc[t] = "done"

-----------------------------------------------------------------------------
(* The inductive invariant behind LiveMatchesFile: who is inside the lock, *)
(* and what the file holds at each step of the call that is.               *)

\* The two sets agree on every address whose file entry is promised.
Agree(A, B) == A \ unsaved = B \ unsaved

\* Exactly the holder of the lock is between Enter and the call's end.
HolderIsInside == \A t \in Task : pc[t] \in Inside <=> lock = t

\* The file is one uncommitted step behind the live bans, or level with them.
FileFollowsLive ==
    /\ lock = NoTask => Agree(live, file)
    /\ \A t \in Task :
          /\ pc[t] \in {"writing", "failed"} => Agree(prev[t], file)
          /\ pc[t] \in {"landed", "appended", "loading", "read"} =>
                Agree(live, file)
          /\ pc[t] = "read" /\ prev[t] # {} => Agree(prev[t], file)
          /\ pc[t] \in {"appending", "appendfailed"} =>
                op[t].addrs \subseteq live /\ Agree(live \ op[t].addrs, file)

\* A job without a call can only touch addresses that are already unsaved.
OrphansAreUnsaved ==
    \A j \in orphans :
        IF j.kind = "append" THEN j.addrs \subseteq unsaved ELSE unsaved = Addr

IInv == TypeOK /\ HolderIsInside /\ FileFollowsLive /\ OrphansAreUnsaved

-----------------------------------------------------------------------------
(* What a call in the middle of its work relies on: the further invariant  *)
(* behind the refinement and RemovalEventIsOwn.                            *)

\* What the call's request makes of the bans it remembered.
Changed(t) ==
    CASE op[t].kind = "remove"  -> prev[t] \ op[t].addrs
      [] op[t].kind = "setup"   -> prev[t] \ stale[t]
      [] op[t].kind = "clear"   -> {}
      [] op[t].kind = "replace" -> op[t].addrs

\* From Enter to its return the live bans are the call's request applied to
\* the ones it found: nobody else has touched them, and a removal found its
\* address among them.
FitsRequest(t) ==
    /\ pc[t] = "new" => stale[t] = {}
    /\ pc[t] \in {"writing", "failed", "landed"} =>
          /\ op[t].kind \in Mutators
          /\ op[t].kind = "remove" => op[t].addrs \subseteq prev[t]
          /\ live = Changed(t)
    /\ pc[t] \in {"appending", "appendfailed", "appended"} =>
          op[t].kind \in Adders
    /\ pc[t] \in {"loading", "read"} => op[t].kind = "load"

WorkFitsRequest == \A t \in Task : FitsRequest(t)

-----------------------------------------------------------------------------
(* Statements of the repository that the code does not keep.               *)

\* The comment in async_mutate_ip_bans, "An executor write cannot be stopped.
\* Keep the lock until its result is known", and the changelog, cancelled file
\* writes no longer leave active bans and ip_bans.yaml inconsistent: with no
\* call inside the lock the two are level, when nothing but cancellation
\* disturbs the calls.
CancelledWritesAgree == lock = NoTask => live = file

=============================================================================
