------------------------------ MODULE Lifecycle ------------------------------
(***************************************************************************)
(* Set-up and unload of the integration: what it installs in Home          *)
(* Assistant, in which order, and what it takes out again, with ban calls, *)
(* the load of the ban file, a GeoIP reader under preparation and          *)
(* configuration commands in flight over any of its awaits.                *)
(*                                                                         *)
(* Set-up may fail in each of its awaits and is then unloaded.  The lock   *)
(* of the ban file is made on first use and dropped by the unload, so      *)
(* locks have generations.                                                 *)
(*                                                                         *)
(* Abstracted: the three awaits on the lists (Allowlist has them) are one, *)
(* and so are platforms and health.  Ban edits are one removal (ExactBans  *)
(* has all of them), and a command does one of two things when it ends.    *)
(***************************************************************************)
EXTENDS Naturals, FiniteSets

CONSTANTS
    Addr, Trusted,      \* source addresses, and the allowlisted ones
    Command,            \* configuration commands, each made once
    SetUpTask, Remover, Loader, Nobody,     \* holders of the lock besides Addr
    MaxSetUps, MaxCalls \* bounds on set-ups, and on all calls together

ASSUME LifecycleAssumption ==
    /\ Trusted \subseteq Addr /\ MaxSetUps \in Nat /\ MaxCalls \in Nat
    /\ Cardinality({SetUpTask, Remover, Loader, Nobody}) = 4
    /\ {SetUpTask, Remover, Loader, Nobody} \cap Addr = {}

Generation == 1 .. MaxSetUps + 1
Holder == Addr \cup {SetUpTask, Remover, Loader, Nobody}

VARIABLES
    disabled, manager, geo,     \* emergency switch, native banning, GeoIP
    life, setups,               \* the await set-up or unload is in
    own,        \* what of ours is there: entry, views, services, npm, timer
    hook,       \* who handles logins, adds and loads, and the saved originals
    lookup, threshold,          \* of the native ban manager, and its original
    reader, warming,            \* GeoIP reader, and the task that prepares it
    lock, held, made,           \* lock in hass.data, holders, how many made
    live, file,                 \* exact bans
    add, loading,               \* native or managed adds, the load of the file
    purge, removal,             \* rewrites: set-up's, and a service's
    command,
    slipped,                    \* history: trusted bans set-up did not see
    marks                       \* history: what the properties allow for

setting == <<disabled, manager, geo>>
held_ == <<lock, held, made>>
calls == <<add, loading, purge, removal>>
bans == <<live, file, slipped>>
vars == <<setting, life, setups, own, hook, lookup, threshold, reader, warming,
          held_, bans, calls, command, marks>>

SettingUp == {"s_reload", "s_panel", "s_lists", "s_geo", "s_lock", "s_write",
              "s_platforms"}
Unloading == {"u_npm", "u_dns", "u_tasks", "u_flush"}
Parts == {"entry", "views", "services", "npm", "timer"}
Marks == {"crossed", "lateload", "unwritten", "parted", "unlocked", "twolocks"}

Side == {"native", "managed"}
Native == [login |-> "native", add |-> "native", load |-> "native",
           wasAdd |-> "none", wasLoad |-> "none"]
Managed == [login |-> "managed", add |-> "managed", load |-> "managed",
            wasAdd |-> "native", wasLoad |-> "native"]

Idle == [pc |-> "idle", gen |-> 0, of |-> {}, out |-> {}]
Over == [Idle EXCEPT !.pc = "done"]
Calls(pcs) == [pc : pcs, gen : {0} \cup Generation, of : SUBSET Addr,
               out : SUBSET Addr]

TypeOK ==
    /\ disabled \in BOOLEAN /\ manager \in BOOLEAN /\ geo \in {"off", "on", "lock"}
    /\ life \in {"off", "on"} \cup SettingUp \cup Unloading
    /\ setups \in 0 .. MaxSetUps /\ own \subseteq Parts
    /\ hook \in [login : Side, add : Side, load : Side,
                 wasAdd : {"none", "native"}, wasLoad : {"none", "native"}]
    /\ lookup \in {"plain", "managed"}
    /\ threshold \in [now : {"theirs", "ours"}, was : {"none", "theirs"}]
    /\ reader \in BOOLEAN /\ warming \in BOOLEAN
    /\ lock \in {0} \cup Generation /\ made \in {0} \cup Generation
    /\ held \in [Generation -> Holder]
    /\ live \subseteq Addr /\ file \subseteq Addr /\ slipped \subseteq Trusted
    /\ add \in [Addr -> Calls({"idle", "wait", "append", "loose", "done"})]
    /\ loading \in Calls({"idle", "wait", "read", "done", "lost"})
    /\ purge \in Calls({"idle", "write", "parted", "loose"})
    /\ removal \in Calls({"idle", "wait", "write", "parted", "loose", "done"})
    /\ command \in [Command -> {"idle", "running", "done"}]
    /\ marks \subseteq Marks

-----------------------------------------------------------------------------
(* The lock of the ban file, and calls that overlap in spite of it.        *)

\* ban_file_lock: the lock of the moment, or a new one.
MyLock == IF lock # 0 THEN lock ELSE made + 1
UseLock == lock' = MyLock /\ made' = IF lock # 0 THEN made ELSE made + 1
Free(gen) == held[gen] = Nobody
Take(gen, who) == held' = [held EXCEPT ![gen] = who]
Release(gen) == Take(gen, Nobody) /\ UNCHANGED <<lock, made>>
KeepLock == UNCHANGED <<lock, made>>

Rewriting == life = "s_write" \/ removal.pc \in {"write", "parted"}
Appending == \E x \in Addr : add[x].pc = "append" /\ add[x].gen = 0
OtherHolder(gen) == \E g \in Generation \ {gen} : held[g] # Nobody
Seen(facts) == marks' = marks \cup facts
Crossing(gen) == {m \in {"twolocks"} : OtherHolder(gen)}
Unlocked(cond) == {m \in {"unlocked"} : cond}

\* Set-up has yet to look for bans of trusted addresses.
Unseen == life \in {"off", "s_reload", "s_panel", "s_lists", "s_geo"}
Slip(addrs) == slipped' = IF Unseen THEN slipped ELSE slipped \cup (addrs \cap Trusted)

\* A rewrite keeps the lookup it changed, for its undo; when Home Assistant
\* gets another lookup the two part.
Parted(call) == IF call.pc = "write" THEN [call EXCEPT !.pc = "parted"] ELSE call

-----------------------------------------------------------------------------
(* Set-up.                                                                 *)

SetUp ==
    /\ life = "off" /\ setups < MaxSetUps
    /\ setups' = setups + 1
    /\ life' = IF disabled THEN "on" ELSE "s_reload"
    /\ slipped' = {}
    /\ UNCHANGED <<setting, own, hook, lookup, threshold, reader, warming, held_,
                   live, file, calls, command, marks>>

\* Without native banning set-up ends here.
Reloaded ==
    /\ life = "s_reload"
    /\ life' = IF manager THEN "s_panel" ELSE "on"
    /\ own' = own \cup {"entry"}
    /\ UNCHANGED <<setting, setups, hook, lookup, threshold, reader, warming, held_,
                   bans, calls, command, marks>>

\* register_http_views and install_load_bans_patch; a saved original is kept.
PanelReady ==
    /\ life = "s_panel" /\ life' = "s_lists"
    /\ own' = own \cup {"views"}
    /\ hook' = [hook EXCEPT !.load = "managed",
                            !.wasLoad = IF @ = "none" THEN hook.load ELSE @]
    /\ UNCHANGED <<setting, setups, lookup, threshold, reader, warming, held_, bans,
                   calls, command, marks>>

\* apply_ban_settings and apply_blocked_networks; a lookup that is ours stays.
Apply ==
    /\ threshold' = [now |-> "ours", was |->
                        IF threshold.was = "none" THEN threshold.now ELSE threshold.was]
    /\ lookup' = "managed"
    /\ removal' = IF lookup = "plain" THEN Parted(removal) ELSE removal

\* install_wrong_login_patch and install_add_ban_patch.
Patched == [hook EXCEPT !.login = "managed", !.add = "managed",
                        !.wasAdd = IF @ = "none" THEN hook.add ELSE @]

\* Mutant: the bans of trusted addresses stay.
EnforceNoPurge(parts) ==
    /\ Apply
    /\ life' = "s_platforms" /\ hook' = Patched
    /\ own' = own \cup parts \cup {"services", "npm"}
    /\ UNCHANGED <<held_, live, purge, marks>>

\* async_mutate_ip_bans under the lock: the live bans, then the file.
Purge(gen, addrs) ==
    /\ Take(gen, SetUpTask)
    /\ life' = "s_write"
    /\ live' = live \ addrs
    /\ purge' = [pc |-> "write", gen |-> gen, of |-> addrs \cap live, out |-> live']
    /\ Seen(Unlocked(Appending \/ loading.pc = "read") \cup Crossing(gen))

\* The policy is applied; the bans of trusted addresses are removed, if
\* there are any, before the add hook is installed.
Enforce(parts) ==
    /\ Apply
    /\ IF live \cap Trusted = {}
       THEN /\ life' = "s_platforms" /\ hook' = Patched
            /\ own' = own \cup parts \cup {"services", "npm"}
            /\ UNCHANGED <<held_, live, purge, marks>>
       ELSE /\ own' = own \cup parts /\ UseLock /\ UNCHANGED hook
            /\ IF Free(MyLock) THEN Purge(MyLock, live \cap Trusted)
               ELSE /\ life' = "s_lock"
                    /\ purge' = [Idle EXCEPT !.gen = MyLock, !.of = live \cap Trusted]
                    /\ UNCHANGED <<held, live, marks>>

\* The lists are resolved and the DNS timer runs.  A region lock prepares
\* the reader first, GeoIP labels have it prepared in the background.
ListsReady ==
    /\ life = "s_lists"
    /\ IF geo = "lock"
       THEN /\ life' = "s_geo" /\ own' = own \cup {"timer"}
            /\ UNCHANGED <<hook, lookup, threshold, held_, live, purge, removal,
                           warming, marks>>
       ELSE Enforce({"timer"}) /\ warming' = (warming \/ geo = "on")
    /\ UNCHANGED <<setting, setups, reader, file, slipped, add, loading, command>>

ReaderReady ==
    /\ life = "s_geo" /\ reader' = TRUE
    /\ Enforce({})
    /\ UNCHANGED <<setting, setups, warming, file, slipped, add, loading, command>>

PurgeStart ==
    /\ life = "s_lock" /\ Free(purge.gen)
    /\ Purge(purge.gen, purge.of) /\ KeepLock
    /\ UNCHANGED <<setting, setups, own, hook, lookup, threshold, reader, warming,
                   file, slipped, add, loading, removal, command>>

PurgeEnd ==
    /\ life = "s_write"
    /\ file' = purge.out /\ Release(purge.gen) /\ purge' = Idle
    /\ life' = "s_platforms" /\ hook' = Patched
    /\ own' = own \cup {"services", "npm"}
    /\ UNCHANGED <<setting, setups, lookup, threshold, reader, warming, live,
                   slipped, add, loading, removal, command, marks>>

Ready ==
    /\ life = "s_platforms" /\ life' = "on"
    /\ UNCHANGED <<setting, setups, own, hook, lookup, threshold, reader, warming,
                   held_, bans, calls, command, marks>>

-----------------------------------------------------------------------------
(* Unload, also after a set-up that failed.                                *)

\* The views refuse and no policy event reaches the proxy any more.
Detach == life' = "u_npm" /\ own' = own \ {"views", "npm"}

Unload ==
    /\ life = "on" /\ Detach
    /\ UNCHANGED <<setting, setups, hook, lookup, threshold, reader, warming, held_,
                   bans, calls, command, marks>>

\* The end of a rewrite that was not followed to its end: it failed and the
\* bans of before are put back in the lookup it had, it was cancelled and
\* landed all the same, or it was cancelled twice and the executor may still
\* write it.
RewriteFailed(call) ==
    /\ IF call.pc = "parted" THEN Seen({"parted"}) /\ UNCHANGED live
       ELSE live' = call.out \cup call.of /\ UNCHANGED marks
    /\ UNCHANGED file
RewriteLanded(call) == file' = call.out /\ UNCHANGED live
RewriteLost == Seen({"unwritten"}) /\ UNCHANGED <<live, file>>

\* An await of set-up ends in an error or a cancellation.
SetUpFails ==
    /\ life \in SettingUp /\ Detach
    /\ IF life # "s_write"
       THEN purge' = Idle /\ UNCHANGED <<bans, held_, marks>>
       ELSE /\ Release(purge.gen) /\ UNCHANGED slipped
            /\ \/ RewriteFailed(purge) /\ purge' = Idle
               \/ RewriteLanded(purge) /\ purge' = Idle /\ UNCHANGED marks
               \/ RewriteLost /\ purge' \in {Idle, [purge EXCEPT !.pc = "loose"]}
    /\ UNCHANGED <<setting, setups, hook, lookup, threshold, reader, warming, add,
                   loading, removal, command>>

\* It lands; by the time of the next set-up's own removal it has ended.
LatePurge ==
    /\ purge.pc = "loose"
    /\ file' = purge.out /\ purge' = Idle
    /\ UNCHANGED <<setting, life, setups, own, hook, lookup, threshold, reader,
                   warming, held_, live, slipped, add, loading, removal, command,
                   marks>>

NpmStopped ==
    /\ life = "u_npm" /\ life' = "u_dns"
    /\ own' = own \ {"timer"}
    /\ UNCHANGED <<setting, setups, hook, lookup, threshold, reader, warming, held_,
                   bans, calls, command, marks>>

\* Mutant: the threshold stays as it was set.
RestoreHooksOnly ==
    /\ hook' = [login |-> "native",
                add |-> IF hook.wasAdd = "none" THEN hook.add ELSE hook.wasAdd,
                load |-> IF hook.wasLoad = "none" THEN hook.load ELSE hook.wasLoad,
                wasAdd |-> "none", wasLoad |-> "none"]
    /\ lookup' = "plain" /\ reader' = FALSE
    /\ removal' = IF lookup = "managed" THEN Parted(removal) ELSE removal
    /\ UNCHANGED threshold

\* close_geoip_reader, uninstall_patches and the threshold.
Restore ==
    /\ hook' = [login |-> "native",
                add |-> IF hook.wasAdd = "none" THEN hook.add ELSE hook.wasAdd,
                load |-> IF hook.wasLoad = "none" THEN hook.load ELSE hook.wasLoad,
                wasAdd |-> "none", wasLoad |-> "none"]
    /\ lookup' = "plain" /\ reader' = FALSE
    /\ removal' = IF lookup = "managed" THEN Parted(removal) ELSE removal
    /\ threshold' = IF threshold.was = "none" THEN threshold
                    ELSE [now |-> threshold.was, was |-> "none"]

\* The background task is cancelled; what its thread opens is not installed.
DnsStopped ==
    /\ life = "u_dns"
    /\ warming' = FALSE
    /\ IF warming
       THEN life' = "u_tasks" /\ UNCHANGED <<hook, lookup, reader, threshold, removal>>
       ELSE life' = "u_flush" /\ Restore
    /\ UNCHANGED <<setting, setups, own, held_, bans, add, loading, purge, command,
                   marks>>

TasksStopped ==
    /\ life = "u_tasks" /\ life' = "u_flush"
    /\ Restore
    /\ UNCHANGED <<setting, setups, own, warming, held_, bans, add, loading, purge,
                   command, marks>>

\* The history is flushed; the rest is dropped, the lock with it.
Flushed ==
    /\ life = "u_flush" /\ life' = "off"
    /\ own' = own \ {"entry", "services"}
    /\ lock' = 0
    /\ UNCHANGED <<setting, setups, hook, lookup, threshold, reader, warming, held,
                   made, bans, calls, command, marks>>

-----------------------------------------------------------------------------
(* Calls in flight.                                                        *)

Made(call) == IF call.pc = "idle" THEN 0 ELSE 1
Room ==
    Cardinality({x \in Addr : add[x].pc # "idle"})
      + Cardinality({c \in Command : command[c] # "idle"})
      + Made(removal) + Made(loading) < MaxCalls

\* The background task installs the reader.
Warmed ==
    /\ warming /\ warming' = FALSE /\ reader' = TRUE
    /\ UNCHANGED <<setting, life, setups, own, hook, lookup, threshold, held_, bans,
                   calls, command, marks>>

StartCommand(c) ==
    /\ command[c] = "idle" /\ Room /\ own \cap {"views", "services"} # {}
    /\ command' = [command EXCEPT ![c] = "running"]
    /\ UNCHANGED <<setting, life, setups, own, hook, lookup, threshold, reader,
                   warming, held_, bans, calls, marks>>

\* A command applies the policy or installs a reader after its last await,
\* even when the unload is past the point where it took them out.
Late == {m \in {"crossed"} : life \in {"u_flush", "off"}}

CommandApplies(c) ==
    /\ command[c] = "running" /\ manager
    /\ command' = [command EXCEPT ![c] = "done"]
    /\ Apply /\ Seen(Late)
    /\ UNCHANGED <<setting, life, setups, own, hook, reader, warming, held_, bans,
                   add, loading, purge>>

CommandPrepares(c) ==
    /\ command[c] = "running"
    /\ command' = [command EXCEPT ![c] = "done"]
    /\ reader' = TRUE /\ Seen(Late)
    /\ UNCHANGED <<setting, life, setups, own, hook, lookup, threshold, warming,
                   held_, bans, calls>>

\* Mutant: the hook leaves the lock before the ban is appended.
HookedUnlocked(x, gen) ==
    IF x \in Trusted \cup live \/ hook.wasAdd = "none"
    THEN /\ add' = [add EXCEPT ![x] = Over]
         /\ UNCHANGED <<held, live, marks>>
    ELSE /\ add' = [add EXCEPT ![x].pc = "append", ![x].gen = gen]
         /\ live' = live \cup {x}
         /\ UNCHANGED held /\ Seen(Crossing(gen))

\* The hook under the lock.  A trusted or banned address is left alone; an
\* add that waited over an unload finds no original method and is lost.
Hooked(x, gen) ==
    IF x \in Trusted \cup live \/ hook.wasAdd = "none"
    THEN /\ add' = [add EXCEPT ![x] = Over]
         /\ UNCHANGED <<held, live, marks>>
    ELSE /\ add' = [add EXCEPT ![x].pc = "append", ![x].gen = gen]
         /\ live' = live \cup {x}
         /\ Take(gen, x) /\ Seen(Crossing(gen))

\* Home Assistant's own method puts the ban in place and appends it.
Unhooked(x) ==
    /\ live' = live \cup {x}
    /\ add' = [add EXCEPT ![x] = IF x \in live THEN Over ELSE [Idle EXCEPT !.pc = "append"]]
    /\ Seen(Unlocked(Rewriting \/ loading.pc = "read"))
    /\ Slip({x} \ live)

\* Home Assistant bans an address.
Ban(x) ==
    /\ manager /\ add[x].pc = "idle" /\ Room
    /\ IF hook.add = "native" THEN Unhooked(x) /\ UNCHANGED held_
       ELSE /\ UseLock /\ UNCHANGED slipped
            /\ IF Free(MyLock) THEN Hooked(x, MyLock)
               ELSE /\ add' = [add EXCEPT ![x].pc = "wait", ![x].gen = MyLock]
                    /\ UNCHANGED <<live, held, marks>>
    /\ UNCHANGED <<setting, life, setups, own, hook, lookup, threshold, reader,
                   warming, file, loading, purge, removal, command>>

BanLocked(x) ==
    /\ add[x].pc = "wait" /\ Free(add[x].gen)
    /\ Hooked(x, add[x].gen) /\ KeepLock
    /\ UNCHANGED <<setting, life, setups, own, hook, lookup, threshold, reader,
                   warming, file, slipped, loading, purge, removal, command>>

Appended(x) ==
    /\ add[x].pc = "append"
    /\ file' = file \cup {x}
    /\ add' = [add EXCEPT ![x] = Over]
    /\ IF add[x].gen = 0 THEN UNCHANGED held_ ELSE Release(add[x].gen)
    /\ UNCHANGED <<setting, life, setups, own, hook, lookup, threshold, reader,
                   warming, live, slipped, loading, purge, removal, command, marks>>

\* The append fails, or its request is cancelled and the executor may still
\* write it: the ban is in place and not, or not yet, in the file.
AppendLost(x) ==
    /\ add[x].pc = "append"
    /\ \E end \in {Over, [Idle EXCEPT !.pc = "loose"]} : add' = [add EXCEPT ![x] = end]
    /\ IF add[x].gen = 0 THEN UNCHANGED held_ ELSE Release(add[x].gen)
    /\ Seen({"unwritten"})
    /\ UNCHANGED <<setting, life, setups, own, hook, lookup, threshold, reader,
                   warming, bans, loading, purge, removal, command>>

LateAppend(x) ==
    /\ add[x].pc = "loose"
    /\ file' = file \cup {x}
    /\ add' = [add EXCEPT ![x] = Over]
    /\ UNCHANGED <<setting, life, setups, own, hook, lookup, threshold, reader,
                   warming, held_, live, slipped, loading, purge, removal, command,
                   marks>>

\* An address that is not banned any more is an error.
Rewrite(gen, addrs) ==
    IF addrs \cap live = {}
    THEN removal' = Over /\ UNCHANGED <<held, live, marks>>
    ELSE /\ Take(gen, Remover)
         /\ live' = live \ addrs
         /\ removal' = [pc |-> "write", gen |-> gen, of |-> addrs \cap live,
                        out |-> live']
         /\ Seen(Unlocked(Appending \/ loading.pc = "read") \cup Crossing(gen))

\* A service removes a ban.
Unban(x) ==
    /\ removal.pc = "idle" /\ Room /\ "services" \in own
    /\ UseLock
    /\ IF Free(MyLock) THEN Rewrite(MyLock, {x})
       ELSE /\ removal' = [Idle EXCEPT !.pc = "wait", !.gen = MyLock, !.of = {x}]
            /\ UNCHANGED <<live, held, marks>>
    /\ UNCHANGED <<setting, life, setups, own, hook, lookup, threshold, reader,
                   warming, file, slipped, add, loading, purge, command>>

UnbanStart ==
    /\ removal.pc = "wait" /\ Free(removal.gen)
    /\ Rewrite(removal.gen, removal.of) /\ KeepLock
    /\ UNCHANGED <<setting, life, setups, own, hook, lookup, threshold, reader,
                   warming, file, slipped, add, loading, purge, command>>

UnbanEnd ==
    /\ removal.pc \in {"write", "parted"}
    /\ RewriteLanded(removal) /\ Release(removal.gen) /\ removal' = Over
    /\ UNCHANGED <<setting, life, setups, own, hook, lookup, threshold, reader,
                   warming, slipped, add, loading, purge, command, marks>>

\* What it puts back may be older than the set-up that has run meanwhile.
UnbanFails ==
    /\ removal.pc \in {"write", "parted"}
    /\ RewriteFailed(removal) /\ Release(removal.gen) /\ removal' = Over
    /\ Slip(live' \ live)
    /\ UNCHANGED <<setting, life, setups, own, hook, lookup, threshold, reader,
                   warming, add, loading, purge, command>>

UnbanLost ==
    /\ removal.pc \in {"write", "parted"}
    /\ RewriteLost /\ Release(removal.gen)
    /\ removal' \in {Over, [removal EXCEPT !.pc = "loose"]}
    /\ UNCHANGED <<setting, life, setups, own, hook, lookup, threshold, reader,
                   warming, slipped, add, loading, purge, command>>

LateRemoval ==
    /\ removal.pc = "loose"
    /\ RewriteLanded(removal) /\ removal' = Over
    /\ UNCHANGED <<setting, life, setups, own, hook, lookup, threshold, reader,
                   warming, held_, slipped, add, loading, purge, command, marks>>

\* The hook under the lock: what waited over an unload is lost.
Reading(gen) ==
    IF hook.wasLoad = "none"
    THEN loading' = [Idle EXCEPT !.pc = "lost"] /\ UNCHANGED <<held, marks>>
    ELSE /\ loading' = [Idle EXCEPT !.pc = "read", !.gen = gen, !.out = file]
         /\ Take(gen, Loader) /\ Seen(Unlocked(Appending) \cup Crossing(gen))

\* Home Assistant loads the ban file, as its HTTP server starts.
Load ==
    /\ manager /\ loading.pc = "idle" /\ Room
    /\ IF hook.load = "native"
       THEN /\ loading' = [Idle EXCEPT !.pc = "read", !.out = file]
            /\ Seen(Unlocked(Rewriting \/ \E x \in Addr : add[x].pc = "append"))
            /\ UNCHANGED held_
       ELSE /\ UseLock
            /\ IF Free(MyLock) THEN Reading(MyLock)
               ELSE /\ loading' = [Idle EXCEPT !.pc = "wait", !.gen = MyLock]
                    /\ UNCHANGED <<held, marks>>
    /\ UNCHANGED <<setting, life, setups, own, hook, lookup, threshold, reader,
                   warming, bans, add, purge, removal, command>>

LoadStart ==
    /\ loading.pc = "wait" /\ Free(loading.gen)
    /\ Reading(loading.gen) /\ KeepLock
    /\ UNCHANGED <<setting, life, setups, own, hook, lookup, threshold, reader,
                   warming, bans, add, purge, removal, command>>

\* Mutant: the load keeps the lock.
LoadEndHeld ==
    /\ loading.pc = "read"
    /\ live' = loading.out
    /\ lookup' = IF loading.gen # 0 /\ "entry" \in own THEN "managed" ELSE "plain"
    /\ loading' = Over
    /\ UNCHANGED held_
    /\ Seen({m \in {"lateload"} : ~Unseen /\ loading.gen = 0})
    /\ Slip(live') /\ purge' = Parted(purge) /\ removal' = Parted(removal)
    /\ UNCHANGED <<setting, life, setups, own, hook, threshold, reader, warming,
                   file, add, command>>

\* The load makes a new lookup; ours makes it a managed one again.
LoadEnd ==
    /\ loading.pc = "read"
    /\ live' = loading.out
    /\ lookup' = IF loading.gen # 0 /\ "entry" \in own THEN "managed" ELSE "plain"
    /\ loading' = Over
    /\ IF loading.gen = 0 THEN UNCHANGED held_ ELSE Release(loading.gen)
    /\ Seen({m \in {"crossed"} : lookup' = "managed" /\ life = "u_flush"} \cup
            {m \in {"lateload"} : ~Unseen /\ loading.gen = 0}
            \cup Unlocked(live \ loading.out # {} /\ loading.gen = 0))
    /\ Slip(live') /\ purge' = Parted(purge) /\ removal' = Parted(removal)
    /\ UNCHANGED <<setting, life, setups, own, hook, threshold, reader, warming,
                   file, add, command>>

-----------------------------------------------------------------------------
Init ==
    /\ disabled \in BOOLEAN /\ manager \in BOOLEAN
    /\ geo \in {"off", "on", "lock"}
    /\ disabled \/ ~manager => geo = "off" /\ (disabled => manager)
    /\ life = "off" /\ setups = 0 /\ own = {}
    /\ hook = Native /\ lookup = "plain"
    /\ threshold = [now |-> "theirs", was |-> "none"]
    /\ reader = FALSE /\ warming = FALSE
    /\ lock = 0 /\ made = 0 /\ held = [g \in Generation |-> Nobody]
    /\ live = {} /\ file = Trusted /\ slipped = {}
    /\ add = [x \in Addr |-> Idle]
    /\ loading = Idle /\ purge = Idle /\ removal = Idle
    /\ command = [c \in Command |-> "idle"] /\ marks = {}

Run ==
    \/ Reloaded \/ PanelReady \/ ListsReady \/ ReaderReady
    \/ PurgeStart \/ PurgeEnd \/ Ready
    \/ NpmStopped \/ DnsStopped \/ TasksStopped \/ Flushed
    \/ Warmed \/ UnbanStart \/ UnbanEnd \/ LoadStart \/ LoadEnd
    \/ LatePurge \/ LateRemoval
    \/ \E x \in Addr : BanLocked(x) \/ Appended(x) \/ LateAppend(x)
    \/ \E c \in Command : CommandApplies(c) \/ CommandPrepares(c)

Next ==
    \/ Run
    \/ SetUp \/ Unload \/ SetUpFails \/ Load \/ UnbanFails \/ UnbanLost
    \/ \E c \in Command : StartCommand(c)
    \/ \E x \in Addr : Ban(x) \/ Unban(x) \/ AppendLost(x)

Spec == Init /\ [][Next]_vars
FairSpec == Spec /\ WF_vars(Run)

-----------------------------------------------------------------------------
(* Properties.                                                             *)

\* An unload, and a set-up that failed anywhere, leave Home Assistant as it
\* was: hooks, lookup, threshold, reader, listeners; a completed set-up has
\* installed all of it.  Commands and loads that end in the last stretch of
\* the unload or after it, and a native load that ends late, excuse.
HooksFollowLife ==
    /\ life = "off" /\ "crossed" \notin marks =>
          /\ own = {} /\ hook = Native /\ lookup = "plain" /\ ~reader /\ ~warming
          /\ threshold = [now |-> "theirs", was |-> "none"]
    /\ life = "on" /\ own # {} /\ manager /\ marks \cap {"lateload", "crossed"} = {} =>
          /\ own = Parts /\ hook = Managed /\ lookup = "managed"
          /\ threshold = [now |-> "ours", was |-> "theirs"]

\* Once set-up is complete the only trusted addresses that are banned are
\* those it could not see: banned by Home Assistant's own method between the
\* look at the bans and the hook, read from the file by a load that ended
\* after that look, or put back by a removal that began before this set-up
\* and failed after it.
TrustedNotBanned ==
    life \in {"s_platforms", "on"} /\ own # {} /\ manager => live \cap Trusted \subseteq slipped

\* The bans Home Assistant made of trusted addresses before the integration
\* finished loading are removed after set-up (src/README.md, Events): that
\* is, of bans made in this run, none of which a load brought.
StartupBansRemoved ==
    life = "on" /\ own # {} /\ manager /\ loading.pc = "idle" => live \cap Trusted = {}

\* With no call in flight and the ban file loaded, the enforced bans are those
\* of the file, over any number of reloads and failed rewrites, unless an append failed or was
\* cut off, a rewrite was cancelled twice or failed after Home Assistant got
\* another lookup, a native add met a rewrite or a load, or two generations
\* of the lock were held at once.
BansSurviveReloads ==
    /\ life \notin {"s_lock", "s_write"} /\ loading.pc = "done"
    /\ removal.pc \in {"idle", "done"}
    /\ \A x \in Addr : add[x].pc \in {"idle", "done"}
    /\ marks \cap {"unwritten", "parted", "unlocked", "twolocks"} = {}
    => live = file

\* Every set-up and every unload comes to its end.
LifecycleEnds == life \notin {"off", "on"} ~> life \in {"off", "on"}
=============================================================================
