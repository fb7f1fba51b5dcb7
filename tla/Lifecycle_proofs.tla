-------------------------- MODULE Lifecycle_proofs --------------------------
(***************************************************************************)
(* Proofs about Lifecycle, for every set of addresses and commands and any *)
(* number of reloads: what is installed follows the phase of set-up and    *)
(* unload, the only trusted addresses banned once set-up is complete are   *)
(* those it could not see, and the bans that are enforced are those of the *)
(* file as far as failed and cancelled writes let them.                    *)
(***************************************************************************)
EXTENDS Lifecycle, FiniteSetTheorems, TLAPS

Phase == {"off", "on"} \cup SettingUp \cup Unloading

\* Which login, add and load hooks are in place.
AddHook(side) ==
    /\ hook.login = side /\ hook.add = side
    /\ hook.wasAdd = IF side = "managed" THEN "native" ELSE "none"
LoadHook(side) ==
    hook.load = side /\ hook.wasLoad = IF side = "managed" THEN "native" ELSE "none"

Theirs == [now |-> "theirs", was |-> "none"]
Ours == [now |-> "ours", was |-> "theirs"]

\* Set-up is complete with native banning and without the emergency switch.
Complete == life = "on" /\ ~ disabled /\ manager

\* The load hook comes with the panel, the others once the bans of trusted
\* addresses are gone; the unload takes all of them out in one step.
HooksFit ==
    /\ hook \in [login : Side, add : Side, load : Side,
                 wasAdd : {"none", "native"}, wasLoad : {"none", "native"}]
    /\ AddHook("native") \/ AddHook("managed")
    /\ LoadHook("native") \/ LoadHook("managed")
    /\ life \in {"off", "s_reload", "s_panel", "u_flush"} => LoadHook("native")
    /\ life \in {"s_lists", "s_geo", "s_lock", "s_write", "s_platforms"} \/ Complete =>
          LoadHook("managed")
    /\ life \in {"off", "s_reload", "s_panel", "s_lists", "s_geo", "s_lock", "s_write",
                 "u_flush"} => AddHook("native")
    /\ life = "s_platforms" \/ Complete => AddHook("managed")

\* What set-up has registered by each phase.
OwnFits ==
    /\ own \subseteq Parts
    /\ life \in {"off", "s_reload"} => own = {}
    /\ life = "s_panel" => own = {"entry"}
    /\ life = "s_lists" => own = {"entry", "views"}
    /\ life \in {"s_geo", "s_lock", "s_write"} => own = {"entry", "views", "timer"}
    /\ life = "s_platforms" \/ Complete => own = Parts
    /\ life = "on" /\ disabled => own = {}
    /\ life = "u_npm" => own \cap {"views", "npm"} = {}
    /\ life \in {"u_dns", "u_tasks", "u_flush"} => own \subseteq {"entry", "services"}

\* Commands may apply the policy in any phase, loads take the lookup out; the
\* unload restores once nothing of ours prepares the reader any more.
PolicyFits ==
    /\ lookup \in {"plain", "managed"} /\ threshold \in {Theirs, Ours}
    /\ reader \in BOOLEAN /\ warming \in BOOLEAN
    /\ life \in {"off", "u_flush"} /\ "crossed" \notin marks =>
          lookup = "plain" /\ threshold = Theirs /\ ~ reader
    /\ life \in {"off", "s_reload", "s_panel", "s_lists", "u_tasks", "u_flush"} => ~ warming
    /\ life \in {"s_lock", "s_write", "s_platforms"} \/ Complete =>
          /\ threshold = Ours
          /\ "lateload" \notin marks => lookup = "managed"

\* The bans of trusted addresses are known, removed, and stay away, but for
\* those that slipped in since set-up looked.
TrustedFits ==
    /\ life = "s_lock" => purge.pc = "idle" /\ live \cap Trusted \subseteq purge.of \cup slipped
    /\ life \in {"s_write", "s_platforms"} \/ Complete => live \cap Trusted \subseteq slipped

Settings ==
    /\ disabled \in BOOLEAN /\ manager \in BOOLEAN /\ life \in Phase
    /\ life \in SettingUp => ~ disabled
    /\ life \in SettingUp \ {"s_reload"} => manager

Inv == Settings /\ HooksFit /\ OwnFits /\ PolicyFits /\ TrustedFits

-----------------------------------------------------------------------------
LEMMA InitInv ==
    ASSUME Init
    PROVE  Inv
  <1> USE DEF Init
  <1>1. Settings /\ OwnFits
    BY DEF Settings, OwnFits, Phase, Complete, SettingUp
  <1>2. HooksFit
    BY DEF HooksFit, Complete, AddHook, LoadHook, Native, Side
  <1>3. PolicyFits /\ TrustedFits
    BY DEF PolicyFits, TrustedFits, Complete, Theirs
  <1> QED
    BY <1>1, <1>2, <1>3 DEF Inv

\* The calls that only touch the bans.
BanCall ==
    \/ Load \/ LoadStart \/ UnbanStart \/ UnbanEnd \/ UnbanFails \/ UnbanLost \/ LateRemoval
    \/ \E x \in Addr :
          Ban(x) \/ BanLocked(x) \/ Appended(x) \/ AppendLost(x) \/ LateAppend(x) \/ Unban(x)
    \/ \E c \in Command : StartCommand(c)

LEMMA BanCallQuiet ==
    ASSUME BanCall
    PROVE  /\ UNCHANGED <<setting, life, own, hook, lookup, threshold, reader, warming, purge>>
           /\ marks \subseteq marks'
  <1> DEFINE Quiet ==
        /\ UNCHANGED <<setting, life, own, hook, lookup, threshold, reader, warming, purge>>
        /\ marks \subseteq marks'
  <1> USE DEF setting, calls, held_, Seen
  <1>1. ASSUME NEW x \in Addr, Ban(x) PROVE Quiet
    BY <1>1 DEF Ban, Unhooked, Hooked
  <1>2. ASSUME NEW x \in Addr,
               BanLocked(x) \/ Appended(x) \/ AppendLost(x) \/ LateAppend(x) \/ Unban(x)
        PROVE  Quiet
    BY <1>2 DEF BanLocked, Appended, AppendLost, LateAppend, Unban, Hooked, Rewrite
  <1>3. ASSUME Load \/ LoadStart PROVE Quiet
    BY <1>3 DEF Load, LoadStart, Reading
  <1>4. ASSUME UnbanStart \/ UnbanEnd \/ UnbanFails \/ UnbanLost \/ LateRemoval PROVE Quiet
    BY <1>4 DEF UnbanStart, UnbanEnd, UnbanFails, UnbanLost, LateRemoval, Rewrite,
                RewriteFailed, RewriteLost
  <1>5. ASSUME NEW c \in Command, StartCommand(c) PROVE Quiet
    BY <1>5 DEF StartCommand
  <1> QED
    BY <1>1, <1>2, <1>3, <1>4, <1>5 DEF BanCall

\* None of them bans a trusted address, except the native add and a removal
\* that is undone; once set-up has looked that slips in.
LEMMA BanCallTrusted ==
    ASSUME BanCall
    PROVE  /\ slipped \subseteq slipped'
           /\ ~ Unseen => live' \cap Trusted \subseteq live \cup slipped'
  <1> DEFINE Fits == /\ slipped \subseteq slipped'
                     /\ ~ Unseen => live' \cap Trusted \subseteq live \cup slipped'
  <1> USE DEF bans
  <1>1. ASSUME NEW x \in Addr, Ban(x) PROVE Fits
    <2>1. CASE hook.add = "native"
      <3>1. live' = live \cup {x} /\ Slip({x} \ live)
        BY <1>1, <2>1 DEF Ban, Unhooked
      <3> QED
        BY <3>1 DEF Slip
    <2>2. CASE hook.add # "native"
      <3>1. slipped' = slipped /\ (live' = live \/ Hooked(x, MyLock))
        BY <1>1, <2>2 DEF Ban
      <3> QED
        BY <3>1 DEF Hooked
    <2> QED
      BY <2>1, <2>2
  <1>2. ASSUME NEW x \in Addr,
               BanLocked(x) \/ Appended(x) \/ AppendLost(x) \/ LateAppend(x) \/ Unban(x)
        PROVE  Fits
    BY <1>2 DEF BanLocked, Appended, AppendLost, LateAppend, Unban, Hooked, Rewrite
  <1>3. ASSUME Load \/ LoadStart PROVE Fits
    BY <1>3 DEF Load, LoadStart
  <1>4. ASSUME UnbanStart \/ UnbanEnd \/ UnbanLost \/ LateRemoval PROVE Fits
    BY <1>4 DEF UnbanStart, UnbanEnd, UnbanLost, LateRemoval, Rewrite, RewriteLanded,
                RewriteLost
  <1>5. ASSUME UnbanFails PROVE Fits
    BY <1>5 DEF UnbanFails, Slip
  <1>6. ASSUME NEW c \in Command, StartCommand(c) PROVE Fits
    BY <1>6 DEF StartCommand
  <1> QED
    BY <1>1, <1>2, <1>3, <1>4, <1>5, <1>6 DEF BanCall

LEMMA BanCallInv ==
    ASSUME Inv, BanCall
    PROVE  Inv'
  <1>1. UNCHANGED <<disabled, manager, life, own, hook, lookup, threshold, reader, warming,
                    purge>> /\ marks \subseteq marks'
    BY BanCallQuiet DEF setting
  <1>2. Settings' /\ OwnFits'
    BY <1>1 DEF Inv, Settings, OwnFits, Complete
  <1>3. HooksFit'
    BY <1>1 DEF Inv, HooksFit, Complete, AddHook, LoadHook
  <1>4. PolicyFits'
    BY <1>1 DEF Inv, PolicyFits, Complete
  <1>5. TrustedFits'
    BY <1>1, BanCallTrusted DEF Inv, TrustedFits, Unseen, Complete
  <1> QED
    BY <1>2, <1>3, <1>4, <1>5 DEF Inv

-----------------------------------------------------------------------------
(* Set-up.                                                                 *)

LEMMA StartInv ==
    ASSUME Inv, SetUp \/ Reloaded \/ PanelReady
    PROVE  Inv'
  <1>1. Settings' /\ OwnFits'
    BY DEF SetUp, Reloaded, PanelReady, Inv, Settings, OwnFits, Complete, Phase,
           SettingUp, setting, Parts
  <1>2. HooksFit'
    <2> USE DEF Inv, Settings, HooksFit, Complete, AddHook, LoadHook, setting
    <2>1. CASE SetUp \/ Reloaded
      BY <2>1 DEF SetUp, Reloaded
    <2>2. CASE PanelReady
      <3>1. /\ life = "s_panel" /\ life' = "s_lists"
            /\ hook.load = "native" /\ hook.wasLoad = "none"
        BY <2>2 DEF PanelReady
      <3>2. hook' = [hook EXCEPT !.load = "managed", !.wasLoad = "native"]
        BY <2>2, <3>1 DEF PanelReady
      <3>3. /\ hook' \in [login : Side, add : Side, load : Side,
                          wasAdd : {"none", "native"}, wasLoad : {"none", "native"}]
            /\ hook'.load = "managed" /\ hook'.wasLoad = "native"
            /\ hook'.login = hook.login /\ hook'.add = hook.add /\ hook'.wasAdd = hook.wasAdd
        BY <3>2 DEF Side
      <3> QED
        BY <3>1, <3>3
    <2> QED
      BY <2>1, <2>2
  <1>3. PolicyFits'
    BY DEF SetUp, Reloaded, PanelReady, Inv, Settings, PolicyFits, Complete, setting, SettingUp
  <1>4. TrustedFits'
    BY DEF SetUp, Reloaded, PanelReady, Inv, Settings, TrustedFits, Complete, setting, bans,
           SettingUp
  <1> QED
    BY <1>1, <1>2, <1>3, <1>4 DEF Inv

HookType == [login : Side, add : Side, load : Side,
             wasAdd : {"none", "native"}, wasLoad : {"none", "native"}]

LEMMA PatchedHook ==
    ASSUME HooksFit, AddHook("native"), LoadHook("managed"), hook' = Patched
    PROVE  hook' \in HookType /\ AddHook("managed")' /\ LoadHook("managed")'
  <1>1. hook \in HookType /\ hook.wasAdd = "none" /\ hook.add = "native"
    BY DEF HooksFit, AddHook, HookType
  <1>2. hook' = [hook EXCEPT !.login = "managed", !.add = "managed", !.wasAdd = "native"]
    BY <1>1 DEF Patched
  <1>3. /\ hook' \in HookType
        /\ hook'.login = "managed" /\ hook'.add = "managed" /\ hook'.wasAdd = "native"
        /\ hook'.load = hook.load /\ hook'.wasLoad = hook.wasLoad
    BY <1>1, <1>2 DEF HookType, Side
  <1> QED
    BY <1>3 DEF AddHook, LoadHook

LEMMA Applied ==
    ASSUME PolicyFits, Apply
    PROVE  threshold' = Ours /\ lookup' = "managed"
  BY DEF PolicyFits, Apply, Theirs, Ours

LEMMA Restored ==
    ASSUME HooksFit, PolicyFits, Restore
    PROVE  /\ hook' = Native /\ hook' \in HookType
           /\ lookup' = "plain" /\ reader' = FALSE /\ threshold' = Theirs
  <1>1. /\ (IF hook.wasAdd = "none" THEN hook.add ELSE hook.wasAdd) = "native"
        /\ (IF hook.wasLoad = "none" THEN hook.load ELSE hook.wasLoad) = "native"
    BY DEF HooksFit, AddHook, LoadHook
  <1>2. hook' = Native
    BY <1>1 DEF Restore, Native
  <1>3. hook' \in HookType
    BY <1>2 DEF Native, HookType, Side
  <1>4. threshold' = Theirs
    BY DEF Restore, PolicyFits, Theirs, Ours
  <1> QED
    BY <1>2, <1>3, <1>4 DEF Restore

\* Once the trusted bans are gone the hooks are installed.
LEMMA InstalledInv ==
    ASSUME Inv, life \in {"s_lists", "s_geo", "s_write"}, life' = "s_platforms",
           hook' = Patched, own' = Parts, UNCHANGED setting,
           threshold' = Ours, "lateload" \notin marks' => lookup' = "managed",
           lookup' \in {"plain", "managed"}, reader' \in BOOLEAN, warming' \in BOOLEAN,
           live' \cap Trusted \subseteq slipped'
    PROVE  Inv'
  <1>1. Settings'
    BY DEF Inv, Settings, Phase, setting, SettingUp
  <1>2. hook' \in HookType /\ AddHook("managed")' /\ LoadHook("managed")'
    <2>1. HooksFit /\ AddHook("native") /\ LoadHook("managed")
      BY DEF Inv, HooksFit
    <2> QED
      BY <2>1, PatchedHook
  <1>3. HooksFit'
    BY <1>2 DEF HooksFit, HookType, Complete
  <1>4. OwnFits'
    BY DEF OwnFits, Complete
  <1>5. PolicyFits' /\ TrustedFits'
    BY DEF PolicyFits, TrustedFits, Complete
  <1> QED
    BY <1>1, <1>3, <1>4, <1>5 DEF Inv

\* Until then set-up waits for the lock or writes.
LEMMA WaitingInv ==
    ASSUME Inv, life \in {"s_lists", "s_geo", "s_lock"}, life' \in {"s_lock", "s_write"},
           hook' = hook, own' = {"entry", "views", "timer"}, UNCHANGED setting,
           threshold' = Ours, "lateload" \notin marks' => lookup' = "managed",
           lookup' \in {"plain", "managed"}, reader' \in BOOLEAN, warming' \in BOOLEAN,
           life' = "s_lock" => purge'.pc = "idle" /\ live' \cap Trusted \subseteq purge'.of,
           life' = "s_write" => live' \cap Trusted \subseteq slipped'
    PROVE  Inv'
  <1>1. Settings'
    BY DEF Inv, Settings, Phase, setting, SettingUp
  <1>2. AddHook("native")' /\ LoadHook("managed")' /\ hook' \in HookType
    BY DEF Inv, HooksFit, AddHook, LoadHook, HookType
  <1>3. HooksFit'
    BY <1>2 DEF HooksFit, HookType, Complete
  <1>4. OwnFits'
    BY DEF OwnFits, Complete, Parts
  <1>5. PolicyFits' /\ TrustedFits'
    BY DEF PolicyFits, TrustedFits, Complete
  <1> QED
    BY <1>1, <1>3, <1>4, <1>5 DEF Inv

LEMMA EnforceInv ==
    ASSUME Inv, NEW parts, life \in {"s_lists", "s_geo"}, Enforce(parts),
           own \cup parts = {"entry", "views", "timer"}, UNCHANGED setting,
           reader' \in BOOLEAN, warming' \in BOOLEAN
    PROVE  Inv'
  <1>1. threshold' = Ours /\ lookup' = "managed"
    BY Applied DEF Inv, Enforce
  <1>2. CASE live \cap Trusted = {}
    <2>1. /\ life' = "s_platforms" /\ hook' = Patched /\ live' = live
          /\ own' = own \cup parts \cup {"services", "npm"}
      BY <1>2 DEF Enforce
    <2>2. own' = Parts
      BY <2>1 DEF Parts
    <2> QED
      BY <1>1, <1>2, <2>1, <2>2, InstalledInv
  <1>3. CASE live \cap Trusted # {}
    <2>1. hook' = hook /\ own' = own \cup parts
      BY <1>3 DEF Enforce
    <2>2. CASE Free(MyLock)
      <3>1. life' = "s_write" /\ live' = live \ (live \cap Trusted)
        BY <1>3, <2>2 DEF Enforce, Purge
      <3> QED
        BY <1>1, <2>1, <3>1, WaitingInv
    <2>3. CASE ~ Free(MyLock)
      <3>1. /\ life' = "s_lock" /\ live' = live
            /\ purge' = [Idle EXCEPT !.gen = MyLock, !.of = live \cap Trusted]
        BY <1>3, <2>3 DEF Enforce
      <3>2. purge'.of = live \cap Trusted /\ purge'.pc = "idle"
        BY <3>1 DEF Idle
      <3> QED
        BY <1>1, <2>1, <3>1, <3>2, WaitingInv
    <2> QED
      BY <2>2, <2>3
  <1> QED
    BY <1>2, <1>3

LEMMA SetUpInv ==
    ASSUME Inv, ListsReady \/ ReaderReady \/ PurgeStart \/ PurgeEnd \/ Ready
    PROVE  Inv'
  <1>1. CASE ListsReady
    <2>1. /\ life = "s_lists" /\ own = {"entry", "views"} /\ UNCHANGED setting
          /\ reader' = reader
      BY <1>1 DEF ListsReady, Inv, OwnFits, setting
    <2>2. CASE geo = "lock"
      <3>1. /\ life' = "s_geo" /\ own' = {"entry", "views", "timer"}
            /\ UNCHANGED <<hook, lookup, threshold, live, warming, marks>>
        BY <1>1, <2>1, <2>2 DEF ListsReady
      <3>2. Settings' /\ OwnFits'
        BY <2>1, <3>1 DEF Inv, Settings, OwnFits, Phase, SettingUp, Complete, setting, Parts
      <3>3. HooksFit'
        BY <2>1, <3>1 DEF Inv, HooksFit, AddHook, LoadHook, Complete
      <3>4. PolicyFits' /\ TrustedFits'
        BY <2>1, <3>1 DEF Inv, PolicyFits, TrustedFits, Complete
      <3> QED
        BY <3>2, <3>3, <3>4 DEF Inv
    <2>3. CASE geo # "lock"
      <3>1. Enforce({"timer"}) /\ warming' = (warming \/ geo = "on")
        BY <1>1, <2>3 DEF ListsReady
      <3>2. warming' \in BOOLEAN /\ reader' \in BOOLEAN
        BY <2>1, <3>1 DEF Inv, PolicyFits
      <3> QED
        BY <2>1, <3>1, <3>2, EnforceInv
    <2> QED
      BY <2>2, <2>3
  <1>2. CASE ReaderReady
    <2>1. /\ life = "s_geo" /\ own = {"entry", "views", "timer"} /\ UNCHANGED setting
          /\ reader' \in BOOLEAN /\ warming' \in BOOLEAN /\ Enforce({})
      BY <1>2 DEF ReaderReady, Inv, OwnFits, PolicyFits, setting
    <2> QED
      BY <2>1, EnforceInv
  <1>3. CASE PurgeStart
    <2>1. /\ life = "s_lock" /\ life' = "s_write" /\ UNCHANGED setting
          /\ own' = {"entry", "views", "timer"} /\ hook' = hook
          /\ threshold' = Ours /\ lookup' = lookup /\ marks \subseteq marks'
          /\ reader' \in BOOLEAN /\ warming' \in BOOLEAN
          /\ live' = live \ purge.of
      BY <1>3 DEF PurgeStart, Purge, Seen, Inv, OwnFits, PolicyFits, setting
    <2>2. /\ lookup \in {"plain", "managed"}
          /\ "lateload" \notin marks => lookup = "managed"
      BY <2>1 DEF Inv, PolicyFits
    <2>3. live \cap Trusted \subseteq purge.of \cup slipped /\ slipped' = slipped
      BY <1>3, <2>1 DEF PurgeStart, Inv, TrustedFits
    <2>4. live' \cap Trusted \subseteq slipped'
      BY <2>1, <2>3
    <2> QED
      BY <2>1, <2>2, <2>4, WaitingInv
  <1>4. CASE PurgeEnd
    <2>1. /\ life = "s_write" /\ life' = "s_platforms" /\ UNCHANGED setting
          /\ own' = own \cup {"services", "npm"} /\ hook' = Patched
          /\ UNCHANGED <<threshold, lookup, marks, live, slipped, reader, warming>>
      BY <1>4 DEF PurgeEnd, setting
    <2>2. own' = Parts
      BY <2>1 DEF Inv, OwnFits, Parts
    <2>3. /\ threshold' = Ours /\ lookup' \in {"plain", "managed"}
          /\ "lateload" \notin marks' => lookup' = "managed"
          /\ reader' \in BOOLEAN /\ warming' \in BOOLEAN
      BY <2>1 DEF Inv, PolicyFits
    <2>4. live' \cap Trusted \subseteq slipped'
      BY <2>1 DEF Inv, TrustedFits
    <2> QED
      BY <2>1, <2>2, <2>3, <2>4, InstalledInv
  <1>5. CASE Ready
    <2>1. /\ life = "s_platforms" /\ life' = "on" /\ UNCHANGED setting
          /\ UNCHANGED <<own, hook, lookup, threshold, reader, warming, live, slipped,
                        marks>>
      BY <1>5 DEF Ready, bans, setting
    <2>2. Settings' /\ OwnFits'
      BY <2>1 DEF Inv, Settings, OwnFits, Phase, SettingUp, Complete, setting
    <2>3. HooksFit'
      BY <2>1 DEF Inv, HooksFit, AddHook, LoadHook, Complete
    <2>4. PolicyFits' /\ TrustedFits'
      BY <2>1 DEF Inv, PolicyFits, TrustedFits, Complete
    <2> QED
      BY <2>2, <2>3, <2>4 DEF Inv
  <1> QED
    BY <1>1, <1>2, <1>3, <1>4, <1>5

-----------------------------------------------------------------------------
(* Unload, and what ends over it.                                          *)

LEMMA UnloadInv ==
    ASSUME Inv, Unload \/ SetUpFails \/ NpmStopped
    PROVE  Inv'
  <1>1. /\ life' \in {"u_npm", "u_dns"} /\ UNCHANGED setting
        /\ UNCHANGED <<hook, lookup, threshold, reader, warming>> /\ marks \subseteq marks'
    BY DEF Unload, SetUpFails, NpmStopped, Detach, RewriteFailed, RewriteLost, Seen, setting
  <1>2. /\ own' \subseteq own
        /\ life' = "u_npm" => own' \cap {"views", "npm"} = {}
        /\ life' = "u_dns" => own' \subseteq {"entry", "services"}
    BY DEF Unload, SetUpFails, NpmStopped, Detach, Inv, OwnFits, Parts
  <1>3. Settings' /\ OwnFits'
    BY <1>1, <1>2 DEF Inv, Settings, OwnFits, Phase, SettingUp, Unloading, Complete, setting
  <1>4. HooksFit'
    BY <1>1 DEF Inv, HooksFit, AddHook, LoadHook, Complete
  <1>5. PolicyFits' /\ TrustedFits'
    BY <1>1 DEF Inv, PolicyFits, TrustedFits, Complete
  <1> QED
    BY <1>3, <1>4, <1>5 DEF Inv

LEMMA StopInv ==
    ASSUME Inv, DnsStopped \/ TasksStopped \/ Flushed
    PROVE  Inv'
  <1>1. CASE life' = "u_flush"
    <2>1. /\ Restore /\ warming' = FALSE /\ UNCHANGED setting
          /\ own' = own /\ own \subseteq {"entry", "services"}
      BY <1>1 DEF DnsStopped, TasksStopped, Flushed, Inv, OwnFits, PolicyFits, setting
    <2>2. /\ hook' = Native /\ hook' \in HookType
          /\ lookup' = "plain" /\ reader' = FALSE /\ threshold' = Theirs
      BY <2>1, Restored DEF Inv
    <2>3. Settings' /\ OwnFits'
      BY <1>1, <2>1 DEF Inv, Settings, OwnFits, Phase, SettingUp, Unloading, Complete, setting,
                        Parts
    <2>4. HooksFit'
      BY <1>1, <2>2 DEF HooksFit, AddHook, LoadHook, Complete, Native, HookType
    <2>5. PolicyFits' /\ TrustedFits'
      BY <1>1, <2>1, <2>2 DEF PolicyFits, TrustedFits, Complete
    <2> QED
      BY <2>3, <2>4, <2>5 DEF Inv
  <1>2. CASE life' = "u_tasks"
    <2>1. /\ life = "u_dns" /\ warming' = FALSE /\ UNCHANGED setting
          /\ UNCHANGED <<own, hook, lookup, reader, threshold, live, slipped, marks>>
      BY <1>2 DEF DnsStopped, TasksStopped, Flushed, setting, bans
    <2>2. Settings' /\ OwnFits'
      BY <1>2, <2>1 DEF Inv, Settings, OwnFits, Phase, SettingUp, Unloading, Complete, setting
    <2>3. HooksFit'
      BY <1>2, <2>1 DEF Inv, HooksFit, AddHook, LoadHook, Complete
    <2>4. PolicyFits' /\ TrustedFits'
      BY <1>2, <2>1 DEF Inv, PolicyFits, TrustedFits, Complete
    <2> QED
      BY <2>2, <2>3, <2>4 DEF Inv
  <1>3. CASE Flushed
    <2>1. /\ life = "u_flush" /\ life' = "off" /\ own' = {} /\ UNCHANGED setting
          /\ UNCHANGED <<hook, lookup, reader, warming, threshold, live, slipped, marks>>
      BY <1>3 DEF Flushed, setting, bans, Inv, OwnFits
    <2>2. Settings' /\ OwnFits'
      BY <2>1 DEF Inv, Settings, OwnFits, Phase, SettingUp, Unloading, Complete, setting
    <2>3. HooksFit'
      BY <2>1 DEF Inv, HooksFit, AddHook, LoadHook, Complete
    <2>4. PolicyFits' /\ TrustedFits'
      BY <2>1 DEF Inv, PolicyFits, TrustedFits, Complete
    <2> QED
      BY <2>2, <2>3, <2>4 DEF Inv
  <1> QED
    BY <1>1, <1>2, <1>3 DEF DnsStopped, TasksStopped

LEMMA EndInv ==
    ASSUME Inv,
           \/ Warmed \/ LoadEnd
           \/ \E c \in Command : CommandApplies(c) \/ CommandPrepares(c)
    PROVE  Inv'
  <1>1. /\ UNCHANGED setting /\ UNCHANGED <<life, own, hook>> /\ marks \subseteq marks'
    BY DEF Warmed, LoadEnd, CommandApplies, CommandPrepares, Seen, setting
  <1>2. Settings' /\ OwnFits'
    BY <1>1 DEF Inv, Settings, OwnFits, Complete, setting
  <1>3. HooksFit'
    BY <1>1 DEF Inv, HooksFit, AddHook, LoadHook, Complete, setting
  <1>4. CASE Warmed
    <2>1. /\ warming /\ warming' = FALSE /\ reader' = TRUE
          /\ UNCHANGED <<lookup, threshold, live, slipped, marks, purge>>
      BY <1>4 DEF Warmed, bans, calls
    <2>2. PolicyFits' /\ TrustedFits'
      BY <1>1, <2>1 DEF Inv, PolicyFits, TrustedFits, Complete, setting
    <2> QED
      BY <1>2, <1>3, <2>2 DEF Inv
  <1>5. CASE LoadEnd
    <2>1. /\ UNCHANGED <<threshold, reader, warming>>
          /\ lookup' = IF loading.gen # 0 /\ "entry" \in own THEN "managed" ELSE "plain"
          /\ lookup' = "managed" /\ life = "u_flush" => "crossed" \in marks'
          /\ ~ Unseen /\ loading.gen = 0 => "lateload" \in marks'
          /\ Slip(live')
      BY <1>5 DEF LoadEnd, Seen
    <2>2. PolicyFits'
      <3>1. lookup' \in {"plain", "managed"} /\ threshold' \in {Theirs, Ours}
        BY <2>1 DEF Inv, PolicyFits
      <3>2. life' \in {"s_lock", "s_write", "s_platforms"} \/ Complete' =>
               ~ Unseen /\ "entry" \in own /\ threshold = Ours
        BY <1>1 DEF Inv, PolicyFits, OwnFits, Unseen, Parts, Complete, setting
      <3> QED
        BY <1>1, <2>1, <3>1, <3>2 DEF Inv, PolicyFits, OwnFits
    <2>3. TrustedFits'
      <3>1. purge' = Parted(purge)
        BY <1>5 DEF LoadEnd
      <3>2. life = "s_lock" => purge' = purge /\ purge.pc = "idle"
        BY <3>1 DEF Inv, TrustedFits, Parted
      <3>3. ~ Unseen => live' \cap Trusted \subseteq slipped'
        BY <2>1 DEF Slip
      <3>4. life' = "s_lock" \/ life' \in {"s_write", "s_platforms"} \/ Complete' => ~ Unseen
        BY <1>1 DEF Unseen, Complete
      <3> QED
        BY <1>1, <3>2, <3>3, <3>4 DEF TrustedFits
    <2> QED
      BY <1>2, <1>3, <2>2, <2>3 DEF Inv
  <1>6. ASSUME NEW c \in Command, CommandApplies(c) \/ CommandPrepares(c)
        PROVE  Inv'
    <2>1. /\ UNCHANGED <<live, slipped, warming, purge>> /\ reader' \in BOOLEAN
          /\ life \in {"u_flush", "off"} => "crossed" \in marks'
          /\ (threshold' = Ours /\ lookup' = "managed") \/ UNCHANGED <<threshold, lookup>>
      BY <1>6, Applied DEF CommandApplies, CommandPrepares, Seen, Late, bans, calls, Inv,
                           PolicyFits
    <2>2. PolicyFits' /\ TrustedFits'
      BY <1>1, <2>1 DEF Inv, PolicyFits, TrustedFits, Complete, setting
    <2> QED
      BY <1>2, <1>3, <2>2 DEF Inv
  <1> QED
    BY <1>4, <1>5, <1>6

-----------------------------------------------------------------------------
\* A rewrite that set-up has given up lands in a later run.
LEMMA LatePurgeInv ==
    ASSUME Inv, LatePurge
    PROVE  Inv'
  <1>1. /\ UNCHANGED setting /\ purge.pc = "loose"
        /\ UNCHANGED <<life, own, hook, lookup, threshold, reader, warming, live, slipped, marks>>
    BY DEF LatePurge, setting
  <1>2. Settings' /\ OwnFits'
    BY <1>1 DEF Inv, Settings, OwnFits, Complete, setting
  <1>3. HooksFit'
    BY <1>1 DEF Inv, HooksFit, AddHook, LoadHook, Complete, setting
  <1>4. PolicyFits'
    BY <1>1 DEF Inv, PolicyFits, Complete, setting
  <1>5. TrustedFits'
    BY <1>1 DEF Inv, TrustedFits, Complete, setting
  <1> QED
    BY <1>2, <1>3, <1>4, <1>5 DEF Inv

LEMMA StepInv ==
    ASSUME Inv, [Next]_vars
    PROVE  Inv'
  <1>1. CASE Next
    <2>1. CASE LatePurge
      BY <2>1, LatePurgeInv
    <2>2. CASE ~ LatePurge
      BY <1>1, <2>2, BanCallInv, StartInv, SetUpInv, UnloadInv, StopInv, EndInv
      DEF Next, Run, BanCall
    <2> QED
      BY <2>1, <2>2
  <1>2. CASE UNCHANGED vars
    <2>1. /\ UNCHANGED <<disabled, manager>>
          /\ UNCHANGED <<life, own, hook, lookup, threshold, reader, warming, purge, live,
                         slipped, marks>>
      BY <1>2 DEF vars, setting, bans, calls
    <2>2. Settings' /\ OwnFits'
      BY <2>1 DEF Inv, Settings, OwnFits, Complete
    <2>3. HooksFit'
      BY <2>1 DEF Inv, HooksFit, AddHook, LoadHook, Complete
    <2>4. PolicyFits' /\ TrustedFits'
      BY <2>1 DEF Inv, PolicyFits, TrustedFits, Complete
    <2> QED
      BY <2>2, <2>3, <2>4 DEF Inv
  <1> QED
    BY <1>1, <1>2

\* The inductive invariant: which hook, registration and policy is in place
\* in each await of set-up and unload.
THEOREM PhasesHold == Spec => []Inv
  BY InitInv, StepInv, PTL DEF Spec

\* An unload, and a set-up that failed in any of its awaits, give every hook,
\* lookup, threshold and reader back, and a completed set-up has installed
\* them, whatever calls were in flight (__init__.py, http_patches.py).
THEOREM UnloadRestores == Spec => []HooksFollowLife
  <1>1. ASSUME Inv PROVE HooksFollowLife
    <2>1. ASSUME life = "off", "crossed" \notin marks
          PROVE  own = {} /\ hook = Native /\ lookup = "plain" /\ ~ reader /\ ~ warming
                   /\ threshold = Theirs
      <3>1. hook \in HookType /\ AddHook("native") /\ LoadHook("native")
        BY <1>1, <2>1 DEF Inv, HooksFit, HookType
      <3>2. hook = Native
        BY <3>1 DEF HookType, AddHook, LoadHook, Native
      <3> QED
        BY <1>1, <2>1, <3>2 DEF Inv, OwnFits, PolicyFits
    <2>2. ASSUME life = "on", own # {}, manager, marks \cap {"lateload", "crossed"} = {}
          PROVE  own = Parts /\ hook = Managed /\ lookup = "managed" /\ threshold = Ours
      <3>1. Complete
        BY <1>1, <2>2 DEF Complete, Inv, OwnFits, Settings
      <3>2. hook \in HookType /\ AddHook("managed") /\ LoadHook("managed")
        BY <1>1, <3>1 DEF Inv, HooksFit, HookType
      <3>3. hook = Managed
        BY <3>2 DEF HookType, AddHook, LoadHook, Managed
      <3> QED
        BY <1>1, <2>2, <3>1, <3>3 DEF Inv, OwnFits, PolicyFits
    <2> QED
      BY <2>1, <2>2 DEF HooksFollowLife, Theirs, Ours
  <1> QED
    BY <1>1, PhasesHold, PTL

\* Once set-up is complete, a trusted address is banned only if it slipped
\* past set-up's look at the bans: Home Assistant's own method banned it, a
\* load read it from the file, or an earlier removal was undone, each after
\* that look.  The bans set-up does see are gone before the hook is in place,
\* through failures and reloads, and neither an add that waited for the lock
\* nor one of the hook brings one back (__init__.py, http_patches.py).
THEOREM TrustedStayFree == Spec => []TrustedNotBanned
  <1>1. ASSUME Inv PROVE TrustedNotBanned
    BY <1>1 DEF Inv, OwnFits, Settings, TrustedFits, TrustedNotBanned, Complete
  <1> QED
    BY <1>1, PhasesHold, PTL

-----------------------------------------------------------------------------
(* The bans and the generations of the lock.                               *)

CallType == Calls({"idle", "wait", "append", "read", "write", "parted", "loose", "done",
                   "lost"})

BansTyped ==
    /\ add \in [Addr -> CallType] /\ loading \in CallType
    /\ purge \in CallType /\ removal \in CallType
    /\ held \in [Generation -> Holder] /\ lock \in {0} \cup Generation
    /\ live \subseteq Addr /\ file \subseteq Addr /\ marks \subseteq Marks

\* A set-up makes at most one lock: the one the unload drops.
GenFits ==
    /\ made \in Nat /\ setups \in 0 .. MaxSetUps
    /\ life = "off" /\ lock = 0 => made <= setups
    /\ life = "off" /\ lock # 0 => made <= setups + 1
    /\ life # "off" /\ lock = 0 => made + 1 <= setups
    /\ life # "off" /\ lock # 0 => made <= setups

\* No write was left to itself, no rewrite undone in a lookup of the past, no
\* native add met a rewrite or a load, and no two locks were held at once.
Unmarked == marks \cap {"unwritten", "parted", "unlocked", "twolocks"} = {}
OneHolder ==
    Unmarked => \A g, h \in Generation : held[g] # Nobody /\ held[h] # Nobody => g = h

\* Whoever is at work under a lock holds it, in whichever generation.
Removing == removal.pc \in {"write", "parted"}
LocksFit ==
    /\ \A x \in Addr :
          /\ add[x].pc = "idle" => add[x].gen = 0
          /\ add[x].pc = "wait" => add[x].gen \in Generation
          /\ add[x].pc = "append" /\ add[x].gen # 0 => held[add[x].gen] = x
    /\ loading.pc = "wait" => loading.gen \in Generation
    /\ loading.pc = "read" /\ loading.gen # 0 => held[loading.gen] = Loader
    /\ removal.pc = "wait" \/ Removing => removal.gen \in Generation
    /\ Removing => held[removal.gen] = Remover
    /\ life \in {"s_lock", "s_write"} => purge.gen \in Generation /\ purge.pc # "loose"
    /\ life = "s_write" => held[purge.gen] = SetUpTask

\* The file is behind the bans by the appends on their way, or by the one
\* rewrite; before the load it may hold bans that nobody has read.
Adds == {x \in Addr : add[x].pc = "append"}
BansFit ==
    Unmarked =>
        /\ Adds \subseteq live
        /\ \A x \in Addr : add[x].pc # "loose"
        /\ purge.pc # "loose" /\ removal.pc # "loose"
        /\ Rewriting => Adds = {} /\ loading.pc # "read"
        /\ ~ (life = "s_write" /\ Removing)
        /\ loading.pc = "read" =>
              /\ loading.out \subseteq file /\ file \subseteq loading.out \cup live
              /\ loading.gen # 0 => file = loading.out
              /\ ~ Appending
        /\ loading.pc = "done" =>
              /\ ~ Rewriting => live = file \cup Adds
              /\ life = "s_write" => live = purge.out /\ file = purge.out \cup purge.of
              /\ Removing => live = removal.out /\ file = removal.out \cup removal.of

BansInv == BansTyped /\ GenFits /\ OneHolder /\ LocksFit /\ BansFit

LEMMA Holders ==
    /\ SetUpTask \in Holder /\ Remover \in Holder /\ Loader \in Holder /\ Nobody \in Holder
    /\ Addr \subseteq Holder /\ Trusted \subseteq Addr
    /\ {SetUpTask, Remover, Loader, Nobody} \cap Addr = {}
    /\ MaxSetUps \in Nat
  BY LifecycleAssumption DEF Holder

LEMMA HoldersDiffer ==
    /\ SetUpTask # Nobody /\ Remover # Nobody /\ Loader # Nobody
    /\ SetUpTask # Remover /\ SetUpTask # Loader /\ Remover # Loader
    /\ \A x \in Addr : x # Nobody /\ x # SetUpTask /\ x # Remover /\ x # Loader
  <1>1. Cardinality({SetUpTask, Remover, Loader, Nobody}) = 4
    BY LifecycleAssumption
  <1>2. ASSUME NEW a, NEW b, NEW c PROVE Cardinality({a, b, c}) # 4
    <2>1. IsFiniteSet({a, b, c}) /\ Cardinality({a, b, c}) <= 3
      <3>1. IsFiniteSet({}) /\ Cardinality({}) = 0
        BY FS_EmptySet
      <3>2. IsFiniteSet({a}) /\ Cardinality({a}) = 1
        BY FS_Singleton
      <3>3. IsFiniteSet({a} \cup {b}) /\ Cardinality({a} \cup {b}) <= 2
        BY <3>2, FS_AddElement
      <3>4. IsFiniteSet(({a} \cup {b}) \cup {c}) /\ Cardinality(({a} \cup {b}) \cup {c}) <= 3
        <4>1. Cardinality({a} \cup {b}) \in Nat
          BY <3>3, FS_CardinalityType
        <4> QED
          BY <3>3, <4>1, FS_AddElement
      <3>5. ({a} \cup {b}) \cup {c} = {a, b, c}
        OBVIOUS
      <3> QED
        BY <3>4, <3>5
    <2> QED
      BY <2>1, FS_CardinalityType
  <1>3. SetUpTask # Nobody
    BY <1>1, <1>2
  <1>4. Remover # Nobody
    BY <1>1, <1>2
  <1>5. Loader # Nobody
    BY <1>1, <1>2
  <1>6. SetUpTask # Remover
    BY <1>1, <1>2
  <1>7. SetUpTask # Loader
    BY <1>1, <1>2
  <1>8. Remover # Loader
    BY <1>1, <1>2
  <1>9. \A x \in Addr : x # Nobody /\ x # SetUpTask /\ x # Remover /\ x # Loader
    BY Holders
  <1> QED
    BY <1>3, <1>4, <1>5, <1>6, <1>7, <1>8, <1>9

LEMMA IdleTyped ==
    /\ Idle \in CallType /\ Idle.pc = "idle" /\ Idle.gen = 0
    /\ Idle.of = {} /\ Idle.out = {}
  BY DEF Idle, CallType, Calls

LEMMA OverTyped ==
    /\ Over \in CallType /\ Over.pc = "done" /\ Over.gen = 0
  <1>1. Over = [pc |-> "done", gen |-> 0, of |-> {}, out |-> {}]
    BY DEF Over, Idle
  <1> QED
    BY <1>1 DEF CallType, Calls

\* To lose its lookup changes nothing but the phase of a rewrite under way.
LEMMA PartedTyped ==
    ASSUME NEW call \in CallType
    PROVE  /\ Parted(call) \in CallType /\ Parted(call).gen = call.gen
           /\ Parted(call).of = call.of /\ Parted(call).out = call.out
           /\ Parted(call).pc = IF call.pc = "write" THEN "parted" ELSE call.pc
  BY DEF Parted, CallType, Calls

\* The lock of the moment is one of the generations, and so is a new one.
LEMMA LockMade ==
    ASSUME BansTyped, GenFits, UseLock, setups' = setups, life # "off" <=> life' # "off"
    PROVE  MyLock \in Generation /\ GenFits' /\ lock' \in {0} \cup Generation
  <1>1. MaxSetUps \in Nat
    BY Holders
  <1>2. CASE lock = 0
    <2>1. made \in Nat /\ made + 1 \in 1 .. MaxSetUps + 1
      BY <1>1, <1>2 DEF GenFits
    <2>2. MyLock = made + 1 /\ lock' = made + 1 /\ made' = made + 1 /\ lock' # 0
      BY <1>2, <2>1 DEF UseLock, MyLock
    <2>3. GenFits'
      BY <1>1, <1>2, <2>1, <2>2 DEF GenFits
    <2> QED
      BY <2>1, <2>2, <2>3 DEF Generation
  <1>3. CASE lock # 0
    <2>1. MyLock = lock /\ lock' = lock /\ made' = made
      BY <1>3 DEF UseLock, MyLock
    <2>2. GenFits'
      BY <1>3, <2>1 DEF GenFits
    <2> QED
      BY <1>3, <2>1, <2>2 DEF BansTyped
  <1> QED
    BY <1>2, <1>3

\* Taking a free lock while another generation is held leaves its mark.
LEMMA Taken ==
    ASSUME BansTyped, OneHolder, NEW gen \in Generation, NEW who \in Holder, who # Nobody,
           Free(gen), Take(gen, who), marks \cup Crossing(gen) \subseteq marks'
    PROVE  /\ held' \in [Generation -> Holder] /\ held'[gen] = who
           /\ \A g \in Generation \ {gen} : held'[g] = held[g]
           /\ Unmarked' => Unmarked /\ \A g \in Generation : held[g] = Nobody
           /\ OneHolder'
  <1>1. /\ held' \in [Generation -> Holder] /\ held'[gen] = who
        /\ \A g \in Generation \ {gen} : held'[g] = held[g]
    BY DEF BansTyped, Take
  <1>2. Unmarked' => Unmarked
    BY DEF Unmarked
  <1>3. Unmarked' => \A g \in Generation : held[g] = Nobody
    BY DEF Unmarked, Crossing, OtherHolder, Free
  <1>4. OneHolder'
    BY <1>1, <1>3 DEF OneHolder
  <1> QED
    BY <1>1, <1>2, <1>3, <1>4

LEMMA Released ==
    ASSUME BansTyped, GenFits, OneHolder, NEW gen \in Generation, Release(gen),
           marks \subseteq marks', setups' = setups, life # "off" <=> life' # "off"
    PROVE  /\ held' \in [Generation -> Holder] /\ held'[gen] = Nobody
           /\ \A g \in Generation \ {gen} : held'[g] = held[g]
           /\ OneHolder' /\ GenFits' /\ lock' \in {0} \cup Generation
  <1>1. /\ held' \in [Generation -> Holder] /\ held'[gen] = Nobody
        /\ \A g \in Generation \ {gen} : held'[g] = held[g]
    BY Holders DEF BansTyped, Release, Take
  <1>2. OneHolder'
    BY <1>1 DEF OneHolder, Unmarked
  <1>3. GenFits' /\ lock' \in {0} \cup Generation
    BY DEF Release, GenFits, BansTyped
  <1> QED
    BY <1>1, <1>2, <1>3

\* With no lock held and no native append nothing is on its way.
LEMMA NobodyAdds ==
    ASSUME BansInv, Unmarked, \A g \in Generation : held[g] = Nobody
    PROVE  /\ ~ Appending => Adds = {}
           /\ ~ Rewriting
           /\ loading.pc = "read" => loading.gen = 0
  <1>1. ~ Appending => Adds = {}
    <2> SUFFICES ASSUME ~ Appending, NEW x \in Addr, add[x].pc = "append" PROVE FALSE
      BY DEF Adds
    <2>1. add[x].gen # 0
      BY DEF Appending
    <2>2. add[x].gen \in Generation /\ held[add[x].gen] = x
      BY <2>1 DEF BansInv, LocksFit, BansTyped, CallType, Calls
    <2> QED
      BY <2>2, HoldersDiffer
  <1>2. ~ Rewriting
    BY HoldersDiffer DEF Rewriting, Removing, BansInv, LocksFit
  <1>3. loading.pc = "read" => loading.gen = 0
    <2>1. loading.gen \in {0} \cup Generation
      BY DEF BansInv, BansTyped, CallType, Calls
    <2> QED
      BY <2>1, HoldersDiffer DEF BansInv, LocksFit
  <1> QED
    BY <1>1, <1>2, <1>3

-----------------------------------------------------------------------------
(* Each step keeps the bans and the locks in order.                        *)

LEMMA BansInit == Init => BansInv
  <1> SUFFICES ASSUME Init PROVE BansInv
    OBVIOUS
  <1>1. BansTyped
    BY Holders, IdleTyped DEF Init, BansTyped, Marks
  <1>2. GenFits
    BY Holders DEF Init, GenFits
  <1>3. OneHolder /\ LocksFit
    BY IdleTyped DEF Init, OneHolder, LocksFit, Removing
  <1>4. BansFit
    BY IdleTyped DEF Init, BansFit, Rewriting, Removing, Adds
  <1> QED
    BY <1>1, <1>2, <1>3, <1>4 DEF BansInv

\* A step of set-up, unload or a command that touches no ban and no lock; the
\* removal may lose its lookup.
LEMMA PhaseKeepsBans ==
    ASSUME BansInv, UNCHANGED <<held_, bans, add, loading, purge, setups>>,
           removal' \in {removal, Parted(removal)}, marks \subseteq marks',
           marks' \subseteq Marks, life # "off" <=> life' # "off",
           life' \in {"s_lock", "s_write"} \/ life \in {"s_lock", "s_write"} => life' = life
    PROVE  BansInv'
  <1>1. UNCHANGED <<lock, held, made, live, file, add, loading, purge, setups>>
    BY DEF held_, bans
  <1>2. /\ removal' \in CallType /\ removal'.gen = removal.gen /\ removal'.of = removal.of
        /\ removal'.out = removal.out /\ Removing' = Removing
        /\ removal'.pc \in {"wait", "loose"} => removal'.pc = removal.pc
    BY PartedTyped DEF BansInv, BansTyped, Removing
  <1>3. BansTyped' /\ GenFits'
    BY <1>1, <1>2 DEF BansInv, BansTyped, GenFits
  <1>4. OneHolder' /\ LocksFit'
    BY <1>1, <1>2 DEF BansInv, OneHolder, LocksFit, Removing, Unmarked
  <1>5. Unmarked' => Unmarked
    BY DEF Unmarked
  <1>6. Rewriting' = Rewriting /\ Appending' = Appending /\ Adds' = Adds
    BY <1>1, <1>2 DEF Rewriting, Removing, Appending, Adds
  <1>7. BansFit'
    BY <1>1, <1>2, <1>5, <1>6 DEF BansInv, BansFit
  <1> QED
    BY <1>3, <1>4, <1>7 DEF BansInv

\* The rewrite of set-up begins: nothing else is on its way, or a mark is left.
LEMMA PurgeKeepsBans ==
    ASSUME BansInv, NEW gen \in Generation, NEW addrs \in SUBSET Addr, Free(gen),
           life \in {"s_lists", "s_geo", "s_lock"}, Purge(gen, addrs), GenFits',
           lock' \in {0} \cup Generation, UNCHANGED <<file, add, loading>>,
           removal' \in {removal, Parted(removal)}
    PROVE  BansInv'
  <1>1. /\ life' = "s_write" /\ live' = live \ addrs
        /\ marks \cup Crossing(gen) \subseteq marks' /\ marks' \subseteq Marks
        /\ Appending \/ loading.pc = "read" => "unlocked" \in marks'
    BY DEF Purge, Seen, Unlocked, Crossing, BansInv, BansTyped, Marks
  <1>2. /\ purge' \in CallType /\ purge'.gen = gen /\ purge'.of = addrs \cap live
        /\ purge'.out = live' /\ purge'.pc = "write"
    BY <1>1 DEF Purge, CallType, Calls, BansInv, BansTyped
  <1>8. /\ removal' \in CallType /\ removal'.gen = removal.gen /\ Removing' = Removing
        /\ removal'.pc \in {"wait", "loose"} => removal'.pc = removal.pc
    BY PartedTyped DEF BansInv, BansTyped, Removing
  <1>3. /\ held' \in [Generation -> Holder] /\ held'[gen] = SetUpTask
        /\ \A g \in Generation \ {gen} : held'[g] = held[g]
        /\ Unmarked' => Unmarked /\ \A g \in Generation : held[g] = Nobody
        /\ OneHolder'
    BY <1>1, Holders, HoldersDiffer, Taken DEF Purge, BansInv
  <1>4. BansTyped'
    BY <1>1, <1>2, <1>3, <1>8 DEF BansInv, BansTyped
  <1>5. held[gen] = Nobody
    BY DEF Free
  <1>6. LocksFit'
    BY <1>1, <1>2, <1>3, <1>5, <1>8, HoldersDiffer
    DEF BansInv, LocksFit, BansTyped, CallType, Calls
  <1>7. BansFit'
    <2> SUFFICES ASSUME Unmarked'
                 PROVE  /\ Adds' = {} /\ loading'.pc # "read" /\ ~ Removing'
                        /\ \A x \in Addr : add'[x].pc # "loose"
                        /\ removal'.pc # "loose"
                        /\ loading'.pc = "done" =>
                              live' = purge'.out /\ file' = purge'.out \cup purge'.of
      BY <1>1, <1>2 DEF BansFit, Rewriting, Removing
    <2>1. Unmarked /\ Adds = {} /\ ~ Rewriting /\ loading.pc # "read"
      BY <1>1, <1>3, NobodyAdds DEF Unmarked
    <2>2. loading.pc = "done" => live = file
      BY <2>1 DEF BansInv, BansFit
    <2>3. (\A x \in Addr : add[x].pc # "loose") /\ removal.pc # "loose"
      BY <2>1 DEF BansInv, BansFit
    <2> QED
      BY <1>1, <1>2, <1>8, <2>1, <2>2, <2>3 DEF Adds, Rewriting, Removing, BansInv, BansTyped
  <1> QED
    BY <1>3, <1>4, <1>6, <1>7 DEF BansInv

LEMMA EnforceKeepsBans ==
    ASSUME BansInv, life \in {"s_lists", "s_geo"}, NEW parts, Enforce(parts),
           UNCHANGED <<setting, setups, file, slipped, add, loading, command>>
    PROVE  BansInv'
  <1>0. removal' \in {removal, Parted(removal)}
    BY DEF Enforce, Apply
  <1>1. CASE live \cap Trusted = {}
    <2>1. UNCHANGED <<held_, live, purge, marks>> /\ life' = "s_platforms"
      BY <1>1 DEF Enforce
    <2> QED
      BY <1>0, <2>1, PhaseKeepsBans DEF bans, BansInv, BansTyped
  <1>2. CASE live \cap Trusted # {}
    <2>1. /\ UseLock /\ life' \in {"s_write", "s_lock"}
          /\ IF Free(MyLock) THEN Purge(MyLock, live \cap Trusted)
             ELSE /\ life' = "s_lock"
                  /\ purge' = [Idle EXCEPT !.gen = MyLock, !.of = live \cap Trusted]
                  /\ UNCHANGED <<held, live, marks>>
      BY <1>2 DEF Enforce, Purge
    <2>2. MyLock \in Generation /\ GenFits' /\ lock' \in {0} \cup Generation
      BY <2>1, LockMade DEF BansInv
    <2>3. live \cap Trusted \in SUBSET Addr
      BY DEF BansInv, BansTyped
    <2>4. CASE Free(MyLock)
      BY <1>0, <2>1, <2>2, <2>3, <2>4, PurgeKeepsBans
    <2>5. CASE ~ Free(MyLock)
      <3>1. /\ life' = "s_lock" /\ UNCHANGED <<held, live, marks>>
            /\ purge' \in CallType /\ purge'.gen = MyLock /\ purge'.pc = "idle"
        BY <2>1, <2>2, <2>3, <2>5, IdleTyped DEF CallType, Calls
      <3>5. /\ removal' \in CallType /\ removal'.gen = removal.gen
            /\ removal'.of = removal.of /\ removal'.out = removal.out
            /\ Removing' = Removing
            /\ removal'.pc \in {"wait", "loose"} => removal'.pc = removal.pc
        BY <1>0, PartedTyped DEF BansInv, BansTyped, Removing
      <3>2. BansTyped'
        BY <2>2, <3>1, <3>5 DEF BansInv, BansTyped
      <3>3. OneHolder' /\ LocksFit'
        BY <2>2, <3>1, <3>5 DEF BansInv, OneHolder, LocksFit, Removing, Unmarked
      <3>6. Rewriting' = Rewriting /\ Appending' = Appending /\ Adds' = Adds
        BY <3>1, <3>5 DEF Rewriting, Removing, Appending, Adds
      <3>4. BansFit'
        BY <3>1, <3>5, <3>6 DEF BansInv, BansFit, Unmarked
      <3> QED
        BY <2>2, <3>2, <3>3, <3>4 DEF BansInv
    <2> QED
      BY <2>4, <2>5
  <1> QED
    BY <1>1, <1>2

\* It lands, is undone, or is left to itself with a mark: the set-up lets go
\* of its own lock.
LEMMA PurgeEndKeepsBans ==
    ASSUME BansInv, life = "s_write", life' \notin {"off", "s_lock", "s_write"},
           purge' \in CallType, Release(purge.gen), marks \subseteq marks',
           marks' \subseteq Marks, UNCHANGED <<setups, add, loading, removal>>,
           live' \subseteq Addr, file' \subseteq Addr,
           \/ purge' = Idle /\ file' = purge.out /\ live' = live
           \/ purge' = Idle /\ file' = file /\ live' = purge.out \cup purge.of
           \/ ~ Unmarked'
    PROVE  BansInv'
  <1>1. purge.gen \in Generation /\ held[purge.gen] = SetUpTask
    BY DEF BansInv, LocksFit
  <1>2. /\ held' \in [Generation -> Holder] /\ held'[purge.gen] = Nobody
        /\ \A g \in Generation \ {purge.gen} : held'[g] = held[g]
        /\ OneHolder' /\ GenFits' /\ lock' \in {0} \cup Generation
    BY <1>1, Released DEF BansInv
  <1>3. BansTyped'
    BY <1>2 DEF BansInv, BansTyped
  <1>4. LocksFit'
    BY <1>1, <1>2, HoldersDiffer DEF BansInv, LocksFit, BansTyped, CallType, Calls, Removing
  <1>5. BansFit'
    <2> SUFFICES ASSUME Unmarked' PROVE BansFit'
      BY DEF BansFit
    <2>1. Unmarked
      BY DEF Unmarked
    <2> QED
      BY <2>1, IdleTyped DEF BansInv, BansFit, Rewriting, Removing, Appending, Adds
  <1> QED
    BY <1>2, <1>3, <1>4, <1>5 DEF BansInv

LEMMA FlushedKeepsBans ==
    ASSUME BansInv, Flushed
    PROVE  BansInv'
  <1>1. /\ life = "u_flush" /\ life' = "off" /\ lock' = 0
        /\ UNCHANGED <<setups, held, made, live, file, add, loading, purge, removal, marks>>
    BY DEF Flushed, bans, calls
  <1>2. BansTyped' /\ GenFits'
    BY <1>1 DEF BansInv, BansTyped, GenFits
  <1>3. OneHolder' /\ LocksFit'
    BY <1>1 DEF BansInv, OneHolder, LocksFit, Removing, Unmarked
  <1>4. BansFit'
    BY <1>1 DEF BansInv, BansFit, Unmarked, Rewriting, Removing, Appending, Adds
  <1> QED
    BY <1>2, <1>3, <1>4 DEF BansInv

LEMMA SetUpKeepsBans ==
    ASSUME BansInv, SetUp
    PROVE  BansInv'
  <1>1. /\ life = "off" /\ life' \in {"on", "s_reload"} /\ setups < MaxSetUps
        /\ setups' = setups + 1
        /\ UNCHANGED <<lock, held, made, live, file, add, loading, purge, removal, marks>>
    BY DEF SetUp, bans, calls, held_
  <1>2. BansTyped' /\ GenFits'
    BY <1>1, Holders DEF BansInv, BansTyped, GenFits
  <1>3. OneHolder' /\ LocksFit'
    BY <1>1 DEF BansInv, OneHolder, LocksFit, Removing, Unmarked
  <1>4. BansFit'
    BY <1>1 DEF BansInv, BansFit, Unmarked, Rewriting, Removing, Appending, Adds
  <1> QED
    BY <1>2, <1>3, <1>4 DEF BansInv

-----------------------------------------------------------------------------
(* Adds, rewrites and loads.                                               *)

LEMMA HookedKeeps ==
    ASSUME BansInv, NEW x \in Addr, NEW gen \in Generation, Free(gen), Hooked(x, gen),
           add[x].pc \in {"idle", "wait"}, GenFits', lock' \in {0} \cup Generation,
           UNCHANGED <<life, setups, file, loading, purge, removal>>
    PROVE  BansInv'
  <1>1. CASE x \in Trusted \cup live \/ hook.wasAdd = "none"
    <2>1. /\ UNCHANGED <<held, live, marks>> /\ add' \in [Addr -> CallType]
          /\ add'[x].pc = "done" /\ \A y \in Addr \ {x} : add'[y] = add[y]
      BY <1>1, OverTyped DEF Hooked, BansInv, BansTyped
    <2>2. Adds' = Adds /\ (Appending' => Appending)
      BY <2>1 DEF Adds, Appending
    <2>3. BansTyped' /\ OneHolder'
      BY <2>1 DEF BansInv, BansTyped, OneHolder, Unmarked
    <2>4. LocksFit'
      BY <2>1 DEF BansInv, LocksFit, Removing
    <2>5. BansFit'
      BY <2>1, <2>2 DEF BansInv, BansFit, Unmarked, Rewriting, Removing
    <2> QED
      BY <2>3, <2>4, <2>5 DEF BansInv
  <1>2. CASE ~ (x \in Trusted \cup live \/ hook.wasAdd = "none")
    <2>1. /\ Take(gen, x) /\ live' = live \cup {x} /\ marks' = marks \cup Crossing(gen)
          /\ add' = [add EXCEPT ![x].pc = "append", ![x].gen = gen]
      BY <1>2 DEF Hooked, Seen
    <2>2. /\ add' \in [Addr -> CallType] /\ add'[x].pc = "append" /\ add'[x].gen = gen
          /\ \A y \in Addr \ {x} : add'[y] = add[y]
      <3>1. add \in [Addr -> CallType] /\ add[x] \in CallType
        BY DEF BansInv, BansTyped
      <3>2. add' = [add EXCEPT ![x] = [add[x] EXCEPT !.pc = "append", !.gen = gen]]
        BY <2>1
      <3>3. /\ [add[x] EXCEPT !.pc = "append", !.gen = gen] \in CallType
            /\ [add[x] EXCEPT !.pc = "append", !.gen = gen].pc = "append"
            /\ [add[x] EXCEPT !.pc = "append", !.gen = gen].gen = gen
        BY <3>1 DEF CallType, Calls
      <3> QED
        BY <3>1, <3>2, <3>3
    <2>3. /\ held' \in [Generation -> Holder] /\ held'[gen] = x
          /\ \A g \in Generation \ {gen} : held'[g] = held[g]
          /\ Unmarked' => Unmarked /\ \A g \in Generation : held[g] = Nobody
          /\ OneHolder'
      BY <2>1, Holders, HoldersDiffer, Taken DEF BansInv
    <2>4. BansTyped'
      BY <2>1, <2>2, <2>3 DEF BansInv, BansTyped, Crossing, Marks
    <2>5. held[gen] = Nobody /\ gen # 0
      BY DEF Free, Generation
    <2>6. LocksFit'
      BY <2>2, <2>3, <2>5, HoldersDiffer
      DEF BansInv, LocksFit, BansTyped, CallType, Calls, Removing
    <2>7. Adds' = Adds \cup {x} /\ (Appending' => Appending)
      BY <2>2, <2>5 DEF Adds, Appending
    <2>8. BansFit'
      <3> SUFFICES ASSUME Unmarked'
                   PROVE  /\ Adds' \subseteq live'
                          /\ \A y \in Addr : add'[y].pc # "loose"
                          /\ purge.pc # "loose" /\ removal.pc # "loose"
                          /\ loading.pc = "read" =>
                                /\ loading.out \subseteq file
                                /\ file \subseteq loading.out \cup live'
                                /\ loading.gen # 0 => file = loading.out
                                /\ ~ Appending'
                          /\ loading.pc = "done" => live' = file \cup Adds'
                          /\ ~ Rewriting'
        BY DEF BansFit, Rewriting, Removing
      <3>1. Unmarked /\ ~ Rewriting
        BY <2>3, NobodyAdds
      <3> QED
        BY <2>1, <2>2, <2>7, <3>1 DEF BansInv, BansFit, Rewriting
    <2> QED
      BY <2>3, <2>4, <2>6, <2>8 DEF BansInv
  <1> QED
    BY <1>1, <1>2

LEMMA BanKeeps ==
    ASSUME BansInv, NEW x \in Addr, Ban(x)
    PROVE  BansInv'
  <1>1. /\ add[x].pc = "idle" /\ add[x].gen = 0
        /\ UNCHANGED <<life, setups, file, loading, purge, removal>>
    BY DEF Ban, BansInv, LocksFit
  <1>2. CASE hook.add = "native"
    <2>1. /\ UNCHANGED <<lock, held, made>> /\ live' = live \cup {x}
          /\ add' = [add EXCEPT ![x] = IF x \in live THEN Over ELSE [Idle EXCEPT !.pc = "append"]]
          /\ Rewriting \/ loading.pc = "read" => "unlocked" \in marks'
          /\ marks \subseteq marks' /\ marks' \subseteq Marks
      BY <1>2 DEF Ban, Unhooked, held_, Seen, Unlocked, BansInv, BansTyped, Marks
    <2>2. /\ add' \in [Addr -> CallType] /\ add'[x].gen = 0
          /\ add'[x].pc = IF x \in live THEN "done" ELSE "append"
          /\ \A y \in Addr \ {x} : add'[y] = add[y]
      BY <1>1, <2>1, OverTyped DEF BansInv, BansTyped, CallType, Calls, Idle
    <2>3. BansTyped' /\ GenFits'
      BY <1>1, <2>1, <2>2 DEF BansInv, BansTyped, GenFits
    <2>4. OneHolder'
      BY <2>1 DEF BansInv, OneHolder, Unmarked
    <2>5. LocksFit'
      BY <1>1, <2>1, <2>2 DEF BansInv, LocksFit, Removing
    <2>6. BansFit'
      <3>1. Unmarked' => Unmarked /\ ~ Rewriting /\ loading.pc # "read"
        BY <2>1 DEF Unmarked
      <3>2. CASE x \in live
        <4>1. Adds' = Adds /\ live' = live
          BY <1>1, <2>1, <2>2, <3>2 DEF Adds
        <4> QED
          BY <1>1, <2>2, <3>1, <4>1 DEF BansInv, BansFit, Rewriting, Removing
      <3>3. CASE x \notin live
        <4>1. Adds' = Adds \cup {x}
          BY <2>2, <3>3 DEF Adds
        <4> QED
          BY <1>1, <2>1, <2>2, <3>1, <4>1 DEF BansInv, BansFit, Rewriting, Removing
      <3> QED
        BY <3>2, <3>3
    <2> QED
      BY <2>3, <2>4, <2>5, <2>6 DEF BansInv
  <1>3. CASE hook.add # "native"
    <2>1. UseLock
      BY <1>3 DEF Ban
    <2>2. MyLock \in Generation /\ GenFits' /\ lock' \in {0} \cup Generation
      BY <1>1, <2>1, LockMade DEF BansInv
    <2>3. CASE Free(MyLock)
      <3>1. Hooked(x, MyLock)
        BY <1>3, <2>3 DEF Ban
      <3> QED
        BY <1>1, <2>2, <2>3, <3>1, HookedKeeps
    <2>4. CASE ~ Free(MyLock)
      <3>1. /\ add' = [add EXCEPT ![x].pc = "wait", ![x].gen = MyLock]
            /\ UNCHANGED <<live, held, marks>>
        BY <1>3, <2>4 DEF Ban
      <3>2. /\ add' \in [Addr -> CallType] /\ add'[x].pc = "wait" /\ add'[x].gen = MyLock
            /\ \A y \in Addr \ {x} : add'[y] = add[y]
        BY <2>2, <3>1 DEF BansInv, BansTyped, CallType, Calls
      <3>3. Adds' = Adds /\ Appending' = Appending
        BY <1>1, <3>2 DEF Adds, Appending
      <3>4. BansTyped' /\ OneHolder'
        BY <1>1, <2>2, <3>1, <3>2 DEF BansInv, BansTyped, OneHolder, Unmarked
      <3>5. LocksFit'
        BY <1>1, <2>2, <3>1, <3>2 DEF BansInv, LocksFit, Removing
      <3>6. BansFit'
        BY <1>1, <3>1, <3>2, <3>3 DEF BansInv, BansFit, Unmarked, Rewriting, Removing
      <3> QED
        BY <2>2, <3>4, <3>5, <3>6 DEF BansInv
    <2> QED
      BY <2>3, <2>4
  <1> QED
    BY <1>2, <1>3

\* An append ends: it is in the file, or it has left its mark.
LEMMA AppendEnds ==
    ASSUME BansInv, NEW x \in Addr, add[x].pc = "append", NEW end \in CallType,
           end.pc \in {"done", "loose"}, add' = [add EXCEPT ![x] = end],
           IF add[x].gen = 0 THEN UNCHANGED held_ ELSE Release(add[x].gen),
           marks \subseteq marks', marks' \subseteq Marks, file' \subseteq Addr,
           UNCHANGED <<life, setups, live, loading, purge, removal>>,
           (file' = file \cup {x} /\ end.pc = "done") \/ ~ Unmarked'
    PROVE  BansInv'
  <1>2. /\ add' \in [Addr -> CallType] /\ add'[x] = end
        /\ \A y \in Addr \ {x} : add'[y] = add[y]
    BY DEF BansInv, BansTyped
  <1>3. Adds' = Adds \ {x} /\ x \in Adds /\ (Appending' => Appending)
    BY <1>2 DEF Adds, Appending
  <1>4. add[x].gen \in {0} \cup Generation
    BY DEF BansInv, BansTyped, CallType, Calls
  <1>5. /\ held' \in [Generation -> Holder] /\ OneHolder' /\ GenFits'
        /\ lock' \in {0} \cup Generation
        /\ \A g \in Generation : held[g] # x => held'[g] = held[g]
        /\ \A y \in Addr \ {x} : \A g \in Generation : held[g] = y => held'[g] = y
    <2>1. CASE add[x].gen = 0
      <3>1. UNCHANGED <<held, lock, made>>
        BY <2>1 DEF held_
      <3> QED
        BY <3>1 DEF BansInv, BansTyped, OneHolder, Unmarked, GenFits
    <2>2. CASE add[x].gen # 0
      <3>1. Release(add[x].gen) /\ add[x].gen \in Generation /\ held[add[x].gen] = x
        BY <1>4, <2>2 DEF BansInv, LocksFit
      <3>2. /\ held' \in [Generation -> Holder]
            /\ \A g \in Generation \ {add[x].gen} : held'[g] = held[g]
            /\ OneHolder' /\ GenFits' /\ lock' \in {0} \cup Generation
        BY <3>1, Released DEF BansInv
      <3> QED
        BY <3>1, <3>2
    <2> QED
      BY <2>1, <2>2
  <1>6. BansTyped'
    BY <1>2, <1>5 DEF BansInv, BansTyped
  <1>7. LocksFit'
    BY <1>2, <1>5, HoldersDiffer DEF BansInv, LocksFit, BansTyped, CallType, Calls, Removing
  <1>8. BansFit'
    <2> SUFFICES ASSUME Unmarked'
                 PROVE  /\ Adds' \subseteq live
                        /\ \A y \in Addr : add'[y].pc # "loose"
                        /\ purge.pc # "loose" /\ removal.pc # "loose"
                        /\ ~ Rewriting
                        /\ loading.pc = "read" =>
                              /\ loading.out \subseteq file'
                              /\ file' \subseteq loading.out \cup live
                              /\ loading.gen # 0 => file' = loading.out
                              /\ ~ Appending'
                        /\ loading.pc = "done" => live = file' \cup Adds'
      BY DEF BansFit, Rewriting, Removing
    <2>1. /\ Unmarked /\ ~ Rewriting /\ Adds \subseteq live /\ file' = file \cup {x}
          /\ end.pc = "done"
      BY <1>3 DEF Unmarked, BansInv, BansFit
    <2>2. ASSUME loading.pc = "read" PROVE loading.gen = 0
      <3>1. add[x].gen # 0 /\ held[add[x].gen] = x
        BY <2>1, <2>2 DEF BansInv, BansFit, Appending, LocksFit
      <3>2. loading.gen \in {0} \cup Generation
        BY DEF BansInv, BansTyped, CallType, Calls
      <3>3. loading.gen # 0 => held[loading.gen] = Loader
        BY <2>2 DEF BansInv, LocksFit
      <3> QED
        BY <1>4, <2>1, <3>1, <3>2, <3>3, HoldersDiffer DEF BansInv, OneHolder
    <2> QED
      BY <1>2, <1>3, <2>1, <2>2 DEF BansInv, BansFit
  <1> QED
    BY <1>5, <1>6, <1>7, <1>8 DEF BansInv

LEMMA AppendedKeeps ==
    ASSUME BansInv, NEW x \in Addr, Appended(x) \/ AppendLost(x)
    PROVE  BansInv'
  <1>1. CASE Appended(x)
    <2>1. file \subseteq Addr /\ marks \subseteq Marks
      BY DEF BansInv, BansTyped
    <2> QED
      BY <1>1, <2>1, OverTyped, AppendEnds DEF Appended
  <1>2. CASE AppendLost(x)
    <2>1. PICK end \in {Over, [Idle EXCEPT !.pc = "loose"]} : add' = [add EXCEPT ![x] = end]
      BY <1>2 DEF AppendLost
    <2>2. end \in CallType /\ end.pc \in {"done", "loose"}
      BY OverTyped DEF CallType, Calls, Idle
    <2>3. /\ add[x].pc = "append" /\ UNCHANGED <<life, setups, live, loading, purge, removal>>
          /\ IF add[x].gen = 0 THEN UNCHANGED held_ ELSE Release(add[x].gen)
          /\ file' = file /\ marks' = marks \cup {"unwritten"}
      BY <1>2 DEF AppendLost, Seen, bans
    <2>4. file' \subseteq Addr /\ marks' \subseteq Marks /\ ~ Unmarked'
      BY <2>3 DEF BansInv, BansTyped, Marks, Unmarked
    <2> QED
      BY <2>1, <2>2, <2>3, <2>4, AppendEnds
  <1> QED
    BY <1>1, <1>2

\* What lands late has left its mark before.
LEMMA LateKeeps ==
    ASSUME BansInv, LatePurge \/ LateRemoval \/ \E x \in Addr : LateAppend(x)
    PROVE  BansInv'
  <1>1. /\ UNCHANGED <<life, setups, lock, held, made, live, loading, marks>>
        /\ file' \subseteq Addr /\ ~ Unmarked
    BY DEF LatePurge, LateRemoval, LateAppend, RewriteLanded, held_, BansInv, BansFit, BansTyped,
           CallType, Calls
  <1>2. /\ add' \in [Addr -> CallType] /\ purge' \in CallType /\ removal' \in CallType
        /\ \A x \in Addr : add'[x] = add[x] \/ (add'[x].pc = "done")
        /\ purge' = purge \/ life \notin {"s_lock", "s_write"}
        /\ removal' = removal \/ removal'.pc = "done"
    BY OverTyped, IdleTyped
    DEF LatePurge, LateRemoval, LateAppend, BansInv, BansTyped, LocksFit
  <1>3. BansTyped' /\ GenFits' /\ OneHolder'
    BY <1>1, <1>2 DEF BansInv, BansTyped, GenFits, OneHolder, Unmarked
  <1>4. LocksFit'
    BY <1>1, <1>2 DEF BansInv, LocksFit, Removing
  <1>5. BansFit'
    BY <1>1 DEF BansFit, Unmarked
  <1> QED
    BY <1>3, <1>4, <1>5 DEF BansInv

\* The removal of a service begins.
LEMMA RewriteKeeps ==
    ASSUME BansInv, NEW gen \in Generation, NEW addrs \in SUBSET Addr, Free(gen),
           Rewrite(gen, addrs), removal.pc \in {"idle", "wait"}, GenFits',
           lock' \in {0} \cup Generation,
           UNCHANGED <<life, setups, file, add, loading, purge>>
    PROVE  BansInv'
  <1>1. CASE addrs \cap live = {}
    <2>1. removal' = Over /\ UNCHANGED <<held, live, marks>>
      BY <1>1 DEF Rewrite
    <2>2. ~ Removing /\ ~ Removing' /\ removal'.pc = "done"
      BY <2>1, OverTyped DEF Removing
    <2>3. BansTyped' /\ OneHolder'
      BY <2>1, OverTyped DEF BansInv, BansTyped, OneHolder, Unmarked
    <2>4. LocksFit'
      BY <2>1, <2>2 DEF BansInv, LocksFit
    <2>5. Rewriting' = Rewriting /\ Appending' = Appending /\ Adds' = Adds
      BY <2>2 DEF Rewriting, Removing, Appending, Adds
    <2>6. BansFit'
      BY <2>1, <2>2, <2>5 DEF BansInv, BansFit, Unmarked
    <2> QED
      BY <2>3, <2>4, <2>6 DEF BansInv
  <1>2. CASE addrs \cap live # {}
    <2>1. /\ live' = live \ addrs /\ marks \cup Crossing(gen) \subseteq marks'
          /\ marks' \subseteq Marks
          /\ Appending \/ loading.pc = "read" => "unlocked" \in marks'
      BY <1>2 DEF Rewrite, Seen, Unlocked, Crossing, BansInv, BansTyped, Marks
    <2>2. /\ removal' \in CallType /\ removal'.gen = gen /\ removal'.pc = "write"
          /\ removal'.out = live' /\ removal'.of = addrs \cap live
      BY <1>2, <2>1 DEF Rewrite, CallType, Calls, BansInv, BansTyped
    <2>3. /\ held' \in [Generation -> Holder] /\ held'[gen] = Remover
          /\ \A g \in Generation \ {gen} : held'[g] = held[g]
          /\ Unmarked' => Unmarked /\ \A g \in Generation : held[g] = Nobody
          /\ OneHolder'
      BY <1>2, <2>1, Holders, HoldersDiffer, Taken DEF Rewrite, BansInv
    <2>4. BansTyped'
      BY <2>1, <2>2, <2>3 DEF BansInv, BansTyped
    <2>5. held[gen] = Nobody
      BY DEF Free
    <2>6. LocksFit'
      BY <2>1, <2>2, <2>3, <2>5, HoldersDiffer
      DEF BansInv, LocksFit, BansTyped, CallType, Calls, Removing
    <2>7. BansFit'
      <3> SUFFICES ASSUME Unmarked'
                   PROVE  /\ Adds = {} /\ loading.pc # "read" /\ life # "s_write"
                          /\ \A x \in Addr : add[x].pc # "loose"
                          /\ purge.pc # "loose"
                          /\ loading.pc = "done" => live = file
        BY <2>1, <2>2 DEF BansFit, Rewriting, Removing, Adds, BansInv, BansTyped
      <3>1. Unmarked /\ ~ Rewriting /\ Adds = {} /\ loading.pc # "read"
        BY <2>1, <2>3, NobodyAdds DEF Unmarked
      <3> QED
        BY <3>1 DEF BansInv, BansFit, Rewriting
    <2> QED
      BY <2>3, <2>4, <2>6, <2>7 DEF BansInv
  <1> QED
    BY <1>1, <1>2

LEMMA UnbanKeeps ==
    ASSUME BansInv, NEW x \in Addr, Unban(x)
    PROVE  BansInv'
  <1>1. /\ UseLock /\ removal.pc = "idle"
        /\ UNCHANGED <<life, setups, file, add, loading, purge>>
    BY DEF Unban
  <1>2. MyLock \in Generation /\ GenFits' /\ lock' \in {0} \cup Generation
    BY <1>1, LockMade DEF BansInv
  <1>3. CASE Free(MyLock)
    <2>1. Rewrite(MyLock, {x}) /\ {x} \in SUBSET Addr
      BY <1>3 DEF Unban
    <2> QED
      BY <1>1, <1>2, <1>3, <2>1, RewriteKeeps
  <1>4. CASE ~ Free(MyLock)
    <2>1. /\ removal' = [Idle EXCEPT !.pc = "wait", !.gen = MyLock, !.of = {x}]
          /\ UNCHANGED <<live, held, marks>>
      BY <1>4 DEF Unban
    <2>2. removal' \in CallType /\ removal'.pc = "wait" /\ removal'.gen = MyLock
      BY <1>2, <2>1, IdleTyped DEF CallType, Calls, Idle
    <2>3. BansTyped' /\ OneHolder'
      BY <1>1, <1>2, <2>1, <2>2 DEF BansInv, BansTyped, OneHolder, Unmarked
    <2>4. LocksFit'
      BY <1>1, <1>2, <2>1, <2>2 DEF BansInv, LocksFit, Removing
    <2>5. BansFit'
      BY <1>1, <2>1, <2>2 DEF BansInv, BansFit, Unmarked, Rewriting, Removing, Appending, Adds
    <2> QED
      BY <1>2, <2>3, <2>4, <2>5 DEF BansInv
  <1> QED
    BY <1>3, <1>4

\* The removal lands, is undone, or is left to itself with a mark.
LEMMA RemovalEndKeeps ==
    ASSUME BansInv, UnbanEnd \/ UnbanFails \/ UnbanLost
    PROVE  BansInv'
  <1>1. /\ Removing /\ Release(removal.gen) /\ marks \subseteq marks'
        /\ removal' \in {Over, [removal EXCEPT !.pc = "loose"]}
        /\ UNCHANGED <<life, setups, add, loading, purge>>
    BY DEF UnbanEnd, UnbanFails, UnbanLost, RewriteLanded, RewriteFailed, RewriteLost, Seen,
           Removing
  <1>2. removal.of \subseteq Addr /\ removal.out \subseteq Addr
    BY DEF BansInv, BansTyped, CallType, Calls
  <1>3. /\ live' \subseteq Addr /\ file' \subseteq Addr /\ marks' \subseteq Marks
        /\ \/ file' = removal.out /\ live' = live /\ removal' = Over
           \/ file' = file /\ live' = removal.out \cup removal.of /\ removal' = Over
           \/ ~ Unmarked'
    BY <1>2 DEF UnbanEnd, UnbanFails, UnbanLost, RewriteLanded, RewriteFailed, RewriteLost, Seen,
                Marks, Unmarked, BansInv, BansTyped
  <1>4. removal.gen \in Generation /\ held[removal.gen] = Remover
    BY <1>1 DEF BansInv, LocksFit
  <1>5. /\ held' \in [Generation -> Holder] /\ held'[removal.gen] = Nobody
        /\ \A g \in Generation \ {removal.gen} : held'[g] = held[g]
        /\ OneHolder' /\ GenFits' /\ lock' \in {0} \cup Generation
    BY <1>1, <1>4, Released DEF BansInv
  <1>6. removal' \in CallType /\ removal'.pc \in {"done", "loose"}
    BY <1>1, OverTyped DEF BansInv, BansTyped, CallType, Calls
  <1>7. BansTyped'
    BY <1>1, <1>3, <1>5, <1>6 DEF BansInv, BansTyped
  <1>8. LocksFit'
    BY <1>1, <1>4, <1>5, <1>6, HoldersDiffer
    DEF BansInv, LocksFit, BansTyped, CallType, Calls, Removing
  <1>9. BansFit'
    <2> SUFFICES ASSUME Unmarked' PROVE BansFit'
      BY DEF BansFit
    <2>1. /\ Unmarked /\ removal' = Over
          /\ \/ file' = removal.out /\ live' = live
             \/ file' = file /\ live' = removal.out \cup removal.of
      BY <1>1, <1>3 DEF Unmarked
    <2>2. /\ Adds = {} /\ loading.pc # "read" /\ life # "s_write" /\ purge.pc # "loose"
          /\ \A x \in Addr : add[x].pc # "loose"
          /\ loading.pc = "done" =>
                live = removal.out /\ file = removal.out \cup removal.of
      BY <1>1, <2>1 DEF BansInv, BansFit, Rewriting, Removing
    <2>3. Adds' = {} /\ (loading.pc = "done" => live' = file')
      BY <1>1, <2>1, <2>2 DEF Adds
    <2> QED
      BY <1>1, <2>1, <2>2, <2>3, OverTyped DEF BansFit, Rewriting, Removing
  <1> QED
    BY <1>5, <1>7, <1>8, <1>9 DEF BansInv

\* A load under the lock begins, or finds no original method.
LEMMA ReadingKeeps ==
    ASSUME BansInv, NEW gen \in Generation, Free(gen), Reading(gen),
           loading.pc \in {"idle", "wait"}, GenFits', lock' \in {0} \cup Generation,
           UNCHANGED <<life, setups, live, file, add, purge, removal>>
    PROVE  BansInv'
  <1>1. CASE hook.wasLoad = "none"
    <2>1. /\ loading' \in CallType /\ loading'.pc = "lost"
          /\ UNCHANGED <<held, marks>>
      BY <1>1 DEF Reading, Idle, CallType, Calls
    <2>2. BansTyped' /\ OneHolder' /\ LocksFit'
      BY <2>1 DEF BansInv, BansTyped, OneHolder, Unmarked, LocksFit, Removing
    <2>3. BansFit'
      BY <2>1 DEF BansInv, BansFit, Unmarked, Rewriting, Removing, Appending, Adds
    <2> QED
      BY <2>2, <2>3 DEF BansInv
  <1>2. CASE hook.wasLoad # "none"
    <2>1. /\ Take(gen, Loader) /\ marks \cup Crossing(gen) \subseteq marks'
          /\ marks' \subseteq Marks
          /\ Appending => "unlocked" \in marks'
      BY <1>2 DEF Reading, Seen, Unlocked, Crossing, BansInv, BansTyped, Marks
    <2>2. /\ loading' \in CallType /\ loading'.pc = "read" /\ loading'.gen = gen
          /\ loading'.out = file
      BY <1>2 DEF Reading, Idle, CallType, Calls, BansInv, BansTyped
    <2>3. /\ held' \in [Generation -> Holder] /\ held'[gen] = Loader
          /\ \A g \in Generation \ {gen} : held'[g] = held[g]
          /\ Unmarked' => Unmarked /\ \A g \in Generation : held[g] = Nobody
          /\ OneHolder'
      BY <2>1, Holders, HoldersDiffer, Taken DEF BansInv
    <2>4. BansTyped'
      BY <2>1, <2>2, <2>3 DEF BansInv, BansTyped
    <2>5. held[gen] = Nobody
      BY DEF Free
    <2>6. LocksFit'
      BY <2>2, <2>3, <2>5, HoldersDiffer DEF BansInv, LocksFit, BansTyped, CallType, Calls, Removing
    <2>7. BansFit'
      <3> SUFFICES ASSUME Unmarked'
                   PROVE  Unmarked /\ Adds = {} /\ ~ Appending /\ ~ Rewriting
        <4>1. /\ live' = live /\ file' = file /\ Adds' = Adds
              /\ Appending' = Appending /\ Rewriting' = Rewriting /\ Removing' = Removing
          BY DEF Adds, Appending, Rewriting, Removing
        <4> QED
          BY <2>2, <4>1 DEF BansInv, BansFit, Rewriting
      <3> QED
        BY <2>1, <2>3, NobodyAdds DEF Unmarked
    <2> QED
      BY <2>3, <2>4, <2>6, <2>7 DEF BansInv
  <1> QED
    BY <1>1, <1>2

LEMMA LoadKeeps ==
    ASSUME BansInv, Load
    PROVE  BansInv'
  <1>1. /\ loading.pc = "idle"
        /\ UNCHANGED <<life, setups, live, file, add, purge, removal>>
    BY DEF Load, bans
  <1>2. CASE hook.load = "native"
    <2>1. /\ UNCHANGED <<lock, held, made>>
          /\ marks \subseteq marks' /\ marks' \subseteq Marks
          /\ Rewriting \/ (\E x \in Addr : add[x].pc = "append") => "unlocked" \in marks'
      BY <1>2 DEF Load, held_, Seen, Unlocked, BansInv, BansTyped, Marks
    <2>2. /\ loading' \in CallType /\ loading'.pc = "read" /\ loading'.gen = 0
          /\ loading'.out = file
      BY <1>2 DEF Load, Idle, CallType, Calls, BansInv, BansTyped
    <2>3. BansTyped' /\ GenFits'
      BY <1>1, <2>1, <2>2 DEF BansInv, BansTyped, GenFits
    <2>4. OneHolder' /\ LocksFit'
      BY <1>1, <2>1, <2>2 DEF BansInv, OneHolder, Unmarked, LocksFit, Removing
    <2>5. BansFit'
      <3> SUFFICES ASSUME Unmarked'
                   PROVE  Unmarked /\ Adds = {} /\ ~ Appending /\ ~ Rewriting
        BY <1>1, <2>2 DEF BansInv, BansFit, Rewriting, Removing, Adds, Appending
      <3> QED
        BY <2>1 DEF Unmarked, Adds, Appending
    <2> QED
      BY <2>3, <2>4, <2>5 DEF BansInv
  <1>3. CASE hook.load # "native"
    <2>1. UseLock
      BY <1>3 DEF Load
    <2>2. MyLock \in Generation /\ GenFits' /\ lock' \in {0} \cup Generation
      BY <1>1, <2>1, LockMade DEF BansInv
    <2>3. CASE Free(MyLock)
      <3>1. Reading(MyLock)
        BY <1>3, <2>3 DEF Load
      <3> QED
        BY <1>1, <2>2, <2>3, <3>1, ReadingKeeps
    <2>4. CASE ~ Free(MyLock)
      <3>1. /\ loading' = [Idle EXCEPT !.pc = "wait", !.gen = MyLock]
            /\ UNCHANGED <<held, marks>>
        BY <1>3, <2>4 DEF Load
      <3>2. loading' \in CallType /\ loading'.pc = "wait" /\ loading'.gen = MyLock
        BY <2>2, <3>1 DEF CallType, Calls, Idle
      <3>3. BansTyped' /\ OneHolder' /\ LocksFit'
        BY <1>1, <2>2, <3>1, <3>2 DEF BansInv, BansTyped, OneHolder, Unmarked, LocksFit, Removing
      <3>4. BansFit'
        BY <1>1, <3>1, <3>2 DEF BansInv, BansFit, Unmarked, Rewriting, Removing, Appending, Adds
      <3> QED
        BY <2>2, <3>3, <3>4 DEF BansInv
    <2> QED
      BY <2>3, <2>4
  <1> QED
    BY <1>2, <1>3

LEMMA LoadEndKeeps ==
    ASSUME BansInv, LoadEnd
    PROVE  BansInv'
  <1>1. /\ loading.pc = "read" /\ live' = loading.out /\ loading.out \subseteq Addr
        /\ UNCHANGED <<life, setups, file, add>>
        /\ marks \subseteq marks' /\ marks' \subseteq Marks
        /\ loading.gen = 0 /\ live \ loading.out # {} => "unlocked" \in marks'
    BY DEF LoadEnd, Seen, Unlocked, Marks, BansInv, BansTyped, CallType, Calls
  <1>2. loading' \in CallType /\ loading'.pc = "done" /\ loading.gen \in {0} \cup Generation
    BY OverTyped DEF LoadEnd, CallType, Calls, BansInv, BansTyped
  <1>7. /\ purge' \in CallType /\ removal' \in CallType
        /\ purge'.gen = purge.gen /\ removal'.gen = removal.gen /\ Removing' = Removing
        /\ purge'.pc = "loose" => purge.pc = "loose"
        /\ removal'.pc \in {"wait", "loose"} => removal'.pc = removal.pc
    BY PartedTyped DEF LoadEnd, BansInv, BansTyped, Removing
  <1>3. /\ held' \in [Generation -> Holder] /\ OneHolder' /\ GenFits'
        /\ lock' \in {0} \cup Generation
        /\ \A g \in Generation : held[g] # Loader => held'[g] = held[g]
    <2>1. CASE loading.gen = 0
      <3>1. UNCHANGED <<held, lock, made>>
        BY <2>1 DEF LoadEnd, held_
      <3> QED
        BY <1>1, <3>1 DEF BansInv, BansTyped, OneHolder, Unmarked, GenFits
    <2>2. CASE loading.gen # 0
      <3>1. /\ Release(loading.gen) /\ loading.gen \in Generation
            /\ held[loading.gen] = Loader
        BY <1>1, <1>2, <2>2 DEF LoadEnd, BansInv, LocksFit
      <3>2. /\ held' \in [Generation -> Holder]
            /\ \A g \in Generation \ {loading.gen} : held'[g] = held[g]
            /\ OneHolder' /\ GenFits' /\ lock' \in {0} \cup Generation
        BY <1>1, <3>1, Released DEF BansInv
      <3> QED
        BY <3>1, <3>2
    <2> QED
      BY <2>1, <2>2
  <1>4. BansTyped'
    BY <1>1, <1>2, <1>3, <1>7 DEF BansInv, BansTyped
  <1>5. LocksFit'
    BY <1>1, <1>2, <1>3, <1>7, HoldersDiffer DEF BansInv, LocksFit, BansTyped, CallType, Calls
  <1>6. BansFit'
    <2> SUFFICES ASSUME Unmarked'
                 PROVE  /\ ~ Rewriting /\ Adds \subseteq loading.out /\ file = loading.out
                        /\ \A x \in Addr : add[x].pc # "loose"
                        /\ purge.pc # "loose" /\ removal.pc # "loose"
      <3>1. Rewriting' = Rewriting /\ Adds' = Adds /\ (Removing => Rewriting)
        BY <1>1, <1>7 DEF Rewriting, Removing, Adds
      <3> QED
        BY <1>1, <1>2, <1>7, <3>1 DEF BansFit, Rewriting
    <2>1. /\ Unmarked /\ ~ Rewriting /\ Adds \subseteq live /\ ~ Appending
          /\ \A x \in Addr : add[x].pc # "loose"
          /\ purge.pc # "loose" /\ removal.pc # "loose"
          /\ loading.out \subseteq file /\ file \subseteq loading.out \cup live
          /\ loading.gen # 0 => file = loading.out
      BY <1>1 DEF Unmarked, BansInv, BansFit
    <2>2. CASE loading.gen = 0
      BY <1>1, <2>1, <2>2 DEF Unmarked
    <2>3. CASE loading.gen # 0
      <3>1. loading.gen \in Generation /\ held[loading.gen] = Loader
        BY <1>1, <1>2, <2>3 DEF BansInv, LocksFit
      <3>2. Adds = {}
        <4> SUFFICES ASSUME NEW x \in Addr, add[x].pc = "append" PROVE FALSE
          BY DEF Adds
        <4>1. add[x].gen # 0 /\ add[x].gen \in Generation /\ held[add[x].gen] = x
          BY <2>1 DEF Appending, BansInv, LocksFit, BansTyped, CallType, Calls
        <4> QED
          BY <2>1, <3>1, <4>1, HoldersDiffer DEF BansInv, OneHolder
      <3> QED
        BY <2>1, <2>3, <3>2
    <2> QED
      BY <2>1, <2>2, <2>3
  <1> QED
    BY <1>3, <1>4, <1>5, <1>6 DEF BansInv

LEMMA FailureKeepsBans ==
    ASSUME BansInv, SetUpFails
    PROVE  BansInv'
  <1>1. /\ life \in SettingUp /\ life' = "u_npm" /\ UNCHANGED <<setups, add, loading, removal>>
    BY DEF SetUpFails, Detach
  <1>2. CASE life = "s_write"
    <2>1. purge.of \subseteq Addr /\ purge.out \subseteq Addr /\ purge \in CallType
      BY DEF BansInv, BansTyped, CallType, Calls
    <2>2. [purge EXCEPT !.pc = "loose"] \in CallType
      BY <2>1 DEF CallType, Calls
    <2>3. /\ Release(purge.gen)
          /\ \/ RewriteFailed(purge) /\ purge' = Idle
             \/ RewriteLanded(purge) /\ purge' = Idle /\ UNCHANGED marks
             \/ RewriteLost /\ purge' \in {Idle, [purge EXCEPT !.pc = "loose"]}
      BY <1>2 DEF SetUpFails
    <2>4. /\ live' \subseteq Addr /\ file' \subseteq Addr /\ purge' \in CallType
          /\ marks \subseteq marks' /\ marks' \subseteq Marks
      BY <2>1, <2>2, <2>3, IdleTyped
      DEF RewriteFailed, RewriteLanded, RewriteLost, Seen, Marks, BansInv, BansTyped
    <2>5. \/ purge' = Idle /\ file' = purge.out /\ live' = live
          \/ purge' = Idle /\ file' = file /\ live' = purge.out \cup purge.of
          \/ ~ Unmarked'
      BY <2>3 DEF RewriteFailed, RewriteLanded, RewriteLost, Seen, Unmarked
    <2> QED
      BY <1>1, <1>2, <2>3, <2>4, <2>5, PurgeEndKeepsBans
  <1>3. CASE life # "s_write"
    <2>1. UNCHANGED <<live, file, lock, held, made, marks>> /\ purge' = Idle
      BY <1>3 DEF SetUpFails, held_, bans
    <2>2. BansTyped' /\ GenFits'
      BY <1>1, <2>1, IdleTyped DEF BansInv, BansTyped, GenFits, SettingUp
    <2>3. OneHolder' /\ LocksFit'
      BY <1>1, <2>1, IdleTyped DEF BansInv, OneHolder, Unmarked, LocksFit, Removing
    <2>4. BansFit'
      BY <1>1, <1>3, <2>1, IdleTyped DEF BansInv, BansFit, Unmarked, Rewriting, Removing,
                                         Appending, Adds
    <2> QED
      BY <2>2, <2>3, <2>4 DEF BansInv
  <1> QED
    BY <1>2, <1>3

LEMMA BansStep ==
    ASSUME BansInv, [Next]_vars
    PROVE  BansInv'
  <1>1. CASE UNCHANGED vars
    BY <1>1, PhaseKeepsBans DEF vars, calls, BansInv, BansTyped
  <1>2. CASE Reloaded \/ PanelReady \/ Ready \/ Unload \/ NpmStopped \/ DnsStopped
             \/ TasksStopped \/ Warmed
    <2>1. /\ UNCHANGED <<held_, bans, add, loading, purge, setups, marks>>
          /\ removal' \in {removal, Parted(removal)}
          /\ life # "off" <=> life' # "off"
          /\ life' \in {"s_lock", "s_write"} \/ life \in {"s_lock", "s_write"} => life' = life
      BY <1>2 DEF Reloaded, PanelReady, Ready, Unload, Detach, NpmStopped, DnsStopped,
                  TasksStopped, Warmed, Restore, calls
    <2> QED
      BY <2>1, PhaseKeepsBans DEF BansInv, BansTyped
  <1>3. ASSUME NEW c \in Command, StartCommand(c) \/ CommandApplies(c) \/ CommandPrepares(c)
        PROVE  BansInv'
    <2>1. /\ UNCHANGED <<held_, bans, add, loading, purge, setups, life>>
          /\ removal' \in {removal, Parted(removal)}
          /\ marks \subseteq marks' /\ marks' \subseteq Marks
      BY <1>3 DEF StartCommand, CommandApplies, CommandPrepares, Apply, Seen, Late, Marks,
                  calls, BansInv, BansTyped
    <2> QED
      BY <2>1, PhaseKeepsBans
  <1>4. CASE ListsReady
    <2>1. CASE geo = "lock"
      <3>1. /\ UNCHANGED <<held_, bans, add, loading, purge, removal, setups, marks>>
            /\ life = "s_lists" /\ life' = "s_geo"
        BY <1>4, <2>1 DEF ListsReady, bans
      <3> QED
        BY <3>1, PhaseKeepsBans DEF BansInv, BansTyped
    <2>2. CASE geo # "lock"
      <3>1. /\ life = "s_lists" /\ Enforce({"timer"})
            /\ UNCHANGED <<setting, setups, file, slipped, add, loading, command>>
        BY <1>4, <2>2 DEF ListsReady
      <3> QED
        BY <3>1, EnforceKeepsBans
    <2> QED
      BY <2>1, <2>2
  <1>5. CASE ReaderReady
    BY <1>5, EnforceKeepsBans DEF ReaderReady
  <1>6. CASE PurgeStart
    <2>1. /\ life = "s_lock" /\ Free(purge.gen) /\ Purge(purge.gen, purge.of)
          /\ UNCHANGED <<lock, made, setups, file, add, loading, removal>>
      BY <1>6 DEF PurgeStart, KeepLock
    <2>2. purge.gen \in Generation /\ purge.of \in SUBSET Addr
      BY <2>1 DEF BansInv, LocksFit, BansTyped, CallType, Calls
    <2>3. life' = "s_write" /\ GenFits' /\ lock' \in {0} \cup Generation
      BY <2>1 DEF Purge, BansInv, GenFits, BansTyped
    <2> QED
      BY <2>1, <2>2, <2>3, PurgeKeepsBans
  <1>7. CASE PurgeEnd
    <2>1. purge.out \subseteq Addr /\ live \subseteq Addr /\ marks \subseteq Marks
      BY DEF BansInv, BansTyped, CallType, Calls
    <2> QED
      BY <1>7, <2>1, IdleTyped, PurgeEndKeepsBans DEF PurgeEnd
  <1>8. ASSUME NEW x \in Addr, BanLocked(x) PROVE BansInv'
    <2>1. /\ add[x].pc = "wait" /\ Free(add[x].gen) /\ Hooked(x, add[x].gen)
          /\ UNCHANGED <<lock, made, life, setups, file, loading, purge, removal>>
      BY <1>8 DEF BanLocked, KeepLock
    <2>2. add[x].gen \in Generation /\ GenFits' /\ lock' \in {0} \cup Generation
      BY <2>1 DEF BansInv, LocksFit, GenFits, BansTyped
    <2> QED
      BY <2>1, <2>2, HookedKeeps
  <1>9. CASE UnbanStart
    <2>1. /\ removal.pc = "wait" /\ Free(removal.gen) /\ Rewrite(removal.gen, removal.of)
          /\ UNCHANGED <<lock, made, life, setups, file, add, loading, purge>>
      BY <1>9 DEF UnbanStart, KeepLock
    <2>2. /\ removal.gen \in Generation /\ removal.of \in SUBSET Addr
          /\ GenFits' /\ lock' \in {0} \cup Generation
      BY <2>1 DEF BansInv, LocksFit, GenFits, BansTyped, CallType, Calls
    <2> QED
      BY <2>1, <2>2, RewriteKeeps
  <1>10. CASE LoadStart
    <2>1. /\ loading.pc = "wait" /\ Free(loading.gen) /\ Reading(loading.gen)
          /\ UNCHANGED <<lock, made, life, setups, live, file, add, purge, removal>>
      BY <1>10 DEF LoadStart, KeepLock, bans
    <2>2. loading.gen \in Generation /\ GenFits' /\ lock' \in {0} \cup Generation
      BY <2>1 DEF BansInv, LocksFit, GenFits, BansTyped
    <2> QED
      BY <2>1, <2>2, ReadingKeeps
  <1>11. CASE \E x \in Addr : Ban(x) \/ Unban(x) \/ Appended(x) \/ AppendLost(x)
    BY <1>11, BanKeeps, UnbanKeeps, AppendedKeeps
  <1>12. CASE Load \/ LoadEnd \/ SetUp \/ SetUpFails \/ Flushed
    BY <1>12, LoadKeeps, LoadEndKeeps, SetUpKeepsBans, FailureKeepsBans, FlushedKeepsBans
  <1>13. CASE UnbanEnd \/ UnbanFails \/ UnbanLost
    BY <1>13, RemovalEndKeeps
  <1>14. CASE LatePurge \/ LateRemoval \/ \E x \in Addr : LateAppend(x)
    BY <1>14, LateKeeps
  <1> QED
    BY <1>1, <1>2, <1>3, <1>4, <1>5, <1>6, <1>7, <1>8, <1>9, <1>10, <1>11, <1>12, <1>13, <1>14
    DEF Next, Run

\* With nothing in flight, the enforced bans are those of the ban file, over
\* any number of set-ups and unloads in any order with native and managed
\* adds, removals and the load of the file, also when a rewrite fails and is
\* undone or is cancelled and lands (async_mutate_ip_bans).  The exceptions
\* are the property's: an append that failed or was cut off, a rewrite that
\* was cancelled twice or failed after the lookup it had was replaced, a
\* native add that met a rewrite or a load, two generations of the lock.
THEOREM ReloadsKeepBans == Spec => []BansSurviveReloads
  <1>1. BansInv => BansSurviveReloads
    BY DEF BansInv, BansFit, BansSurviveReloads, Unmarked, Rewriting, Removing, Adds
  <1> QED
    BY <1>1, BansInit, BansStep, PTL DEF Spec

-----------------------------------------------------------------------------
(* Types.                                                                  *)

\* How far each kind of call gets, and what slipped in.
KindsFit ==
    /\ geo \in {"off", "on", "lock"} /\ command \in [Command -> {"idle", "running", "done"}]
    /\ slipped \subseteq Trusted
    /\ \A x \in Addr : add[x].pc \in {"idle", "wait", "append", "loose", "done"}
    /\ loading.pc \in {"idle", "wait", "read", "done", "lost"}
    /\ purge.pc \in {"idle", "write", "parted", "loose"}
    /\ removal.pc \in {"idle", "wait", "write", "parted", "loose", "done"}

LEMMA KindsStep ==
    ASSUME KindsFit, BansTyped, [Next]_vars
    PROVE  KindsFit'
  <1> DEFINE PurgeKind == purge'.pc \in {"idle", "write", "parted", "loose"}
             RemovalKind == removal'.pc \in {"idle", "wait", "write", "parted", "loose", "done"}
             LoadKind == loading'.pc \in {"idle", "wait", "read", "done", "lost"}
             AddKind == \A x \in Addr : add'[x].pc \in {"idle", "wait", "append", "loose", "done"}
             CommandKind == command' \in [Command -> {"idle", "running", "done"}]
             SlipKind == slipped' \subseteq Trusted
  <1> USE IdleTyped, OverTyped
  <1>1. /\ (purge' = purge \/ purge' = Parted(purge)) => PurgeKind
        /\ (removal' = removal \/ removal' = Parted(removal)) => RemovalKind
    BY PartedTyped DEF KindsFit, BansTyped
  <1>2. /\ loading' = loading => LoadKind
        /\ add' = add => AddKind
        /\ command' = command => CommandKind
        /\ slipped' = slipped => SlipKind
    BY DEF KindsFit
  <1>3. ASSUME NEW addrs, Slip(addrs) PROVE SlipKind
    BY <1>3 DEF Slip, KindsFit
  <1>4. SlipKind
    <2>1. CASE \E x \in Addr : Ban(x)
      BY <1>2, <1>3, <2>1 DEF Ban, Unhooked
    <2>2. CASE LoadEnd \/ UnbanFails
      BY <1>3, <2>2 DEF LoadEnd, UnbanFails
    <2>3. CASE SetUp
      BY <2>3 DEF SetUp
    <2>4. CASE UNCHANGED vars
      BY <1>2, <2>4 DEF vars, bans
    <2>5. CASE \E x \in Addr :
                 BanLocked(x) \/ Appended(x) \/ AppendLost(x) \/ LateAppend(x) \/ Unban(x)
      BY <1>2, <2>5 DEF BanLocked, Appended, AppendLost, LateAppend, Unban, bans
    <2>6. CASE \E c \in Command : StartCommand(c) \/ CommandApplies(c) \/ CommandPrepares(c)
      BY <1>2, <2>6 DEF StartCommand, CommandApplies, CommandPrepares, bans
    <2>7. CASE Load \/ LoadStart \/ UnbanStart \/ UnbanEnd \/ UnbanLost \/ LateRemoval
               \/ LatePurge \/ Warmed
      BY <1>2, <2>7 DEF Load, LoadStart, UnbanStart, UnbanEnd, UnbanLost, LateRemoval, LatePurge,
                        Warmed, bans
    <2>8. CASE Reloaded \/ PanelReady \/ ListsReady \/ ReaderReady \/ PurgeStart \/ PurgeEnd
               \/ Ready \/ SetUpFails
      BY <1>2, <2>8 DEF Reloaded, PanelReady, ListsReady, ReaderReady, PurgeStart, PurgeEnd,
                        Ready, SetUpFails, bans
    <2>9. CASE Unload \/ NpmStopped \/ DnsStopped \/ TasksStopped \/ Flushed
      BY <1>2, <2>9 DEF Unload, NpmStopped, DnsStopped, TasksStopped, Flushed, bans
    <2> QED
      BY <2>1, <2>2, <2>3, <2>4, <2>5, <2>6, <2>7, <2>8, <2>9 DEF Next, Run
  <1>5. CASE UNCHANGED vars
    BY <1>1, <1>2, <1>4, <1>5 DEF vars, calls, setting, KindsFit
  <1>6. CASE SetUp \/ Reloaded \/ PanelReady \/ Ready \/ Unload \/ NpmStopped \/ DnsStopped
             \/ TasksStopped \/ Flushed \/ Warmed
    <2>1. /\ UNCHANGED <<setting, command, add, loading, purge>>
          /\ removal' = removal \/ removal' = Parted(removal)
      BY <1>6 DEF SetUp, Reloaded, PanelReady, Ready, Unload, NpmStopped, DnsStopped,
                  TasksStopped, Flushed, Warmed, Restore, calls
    <2> QED
      BY <1>1, <1>2, <1>4, <2>1 DEF KindsFit, setting
  <1>7. CASE ListsReady \/ ReaderReady \/ PurgeStart \/ PurgeEnd \/ SetUpFails \/ LatePurge
    <2>1. /\ UNCHANGED <<setting, command, add, loading>>
          /\ removal' = removal \/ removal' = Parted(removal)
      BY <1>7 DEF ListsReady, ReaderReady, PurgeStart, PurgeEnd, SetUpFails, LatePurge, Enforce,
                  Apply
    <2>2. ASSUME NEW parts, Enforce(parts) PROVE PurgeKind
      <3>1. ASSUME NEW gen, NEW addrs, Purge(gen, addrs) PROVE PurgeKind
        BY <3>1 DEF Purge
      <3>2. [Idle EXCEPT !.gen = MyLock, !.of = live \cap Trusted].pc = "idle"
        BY DEF Idle
      <3> QED
        BY <1>1, <2>2, <3>1, <3>2 DEF Enforce
    <2>3. PurgeKind
      <3>1. CASE ListsReady \/ ReaderReady
        BY <1>1, <2>2, <3>1 DEF ListsReady, ReaderReady
      <3>2. CASE PurgeStart \/ PurgeEnd \/ LatePurge
        BY <3>2 DEF PurgeStart, PurgeEnd, LatePurge, Purge
      <3>3. CASE SetUpFails
        BY <3>3 DEF SetUpFails, BansTyped, CallType, Calls
      <3> QED
        BY <1>7, <3>1, <3>2, <3>3
    <2> QED
      BY <1>1, <1>2, <1>4, <2>1, <2>3 DEF KindsFit, setting
  <1>8. ASSUME NEW c \in Command, StartCommand(c) \/ CommandApplies(c) \/ CommandPrepares(c)
        PROVE  KindsFit'
    <2>1. /\ UNCHANGED <<setting, add, loading, purge>>
          /\ removal' = removal \/ removal' = Parted(removal)
      BY <1>8 DEF StartCommand, CommandApplies, CommandPrepares, Apply, calls
    <2>2. command' \in [Command -> {"idle", "running", "done"}]
      BY <1>8 DEF StartCommand, CommandApplies, CommandPrepares, KindsFit
    <2> QED
      BY <1>1, <1>2, <1>4, <2>1, <2>2 DEF KindsFit, setting
  <1>9. ASSUME NEW x \in Addr,
               Ban(x) \/ BanLocked(x) \/ Appended(x) \/ AppendLost(x) \/ LateAppend(x)
        PROVE  KindsFit'
    <2>1. UNCHANGED <<setting, command, loading, purge, removal>>
      BY <1>9 DEF Ban, BanLocked, Appended, AppendLost, LateAppend
    <2>2. ASSUME NEW gen, Hooked(x, gen)
          PROVE  \A y \in Addr : add'[y].pc \in {add[y].pc, "append", "done"}
      BY <2>2 DEF Hooked, BansTyped, CallType, Calls
    <2>3. Unhooked(x) => \A y \in Addr : add'[y].pc \in {add[y].pc, "append", "done"}
      BY DEF Unhooked, BansTyped, Idle
    <2>4. \A y \in Addr : add'[y].pc \in {add[y].pc, "wait", "append", "loose", "done"}
      <3>1. CASE Ban(x)
        BY <2>2, <2>3, <3>1 DEF Ban, BansTyped, CallType, Calls
      <3>2. CASE BanLocked(x)
        BY <2>2, <3>2 DEF BanLocked
      <3>3. CASE Appended(x) \/ LateAppend(x)
        BY <3>3 DEF Appended, LateAppend, BansTyped
      <3>4. CASE AppendLost(x)
        BY <3>4 DEF AppendLost, BansTyped, Idle
      <3> QED
        BY <1>9, <3>1, <3>2, <3>3, <3>4
    <2>5. AddKind
      BY <2>4 DEF KindsFit
    <2> QED
      BY <1>1, <1>2, <1>4, <2>1, <2>5 DEF KindsFit, setting
  <1>10. CASE \/ (\E x \in Addr : Unban(x)) \/ UnbanStart \/ UnbanEnd \/ UnbanFails \/ UnbanLost
              \/ LateRemoval
    <2>1. UNCHANGED <<setting, command, add, loading, purge>>
      <3>1. CASE (\E x \in Addr : Unban(x)) \/ UnbanStart
        BY <3>1 DEF Unban, UnbanStart
      <3>2. CASE UnbanEnd \/ UnbanFails \/ UnbanLost \/ LateRemoval
        BY <3>2 DEF UnbanEnd, UnbanFails, UnbanLost, LateRemoval
      <3> QED
        BY <1>10, <3>1, <3>2
    <2>3. ASSUME NEW gen, NEW addrs, Rewrite(gen, addrs) PROVE RemovalKind
      BY <2>3 DEF Rewrite
    <2>4. \A x \in Addr : [Idle EXCEPT !.pc = "wait", !.gen = MyLock, !.of = {x}].pc = "wait"
      BY DEF Idle
    <2>5. [removal EXCEPT !.pc = "loose"].pc = "loose"
      BY DEF BansTyped, CallType, Calls
    <2>2. RemovalKind
      <3>1. CASE \E x \in Addr : Unban(x)
        BY <2>3, <2>4, <3>1 DEF Unban
      <3>2. CASE UnbanStart
        BY <2>3, <3>2 DEF UnbanStart
      <3>3. CASE UnbanEnd \/ UnbanFails \/ UnbanLost \/ LateRemoval
        BY <2>5, <3>3 DEF UnbanEnd, UnbanFails, UnbanLost, LateRemoval
      <3> QED
        BY <1>10, <3>1, <3>2, <3>3
    <2> QED
      BY <1>1, <1>2, <1>4, <2>1, <2>2 DEF KindsFit, setting
  <1>11. CASE Load \/ LoadStart \/ LoadEnd
    <2>1. UNCHANGED <<setting, command, add>>
      BY <1>11 DEF Load, LoadStart, LoadEnd
    <2>2. /\ purge' = purge \/ purge' = Parted(purge)
          /\ removal' = removal \/ removal' = Parted(removal)
      BY <1>11 DEF Load, LoadStart, LoadEnd
    <2>3. LoadKind
      BY <1>11 DEF Load, LoadStart, LoadEnd, Reading, Idle
    <2> QED
      BY <1>1, <1>2, <1>4, <2>1, <2>2, <2>3 DEF KindsFit, setting
  <1> QED
    BY <1>5, <1>6, <1>7, <1>8, <1>9, <1>10, <1>11 DEF Next, Run

LEMMA InvTyped ==
    ASSUME Inv, BansInv, KindsFit
    PROVE  TypeOK
  <1>1. /\ disabled \in BOOLEAN /\ manager \in BOOLEAN /\ geo \in {"off", "on", "lock"}
        /\ life \in {"off", "on"} \cup SettingUp \cup Unloading /\ own \subseteq Parts
        /\ hook \in HookType /\ lookup \in {"plain", "managed"}
        /\ reader \in BOOLEAN /\ warming \in BOOLEAN
    BY DEF Inv, KindsFit, Settings, Phase, OwnFits, HooksFit, HookType, PolicyFits
  <1>2. threshold \in [now : {"theirs", "ours"}, was : {"none", "theirs"}]
    BY DEF Inv, PolicyFits, Theirs, Ours
  <1>3. setups \in 0 .. MaxSetUps /\ made \in {0} \cup Generation
    <2>1. MaxSetUps \in Nat /\ made \in Nat /\ setups \in 0 .. MaxSetUps /\ made <= setups + 1
      BY Holders DEF BansInv, GenFits
    <2> QED
      BY <2>1 DEF Generation
  <1>4. /\ add \in [Addr -> Calls({"idle", "wait", "append", "loose", "done"})]
        /\ loading \in Calls({"idle", "wait", "read", "done", "lost"})
        /\ purge \in Calls({"idle", "write", "parted", "loose"})
        /\ removal \in Calls({"idle", "wait", "write", "parted", "loose", "done"})
    <2>1. /\ add \in [Addr -> CallType] /\ loading \in CallType
          /\ purge \in CallType /\ removal \in CallType
      BY DEF BansInv, BansTyped
    <2>2. ASSUME NEW call \in CallType, NEW pcs, call.pc \in pcs PROVE call \in Calls(pcs)
      BY <2>2 DEF CallType, Calls
    <2>3. \A x \in Addr : add[x] \in Calls({"idle", "wait", "append", "loose", "done"})
      BY <2>1, <2>2 DEF KindsFit
    <2> QED
      BY <2>1, <2>2, <2>3 DEF KindsFit
  <1>5. /\ lock \in {0} \cup Generation /\ held \in [Generation -> Holder]
        /\ live \subseteq Addr /\ file \subseteq Addr /\ marks \subseteq Marks
        /\ slipped \subseteq Trusted
        /\ command \in [Command -> {"idle", "running", "done"}]
    BY DEF BansInv, BansTyped, KindsFit
  <1> QED
    BY <1>1, <1>2, <1>3, <1>4, <1>5 DEF TypeOK, HookType

\* The inductive invariant of the lifecycle.
LifeInv == Inv /\ BansInv /\ KindsFit

LEMMA LifeInit ==
    ASSUME Init
    PROVE  LifeInv
  <1>1. KindsFit
    BY DEF Init, KindsFit, Idle
  <1> QED
    BY <1>1, InitInv, BansInit DEF LifeInv

LEMMA LifeStep ==
    ASSUME LifeInv, [Next]_vars
    PROVE  LifeInv'
  BY StepInv, BansStep, KindsStep DEF LifeInv, BansInv

\* The values stay in their types: a lock of a generation that set-ups can
\* have made, and each call in a phase of its kind (__init__.py).
THEOREM TypesHold == Spec => []TypeOK
  <1>1. LifeInv => TypeOK
    BY InvTyped DEF LifeInv
  <1> QED
    BY <1>1, LifeInit, LifeStep, PTL DEF Spec
=============================================================================
