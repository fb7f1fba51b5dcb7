---------------------------- MODULE Configuration ----------------------------
(***************************************************************************)
(* The configuration transaction: panel options and region edits, the      *)
(* restore of a backup, and the Configure form, each run under one lock    *)
(* and undone when it fails, while edits of the allowlist and of the       *)
(* blocked networks, a GeoIP download and the loss of the database go on   *)
(* outside the lock.                                                       *)
(*                                                                         *)
(* A transaction runs in the stretches between its awaits; tx.stage is the *)
(* await it is in.  Every await may end in an error, a refusal or a        *)
(* cancellation (Fail), and so may the awaits of the undo (Break).         *)
(*                                                                         *)
(* Abstracted: `deny' stands for the switches and thresholds the panel and *)
(* the form both write, a network entry for its own address; a region rule *)
(* is its code.  What happens inside the proxy calls is in NpmSync and     *)
(* NpmReconcile, inside the DNS refresh in Allowlist, inside the ban       *)
(* writes in ExactBans.                                                    *)
(***************************************************************************)
EXTENDS Naturals, FiniteSets

CONSTANTS
    Call, Idle,         \* calls to the service, each made once, and nobody
    Entry, Net, Local,  \* allowlist entries, networks to block, the local one
    Rule,               \* region codes
    Overlaps,           \* the codes of the same country a code replaces
    OptionRequests, ImportRequests, FormRequests,   \* what callers ask for
    Saved,              \* the options the service may start with
    MaxEdits, MaxFiles  \* bounds on list edits and on database changes

Settings == [on : BOOLEAN, rules : SUBSET Rule]
Regions == {r \in Settings : r.on => r.rules # {}}

\* A field that is left out of a request is the empty set.
Optional(S) == {{}} \cup {{x} : x \in S}
Or(field, default) == IF field = {} THEN default ELSE CHOOSE x \in field : TRUE

Options == [allow : SUBSET Entry, block : SUBSET Net, deny : BOOLEAN,
            region : Regions, geo : BOOLEAN, npm : BOOLEAN]

\* _validate_local_block_safety, which Allowlist has in full.
Safe(allow, block, deny) == deny \/ Local \in block => Local \in allow

Requests == [kind : {"options", "import", "configure"}, confirmed : BOOLEAN,
             allow : Optional(SUBSET Entry), block : Optional(SUBSET Net),
             deny : Optional(BOOLEAN),
             region : Optional(Settings), geo : Optional(BOOLEAN),
             npm : Optional(BOOLEAN), read : Optional(Regions)]

ASSUME ConfigurationAssumption ==
    /\ Idle \notin Call /\ Local \in Entry
    /\ Overlaps \in [Rule -> SUBSET Rule]
    /\ \A r \in OptionRequests \cup ImportRequests \cup FormRequests : r.read = {}
    /\ OptionRequests \subseteq {r \in Requests : r.kind = "options"}
    /\ ImportRequests \subseteq
         {r \in Requests : r.kind = "import" /\ r.region \in Optional(Regions)}
    /\ FormRequests \subseteq
         {r \in Requests : /\ r.kind = "configure" /\ r.region = {} /\ r.npm = {}
                           /\ {} \notin {r.allow, r.block, r.deny, r.geo}}
    /\ Saved \subseteq Options
    /\ \A o \in Saved : Safe(o.allow, o.block, o.deny) /\ (o.region.on => o.geo)
    /\ MaxEdits \in Nat /\ MaxFiles \in Nat

VARIABLES
    opts,       \* entry.options
    live,       \* the live allowlist, and what else the ban lookup enforces
    reader,     \* a GeoIP reader is prepared (KEY_GEOIP_READER)
    file,       \* the database is there and can be opened
    call,       \* where each call is, and what it asks for
    tx,         \* the transaction that holds the configuration lock
    edit,       \* a list edit between its lockout check and its write
    edits, files,   \* how many edits and database changes there were
    owed,       \* history: the proxy was not told of the last change
    marks,      \* history: what has happened that the properties allow for
    acked       \* history: the region settings the acknowledged calls make

vars == <<opts, live, reader, file, call, tx, edit, edits, files, owed, marks,
          acked>>

Enforced(o) ==
    [allow |-> o.allow, block |-> o.block, deny |-> o.deny, region |-> o.region]

\* apply_blocked_networks: the live allowlist is not read from the options.
Applied(o) == [Enforced(o) EXCEPT !.allow = live.allow]

Marks == {"broken", "formed", "overwrote", "crossed", "early", "darkened",
          "overlapped"}
Mark(name, cond) == marks' = IF cond THEN marks \cup {name} ELSE marks

Awaits == {"check", "file", "open", "prepare", "detach", "dns", "panel",
           "bans", "attach"}
Undoing == {"undo", "undo_detach", "undo_dns", "undo_open", "undo_panel",
            "undo_sync"}

NoEdit == [on |-> FALSE, list |-> "allow", allow |-> {}, block |-> {},
           deny |-> FALSE]
NoRequest == [kind |-> "options", confirmed |-> FALSE, allow |-> {},
              block |-> {}, deny |-> {}, region |-> {}, geo |-> {},
              npm |-> {}, read |-> {}]
Blank == [allow |-> {}, block |-> {}, deny |-> FALSE,
          region |-> [on |-> FALSE, rules |-> {}], geo |-> FALSE, npm |-> FALSE]
NoTx == [who |-> Idle, stage |-> "none", base |-> Blank, plan |-> Blank]

TypeOK ==
    /\ opts \in Options
    /\ live \in [allow : SUBSET Entry, block : SUBSET Net, deny : BOOLEAN,
                region : Regions]
    /\ reader \in BOOLEAN /\ file \in BOOLEAN
    /\ call \in [Call -> [pc : {"new", "waiting", "in", "done"}, req : Requests]]
    /\ tx \in [who : Call \cup {Idle}, stage : {"none"} \cup Awaits \cup Undoing,
               base : Options,
               plan : [allow : SUBSET Entry, block : SUBSET Net, deny : BOOLEAN,
                       region : Settings, geo : BOOLEAN, npm : BOOLEAN]]
    /\ edit \in [on : BOOLEAN, list : {"allow", "block"}, allow : SUBSET Entry,
                block : SUBSET Net, deny : BOOLEAN]
    /\ edits \in 0 .. MaxEdits /\ files \in 0 .. MaxFiles
    /\ owed \in BOOLEAN /\ marks \subseteq Marks /\ acked \in Settings

Req == call[tx.who].req
At(kind, stage) == tx.who # Idle /\ Req.kind = kind /\ tx.stage = stage
Move(stage) == tx' = [tx EXCEPT !.stage = stage]

-----------------------------------------------------------------------------
(* Requests, as they are read before the lock is taken.                    *)

Over == [pc |-> "done", req |-> NoRequest]
Ask(c, r) == call' = [call EXCEPT ![c] = [pc |-> "waiting", req |-> r]]
Refuse(c) == call' = [call EXCEPT ![c] = Over]

Waiting ==
    UNCHANGED <<opts, live, reader, file, tx, edit, edits, files, owed, marks,
                acked>>

SetOptions(c, r) == call[c].pc = "new" /\ Ask(c, r) /\ Waiting
ImportBackup(c, r) == call[c].pc = "new" /\ Ask(c, r) /\ Waiting

\* The form is validated as a whole when it is sent; a second form may ask
\* to confirm the removal of all bans.
SendForm(c, r) ==
    /\ call[c].pc = "new"
    /\ IF Safe(Or(r.allow, {}), Or(r.block, {}), Or(r.deny, FALSE))
       THEN Ask(c, r) ELSE Refuse(c)
    /\ Waiting

AskRules(c, rules) ==
    Ask(c, [NoRequest EXCEPT !.confirmed = TRUE, !.read = {opts.region},
                             !.region = {[opts.region EXCEPT !.rules = rules]}])

\* set_public_region; `old' is the row the panel edited, or the new one.
SetRegion(c, old, region) ==
    LET kept == opts.region.rules \ {old} IN
    /\ call[c].pc = "new"
    /\ IF old # region /\ (old \notin opts.region.rules \/ region \in kept)
       THEN Refuse(c)
       ELSE AskRules(c, (kept \ Overlaps[region]) \cup {region})
    /\ Waiting

RemoveRegion(c, region) ==
    /\ call[c].pc = "new"
    /\ IF opts.region.on /\ opts.region.rules = {region} THEN Refuse(c)
       ELSE AskRules(c, opts.region.rules \ {region})
    /\ Waiting

-----------------------------------------------------------------------------
(* The transaction begins, applies, and ends.                              *)

\* Mutant: a region lock does not turn GeoIP on.
PlanGeoAsAsked(r) ==
    [allow |-> Or(r.allow, opts.allow), block |-> Or(r.block, opts.block),
     deny |-> Or(r.deny, opts.deny), region |-> Or(r.region, opts.region),
     npm |-> Or(r.npm, opts.npm), geo |-> Or(r.geo, opts.geo)]

\* The options a request leads to: what it leaves out stays as it is, and a
\* region lock that is on turns GeoIP on.
Plan(r) ==
    LET region == Or(r.region, opts.region) IN
    [allow |-> Or(r.allow, opts.allow), block |-> Or(r.block, opts.block),
     deny |-> Or(r.deny, opts.deny), region |-> region, npm |-> Or(r.npm, opts.npm),
     geo |-> Or(r.geo, opts.geo) \/ (region.on /\ r.kind # "configure")]

FirstStage(r) ==
    CASE r.kind = "options" -> "check"
      [] r.kind = "import" -> IF Plan(r).region.on THEN "prepare" ELSE "check"
      [] OTHER -> "panel"

\* The Configure form's switches and blocked networks are saved at once and
\* not applied; its allowlist comes after the panel is registered.
Acquire(c) ==
    LET r == call[c].req IN
    /\ tx.who = Idle /\ call[c].pc = "waiting"
    /\ call' = [call EXCEPT ![c].pc = "in"]
    /\ tx' = [who |-> c, stage |-> FirstStage(r), base |-> opts,
              plan |-> Plan(r)]
    /\ opts' = IF r.kind = "configure"
               THEN [opts EXCEPT !.block = Plan(r).block, !.deny = Plan(r).deny,
                                 !.geo = Plan(r).geo]
               ELSE opts
    /\ marks' = marks \cup {m \in {"overlapped"} :
                              r.read # {} /\ opts.region \notin r.read}
                      \cup {m \in {"darkened"} : opts'.region.on /\ ~opts'.geo}
    /\ UNCHANGED <<live, reader, file, edit, edits, files, owed, acked>>

\* A region edit is acknowledged as the change it asked for.
AckedAfter ==
    LET new == Or(Req.region, acked)
        read == Or(Req.read, new).rules
    IN IF Req.read = {} THEN new
       ELSE [acked EXCEPT !.rules = (@ \ (read \ new.rules))
                                      \cup (new.rules \ read)]

Leave == tx' = NoTx /\ call' = [call EXCEPT ![tx.who] = Over]

\* Mutant: the end of a restored backup does not schedule the proxy.
FinishQuietImport == Leave /\ acked' = AckedAfter /\ owed' = (owed /\ Req.kind # "options")

\* The last stretch of a transaction schedules the proxy or has called it;
\* the Configure form does not.
Finish == Leave /\ acked' = AckedAfter /\ owed' = (owed /\ Req.kind = "configure")

\* The live allowlist is replaced and apply_blocked_networks follows.
Write(o) ==
    /\ opts' = o
    /\ live' = Enforced(o)
    /\ owed' = (owed \/ live' # live)

\* A call is over with an error, or is cancelled: the undo task is made.
Fail ==
    /\ tx.stage \in Awaits
    /\ Move("undo")
    /\ UNCHANGED <<opts, live, reader, file, call, edit, edits, files, owed,
                   marks, acked>>

-----------------------------------------------------------------------------
(* Panel options.                                                          *)

\* Mutant: a lock without rules is not refused.
RegionAcceptedEmpty ==
    \/ ~tx.plan.region.on \/ tx.plan.region = tx.base.region
    \/ Req.confirmed

\* normalize_public_region_settings, and the confirmation of a lock.
RegionAccepted ==
    /\ tx.plan.region \in Regions
    /\ \/ ~tx.plan.region.on \/ tx.plan.region = tx.base.region
       \/ Req.confirmed

\* A region lock is asked for and will be on.
LockAsked == Req.region # {} /\ tx.plan.region.on

ListsMoved == <<opts.allow, opts.block>> # <<tx.base.allow, tx.base.block>>

\* Mutant: the whole entry is written as it was read under the lock.
WriteOptionsSnapshot ==
    /\ Write([tx.plan EXCEPT !.npm = opts.npm])
    /\ Move("panel") /\ Mark("crossed", ListsMoved)

\* The switches are written, over lists that may have been edited; the live
\* list is not read again.
WriteOptions ==
    /\ opts' = [opts EXCEPT !.deny = tx.plan.deny, !.geo = tx.plan.geo,
                            !.region = tx.plan.region]
    /\ live' = Applied(opts')
    /\ owed' = (owed \/ live' # live)
    /\ Move("panel") /\ Mark("crossed", ListsMoved)

OptionsCheck ==
    /\ At("options", "check") /\ RegionAccepted
    /\ Safe(tx.base.allow, tx.base.block, tx.plan.deny)
    /\ IF tx.plan.geo
       THEN Move("file") /\ UNCHANGED <<opts, live, reader, owed, marks>>
       ELSE reader' = FALSE /\ WriteOptions
    /\ UNCHANGED <<file, call, edit, edits, files, acked>>

OptionsFile ==
    /\ At("options", "file")
    /\ IF file THEN Move("open") /\ UNCHANGED <<opts, live, owed, marks>>
       ELSE ~LockAsked /\ WriteOptions
    /\ UNCHANGED <<reader, file, call, edit, edits, files, acked>>

\* Without a reader the lock is refused: the reader is closed by then.
OptionsOpen ==
    /\ At("options", "open")
    /\ reader' = file
    /\ IF LockAsked /\ ~file THEN Move("undo") /\ UNCHANGED <<opts, live, owed, marks>>
       ELSE WriteOptions
    /\ UNCHANGED <<file, call, edit, edits, files, acked>>

OptionsPanel ==
    /\ At("options", "panel")
    /\ IF Req.npm = {} THEN Finish
       ELSE Move("attach") /\ UNCHANGED <<call, owed, acked>>
    /\ UNCHANGED <<opts, live, reader, file, edit, edits, files, marks>>

\* async_enable_npm or async_disable_npm.
OptionsAttach ==
    /\ At("options", "attach")
    /\ opts' = [opts EXCEPT !.npm = tx.plan.npm]
    /\ Finish
    /\ UNCHANGED <<live, reader, file, edit, edits, files, marks>>

-----------------------------------------------------------------------------
(* The restore of a backup.                                                *)

ImportPrepare ==
    /\ At("import", "prepare")
    /\ reader' = file
    /\ Move(IF file THEN "check" ELSE "undo")
    /\ UNCHANGED <<opts, live, file, call, edit, edits, files, owed, marks, acked>>

\* Mutant: the lockout check sees the lists without the switches.
ImportCheckLists ==
    /\ At("import", "check")
    /\ Safe(tx.plan.allow, tx.plan.block, opts.deny)
    /\ Move("detach")
    /\ UNCHANGED <<opts, live, reader, file, call, edit, edits, files, owed,
                   marks, acked>>

\* Queued proxy writes are stopped, and the rules removed if they must go.
ImportCheck ==
    /\ At("import", "check")
    /\ Safe(tx.plan.allow, tx.plan.block, tx.plan.deny)
    /\ Move("detach")
    /\ UNCHANGED <<opts, live, reader, file, call, edit, edits, files, owed,
                   marks, acked>>

\* Everything is written and the live allowlist replaced; the lookup follows
\* with the DNS refresh.
ImportWrite ==
    /\ At("import", "detach")
    /\ opts' = tx.plan
    /\ live' = [live EXCEPT !.allow = opts'.allow]
    /\ owed' = (owed \/ live' # live)
    /\ Move("dns")
    /\ UNCHANGED <<reader, file, call, edit, edits, files, marks, acked>>

\* DNS refresh, then apply.
ImportApply ==
    /\ At("import", "dns")
    /\ Write(opts) /\ Move("file")
    /\ UNCHANGED <<reader, file, call, edit, edits, files, marks, acked>>

ImportFile ==
    /\ At("import", "file")
    /\ reader' = (reader /\ tx.plan.geo)
    /\ Move(IF tx.plan.geo /\ file THEN "open" ELSE "panel")
    /\ UNCHANGED <<opts, live, file, call, edit, edits, files, owed, marks, acked>>

ImportOpen ==
    /\ At("import", "open")
    /\ reader' = file
    /\ Move("panel")
    /\ UNCHANGED <<opts, live, file, call, edit, edits, files, owed, marks, acked>>

ImportPanel ==
    /\ At("import", "panel")
    /\ Move("bans")
    /\ UNCHANGED <<opts, live, reader, file, call, edit, edits, files, owed, marks,
                   acked>>

ImportBans ==
    /\ At("import", "bans")
    /\ Finish
    /\ UNCHANGED <<opts, live, reader, file, edit, edits, files, marks>>

-----------------------------------------------------------------------------
(* The Configure form, whose switches and blocked networks Acquire saved.  *)

FormPanel ==
    /\ At("configure", "panel")
    /\ Write([opts EXCEPT !.allow = tx.plan.allow])
    /\ Move("dns")
    /\ UNCHANGED <<reader, file, call, edit, edits, files, marks, acked>>

\* The blocked networks are written again, beside an allowlist that may have
\* been edited.
FormApply ==
    /\ At("configure", "dns")
    /\ Write([opts EXCEPT !.block = tx.plan.block]) /\ Move("bans")
    /\ Mark("crossed", opts.allow # tx.plan.allow)
    /\ UNCHANGED <<reader, file, call, edit, edits, files, acked>>

\* The bans are replaced, and the entry is written once more from the form:
\* nothing that is enforced changes with it.
FormFinish ==
    /\ At("configure", "bans")
    /\ opts' = [opts EXCEPT !.allow = tx.plan.allow, !.block = tx.plan.block,
                            !.deny = tx.plan.deny, !.geo = tx.plan.geo]
    /\ marks' = marks \cup {"formed"} \cup
                   {m \in {"overwrote"} : opts' # opts}
    /\ Finish
    /\ UNCHANGED <<live, reader, file, edit, edits, files>>

-----------------------------------------------------------------------------
(* The undo.                                                               *)

\* Mutant: keys that were added meanwhile are merged back.
UndoKeepsRegion ==
    /\ tx.stage = "undo"
    /\ opts' = [tx.base EXCEPT !.region = opts.region] /\ Move("undo_dns")
    /\ UNCHANGED <<live, reader, file, call, edit, edits, files, owed, marks, acked>>

Undo ==
    /\ tx.stage = "undo"
    /\ IF opts.npm /\ ~tx.base.npm
       THEN Move("undo_detach") /\ UNCHANGED opts
       ELSE opts' = tx.base /\ Move("undo_dns")
    /\ UNCHANGED <<live, reader, file, call, edit, edits, files, owed, marks, acked>>

UndoDetach ==
    /\ tx.stage = "undo_detach"
    /\ opts' = tx.base /\ Move("undo_dns")
    /\ UNCHANGED <<live, reader, file, call, edit, edits, files, owed, marks, acked>>

\* Mutant: the lists come back from the DNS refresh and the rest is left.
UndoDnsLists ==
    /\ tx.stage = "undo_dns"
    /\ live' = [live EXCEPT !.allow = opts.allow]
    /\ owed' = (owed \/ live' # live)
    /\ reader' = (reader /\ opts.geo)
    /\ Move(IF opts.geo THEN "undo_open" ELSE "undo_panel")
    /\ UNCHANGED <<opts, file, call, edit, edits, files, marks, acked>>

UndoDns ==
    /\ tx.stage = "undo_dns"
    /\ Write(opts)
    /\ reader' = (reader /\ opts.geo)
    /\ Move(IF opts.geo THEN "undo_open" ELSE "undo_panel")
    /\ UNCHANGED <<file, call, edit, edits, files, marks, acked>>

UndoOpen ==
    /\ tx.stage = "undo_open"
    /\ reader' = file
    /\ Move("undo_panel")
    /\ UNCHANGED <<opts, live, file, call, edit, edits, files, owed, marks, acked>>

UndoPanel ==
    /\ tx.stage = "undo_panel"
    /\ IF tx.base.npm THEN Move("undo_sync") /\ UNCHANGED <<call, owed>>
       ELSE Leave /\ owed' = FALSE
    /\ UNCHANGED <<opts, live, reader, file, edit, edits, files, marks, acked>>

UndoSync ==
    /\ tx.stage = "undo_sync"
    /\ Leave /\ owed' = FALSE
    /\ UNCHANGED <<opts, live, reader, file, edit, edits, files, marks, acked>>

\* Mutant: the lock stays taken when the undo fails.
BreakHeld ==
    /\ tx.stage \in Undoing \ {"undo"}
    /\ opts' = IF tx.stage = "undo_detach" THEN tx.base ELSE opts
    /\ Mark("broken", TRUE)
    /\ Move("none") /\ UNCHANGED call
    /\ UNCHANGED <<live, reader, file, edit, edits, files, owed, acked>>

\* An error in the undo is reported; a second cancellation ends it.  The
\* options are restored all the same.
Break ==
    /\ tx.stage \in Undoing \ {"undo"}
    /\ opts' = IF tx.stage = "undo_detach" THEN tx.base ELSE opts
    /\ Mark("broken", TRUE)
    /\ Leave
    /\ UNCHANGED <<live, reader, file, edit, edits, files, owed, acked>>

-----------------------------------------------------------------------------
(* Outside the lock.                                                       *)

\* An edit of one list, checked against the other list as it is saved and
\* default deny as it is enforced.
StartEdit(list, allow, block) ==
    /\ ~edit.on /\ edits < MaxEdits
    /\ Safe(allow, block, live.deny)
    /\ edit' = [on |-> TRUE, list |-> list, allow |-> allow, block |-> block,
                deny |-> live.deny]
    /\ edits' = edits + 1
    /\ UNCHANGED <<opts, live, reader, file, call, tx, files, owed, marks, acked>>

\* async_add_allowlist_network, async_remove_allowlist_network and
\* async_add_blocked_network up to the lockout check.
EditAllow(allow) == allow # opts.allow /\ StartEdit("allow", allow, opts.block)
AddBlocked(e) ==
    e \notin opts.block /\ StartEdit("block", opts.allow, opts.block \cup {e})

\* update_allowlist_entry.  Its event schedules the proxy.
WriteAllow ==
    /\ edit.on /\ edit.list = "allow"
    /\ opts' = [opts EXCEPT !.allow = edit.allow]
    /\ live' = Enforced(opts')
    /\ owed' = FALSE
    /\ edit' = NoEdit
    /\ Mark("crossed", <<edit.block, edit.deny>> # <<opts.block, opts.deny>>)
    /\ UNCHANGED <<reader, file, call, tx, edits, files, acked>>

\* update_blocked_networks_entry applies all that is saved but the allowlist.
SaveBlocked(block) ==
    /\ opts' = [opts EXCEPT !.block = block]
    /\ live' = Applied(opts')
    /\ owed' = FALSE
    /\ UNCHANGED <<reader, file, call, tx, files, acked>>

WriteBlocked ==
    /\ edit.on /\ edit.list = "block"
    /\ SaveBlocked(edit.block)
    /\ edit' = NoEdit
    /\ Mark("crossed", <<edit.allow, edit.deny>> # <<opts.allow, opts.deny>>)
    /\ UNCHANGED edits

\* async_remove_blocked_network checks nothing and awaits nothing.  While the
\* form registers the panel it applies switches saved ahead of their list.
RemoveBlocked(e) ==
    /\ e \in opts.block /\ edits < MaxEdits
    /\ SaveBlocked(opts.block \ {e})
    /\ edits' = edits + 1
    /\ Mark("early", At("configure", "panel"))
    /\ UNCHANGED edit

\* The timer's DNS refresh reads the lists again, lock or not; what it
\* changes is passed on to the proxy.
TimerRefresh ==
    /\ live.allow # opts.allow
    /\ live' = [live EXCEPT !.allow = opts.allow]
    /\ owed' = FALSE
    /\ UNCHANGED <<opts, reader, file, call, tx, edit, edits, files, marks, acked>>

\* async_download_geoip_database, which prepares the reader.
Download ==
    /\ files < MaxFiles
    /\ file' = TRUE /\ reader' = TRUE
    /\ files' = files + 1
    /\ UNCHANGED <<opts, live, call, tx, edit, edits, owed, marks, acked>>

\* The file is removed or damaged; a prepared reader keeps its own copy.
LoseFile ==
    /\ files < MaxFiles /\ file
    /\ file' = FALSE
    /\ files' = files + 1
    /\ UNCHANGED <<opts, live, reader, call, tx, edit, edits, owed, marks, acked>>

-----------------------------------------------------------------------------
Init ==
    /\ opts \in Saved
    /\ live = Enforced(opts)
    /\ file \in BOOLEAN /\ reader = (file /\ opts.geo)
    /\ call = [c \in Call |-> [pc |-> "new", req |-> NoRequest]]
    /\ tx = NoTx
    /\ edit = NoEdit
    /\ edits = 0 /\ files = 0
    /\ owed = FALSE /\ marks = {} /\ acked = opts.region

Run ==
    \/ \E c \in Call : Acquire(c)
    \/ OptionsCheck \/ OptionsFile \/ OptionsOpen \/ OptionsPanel \/ OptionsAttach
    \/ ImportPrepare \/ ImportCheck \/ ImportWrite \/ ImportApply
    \/ ImportFile \/ ImportOpen \/ ImportPanel \/ ImportBans
    \/ FormPanel \/ FormApply \/ FormFinish
    \/ Fail
    \/ Undo \/ UndoDetach \/ UndoDns \/ UndoOpen \/ UndoPanel \/ UndoSync
    \/ Break

Next ==
    \/ Run
    \/ \E c \in Call :
          \/ \E r \in OptionRequests : SetOptions(c, r)
          \/ \E r \in ImportRequests : ImportBackup(c, r)
          \/ \E r \in FormRequests : SendForm(c, r)
          \/ \E old \in Rule, region \in Rule : SetRegion(c, old, region)
          \/ \E region \in opts.region.rules : RemoveRegion(c, region)
    \/ \E allow \in SUBSET Entry : EditAllow(allow)
    \/ \E e \in Net : AddBlocked(e) \/ RemoveBlocked(e)
    \/ WriteAllow \/ WriteBlocked \/ TimerRefresh \/ Download \/ LoseFile

Spec == Init /\ [][Next]_vars

\* The event loop resumes the transaction whose await has ended.
FairSpec == Spec /\ WF_vars(Run)

-----------------------------------------------------------------------------
(* Properties.                                                             *)

\* Between transactions the lookup enforces what is saved, whatever await a
\* transaction failed in and whatever was edited meanwhile; an undo that
\* failed, and a form that overwrote an edit, are the exceptions.
LiveFollowsOptions ==
    tx.who = Idle /\ marks \cap {"broken", "overwrote"} = {} =>
        live = Enforced(opts)

\* Default deny, and a block of the local network, are enforced only with a
\* local path in the enforced allowlist, unless an edit, or the form's second
\* write of its blocked networks, was written beside lists or switches it was
\* not checked against.  Two windows are open in the code.  Between the write
\* and the apply of a restore or an undo, a refresh or a removed block may
\* bring lists and switches out of step; and while the form registers the
\* panel, the removal of a blocked network enforces the form's default deny
\* ahead of the allowlist that comes with it.
NoLockout ==
    marks \cap {"crossed", "overwrote", "broken"} = {} =>
        \/ Safe(live.allow, live.block, live.deny)
        \/ tx.stage \in {"dns", "undo", "undo_detach", "undo_dns"}
        \/ At("configure", "panel") /\ "early" \in marks

\* A region lock between transactions can tell regions: GeoIP is on, and a
\* reader is there unless the database changed.  Only the Configure form
\* turns GeoIP off under the lock, and a failed undo may leave it so.
RegionLockUsable ==
    tx.who = Idle /\ live.region.on /\ marks \cap {"darkened", "broken"} = {} =>
        opts.geo /\ (files = 0 /\ file => reader)

\* Region edits that did not overlap are all kept: the saved rules are what
\* the acknowledged edits make, also after a transaction failed.
SequentialRegions ==
    tx.who = Idle /\ "overlapped" \notin marks => opts.region = acked

\* The lists change only by their own edits, by a backup or a form that
\* carries them, and by an undo: saving other options keeps an edit made
\* while it waited.
ListsKept ==
    [][<<opts.allow, opts.block>>' # <<opts.allow, opts.block>> =>
          \/ edits' # edits
          \/ edit.on /\ ~edit'.on
          \/ \E c \in {tx.who, tx'.who} \ {Idle} :
                call[c].req.kind # "options" \/ tx.stage \in Undoing]_vars

\* The proxy is told of what panel options, a backup or an undo changed.
EdgeHearsOfOptions ==
    tx.who = Idle /\ owed => marks \cap {"broken", "formed"} # {}

\* Saving the Configure form, too, brings the policy to the proxy, as the
\* README says of policy changes (src/README.md, Nginx Proxy Manager).
ConfigureReachesEdge ==
    tx.who = Idle /\ owed => ~opts.npm \/ "broken" \in marks

\* Every call that waits for the lock gets it and comes to its end, in
\* success, undone, or with a failed undo.
TransactionsEnd ==
    \A c \in Call : call[c].pc \in {"waiting", "in"} ~> call[c].pc = "done"
=============================================================================
