--------------------------- MODULE ActivityHistory ---------------------------
(***************************************************************************)
(* The persisted activity history: events recorded by the login and ban    *)
(* hooks and imported from NPM's logs, the load at set-up, the delayed     *)
(* save, the clear command, and the flush when the integration unloads or  *)
(* Home Assistant stops.                                                   *)
(*                                                                         *)
(* Loads, saves and the two commands that wait for them are tasks of one   *)
(* event loop; a file is read and written by executor jobs, which go on    *)
(* when the task that waits for them is cancelled.                         *)
(*                                                                         *)
(* Abstracted: an event is a value, its time is in `happened': a clear     *)
(* cuts off what has happened so far.  `aged' are the events retention or  *)
(* the limit of 1,000 events drops.  The command's caller does not cancel. *)
(***************************************************************************)
EXTENDS Naturals, Sequences, SequencesExt

CONSTANTS
    Event, Clear, Flush,    \* events, calls of the clear command, the flush
    MaxSessions,            \* bound on set-ups
    MaxSaves                \* bound on delayed saves

Session == 1 .. MaxSessions
Save == 1 .. MaxSaves
Drain == Clear \cup {Flush}

ActivityAssumption ==
    /\ Flush \notin Clear /\ Drain \cap Save = {}
    /\ MaxSessions \in Nat /\ MaxSaves \in Nat

Stored == [events : SUBSET Event, cut : SUBSET Event]

VARIABLES
    phase, session,     \* of the integration; how often it was set up
    listening,          \* the stop listener is there
    loaded,             \* KEY_ACTIVITY_HISTORY_LOADED
    memory, cut,        \* KEY_ACTIVITY_HISTORY, ..._CLEARED_AT
    disk, writes,       \* the file, and the executor's writes in order
    load, loadKey,      \* load tasks by session, KEY_..._LOAD_TASK
    save, saveKey,      \* save tasks, KEY_..._SAVE_TASK
    drain,              \* clear commands and the flush
    fetching,           \* an NPM log request is under way
    happened, aged,
    promised, gone,     \* history: events accepted outside a load; cleared ones
    marks               \* history: what the properties allow for

env == <<fetching, happened, aged>>
vars == <<phase, session, listening, loaded, memory, cut, disk, writes, load,
          loadKey, save, saveKey, drain, env, promised, gone, marks>>

Marks == {"overtaken", "failed", "unwaited", "early", "late", "unkeyed",
          "unloaded"}
MarkIf(name, cond) == marks' = IF cond THEN marks \cup {name} ELSE marks

NoLoad == [pc |-> "none", existing |-> {}, got |-> [events |-> {}, cut |-> {}]]
NoDrain == [pc |-> "idle", on |-> 0, at |-> {}]

TypeOK ==
    /\ phase \in {"off", "on", "unloading", "stopping", "stopped"}
    /\ session \in 0 .. MaxSessions
    /\ listening \in BOOLEAN /\ loaded \in BOOLEAN /\ fetching \in BOOLEAN
    /\ memory \subseteq Event /\ cut \subseteq happened
    /\ disk \in Stored
    /\ writes \in Seq([by : Drain \cup Save, what : Stored])
    /\ load \in [Session -> [pc : {"none", "reading", "read", "done"},
                             existing : SUBSET Event, got : Stored]]
    /\ loadKey \in Session \cup {0} /\ saveKey \in Save \cup {0}
    /\ save \in [Save -> {"new", "sleep", "write", "cancelled", "done"}]
    /\ drain \in [Drain -> [pc : {"idle", "load", "cancel", "write", "done"},
                            on : 0 .. MaxSessions + MaxSaves, at : SUBSET Event]]
    /\ aged \subseteq happened /\ happened \subseteq Event
    /\ promised \subseteq Event /\ gone \subseteq happened
    /\ marks \subseteq Marks

\* _prune_history.
Kept(events) == events \ aged
Pending(s) == load[s].pc \in {"reading", "read"}
Loading == \E s \in Session : Pending(s)
Writing(who) == \E i \in DOMAIN writes : writes[i].by = who
Payload(events, cleared) == [events |-> events, cut |-> cleared]
Submit(who, what) == writes' = Append(writes, [by |-> who, what |-> what])

-----------------------------------------------------------------------------
(* Loading and recording.                                                  *)

\* A flag left by a load that ended after the last unload stops the start.
Start ==
    /\ phase = "off" /\ session < MaxSessions
    /\ phase' = "on" /\ session' = session + 1
    /\ IF loaded THEN UNCHANGED <<listening, loaded, load, loadKey>>
       ELSE /\ listening' = TRUE /\ loaded' = TRUE
            /\ loadKey' = session'
            /\ load' = [load EXCEPT ![session'] =
                          [NoLoad EXCEPT !.pc = "reading", !.existing = memory]]
    /\ drain' = [drain EXCEPT ![Flush] = NoDrain]
    /\ MarkIf("unloaded", \E c \in Clear : drain[c].pc \notin {"idle", "done"})
    /\ UNCHANGED <<memory, cut, disk, writes, save, saveKey, env, promised, gone>>

LoadRead(s) ==
    /\ load[s].pc = "reading"
    /\ load' = [load EXCEPT ![s].pc = "read", ![s].got = disk]
    /\ UNCHANGED <<phase, session, listening, loaded, memory, cut, disk, writes,
                   loadKey, save, saveKey, drain, env, promised, gone, marks>>

\* Mutant: the stored time of the last clear is not read back.
LoadEndNoCut(s) ==
    /\ load[s].pc = "read"
    /\ load' = [load EXCEPT ![s] = [NoLoad EXCEPT !.pc = "done"]]
    /\ memory' = Kept(load[s].got.events \cup load[s].existing)
    /\ loaded' = TRUE
    /\ UNCHANGED <<phase, session, listening, cut, disk, writes, loadKey, save,
                   saveKey, drain, env, promised, gone, marks>>

\* What was recorded since the load began is replaced with the rest.
LoadEnd(s) ==
    /\ load[s].pc = "read"
    /\ load' = [load EXCEPT ![s] = [NoLoad EXCEPT !.pc = "done"]]
    /\ memory' = Kept(load[s].got.events \cup load[s].existing)
    /\ cut' = IF load[s].got.cut = {} THEN cut ELSE load[s].got.cut
    /\ loaded' = TRUE
    /\ UNCHANGED <<phase, session, listening, disk, writes, loadKey, save, saveKey,
                   drain, env, promised, gone, marks>>

\* One delayed save at a time: one that is writing counts as well.
Schedule ==
    IF saveKey # 0 /\ save[saveKey] # "done" THEN UNCHANGED <<save, saveKey>>
    ELSE \E t \in Save :
            /\ save[t] = "new" /\ \A u \in 1 .. t - 1 : save[u] # "new"
            /\ save' = [save EXCEPT ![t] = "sleep"]
            /\ saveKey' = t

\* record_activity with one event, record_history_events with a batch.
Accept(events) ==
    LET fresh == IF loaded THEN (events \ cut) \ memory ELSE {} IN
    IF fresh = {} THEN UNCHANGED <<memory, save, saveKey, promised, marks>>
    ELSE /\ memory' = Kept(memory \cup fresh)
         /\ Schedule
         /\ promised' = promised \cup IF Loading THEN {} ELSE fresh
         /\ MarkIf("late", drain[Flush].pc \in {"cancel", "write", "done"})

\* The hooks record what happens while they are installed, which they stay
\* when Home Assistant stops.
Record(e) ==
    /\ phase \in {"on", "stopping", "stopped"} /\ e \notin happened
    /\ happened' = happened \cup {e}
    /\ Accept({e})
    /\ UNCHANGED <<phase, session, listening, loaded, cut, disk, writes, load,
                   loadKey, drain, fetching, aged, gone>>

\* NPM logs a request, whether or not the integration runs.
Log(e) ==
    /\ e \notin happened /\ happened' = happened \cup {e}
    /\ UNCHANGED <<phase, session, listening, loaded, memory, cut, disk, writes,
                   load, loadKey, save, saveKey, drain, fetching, aged, promised,
                   gone, marks>>

FetchStart ==
    /\ phase = "on" /\ ~fetching /\ fetching' = TRUE
    /\ UNCHANGED <<phase, session, listening, loaded, memory, cut, disk, writes,
                   load, loadKey, save, saveKey, drain, happened, aged, promised,
                   gone, marks>>

\* The rest of async_npm_activity: the last lines of the logs are recorded,
\* none after an error.
FetchEnd(events) ==
    /\ fetching /\ fetching' = FALSE
    /\ events \subseteq happened
    /\ Accept(events)
    /\ UNCHANGED <<phase, session, listening, loaded, cut, disk, writes, load,
                   loadKey, drain, happened, aged, gone>>

\* An event is past its retention or the limit.
Age(e) ==
    /\ e \in happened \ aged /\ aged' = aged \cup {e}
    /\ UNCHANGED <<phase, session, listening, loaded, memory, cut, disk, writes,
                   load, loadKey, save, saveKey, drain, fetching, happened,
                   promised, gone, marks>>

-----------------------------------------------------------------------------
(* Saving.                                                                 *)

SaveBegin(t) ==
    /\ save[t] = "sleep"
    /\ save' = [save EXCEPT ![t] = "write"]
    /\ memory' = Kept(memory)
    /\ Submit(t, Payload(Kept(memory), cut))
    /\ MarkIf("early", Loading)
    /\ UNCHANGED <<phase, session, listening, loaded, cut, disk, load, loadKey,
                   saveKey, drain, env, promised, gone>>

\* A save that is over or cancelled takes away the key, even another's.
SaveEnd(t) ==
    /\ save[t] = "cancelled" \/ (save[t] = "write" /\ ~Writing(t))
    /\ save' = [save EXCEPT ![t] = "done"]
    /\ saveKey' = 0
    /\ MarkIf("unkeyed", saveKey \notin {0, t})
    /\ UNCHANGED <<phase, session, listening, loaded, memory, cut, disk, writes,
                   load, loadKey, drain, env, promised, gone>>

\* Two executor threads may write in either order.
WriteLands(i) ==
    /\ disk' = writes[i].what
    /\ writes' = RemoveAt(writes, i)
    /\ MarkIf("overtaken", i # 1)
    /\ UNCHANGED <<phase, session, listening, loaded, memory, cut, load, loadKey,
                   save, saveKey, drain, env, promised, gone>>

\* The store reports a failed write in the log only; a job whose task was
\* cancelled before it ran is dropped.
WriteFails(i) ==
    /\ writes' = RemoveAt(writes, i)
    /\ MarkIf("failed", ~(writes[i].by \in Save /\ save[writes[i].by] \in {"cancelled", "done"}))
    /\ UNCHANGED <<phase, session, listening, loaded, memory, cut, disk, load,
                   loadKey, save, saveKey, drain, env, promised, gone>>

-----------------------------------------------------------------------------
(* The clear command and the flush first wait for the load and stop the    *)
(* delayed save.                                                           *)

Wait(d, pc, on) == drain' = [drain EXCEPT ![d].pc = pc, ![d].on = on]

\* The work itself: a clear empties the history, a flush saves it.
Work(d) ==
    /\ drain' = [drain EXCEPT ![d] = [pc |-> "write", on |-> 0, at |-> IF d = Flush THEN {} ELSE happened]]
    /\ IF d = Flush
       THEN /\ memory' = IF loaded THEN Kept(memory) ELSE memory
            /\ IF loaded THEN Submit(d, Payload(Kept(memory), cut)) ELSE UNCHANGED writes
            /\ UNCHANGED <<cut, promised>>
       ELSE /\ memory' = {} /\ cut' = happened /\ promised' = {}
            /\ IF loaded THEN Submit(d, Payload({}, happened)) ELSE UNCHANGED writes

TakeSave(d) ==
    /\ saveKey' = 0
    /\ IF saveKey # 0 /\ save[saveKey] # "done"
       THEN /\ save' = [save EXCEPT ![saveKey] = "cancelled"]
            /\ Wait(d, "cancel", saveKey)
            /\ UNCHANGED <<memory, cut, writes, promised>>
       ELSE Work(d) /\ UNCHANGED save

\* Mutant: the load is not waited for.
TakeLoadOnly(d) == loadKey' = 0 /\ TakeSave(d)

TakeLoad(d) ==
    /\ loadKey' = 0
    /\ IF loadKey # 0 /\ Pending(loadKey)
       THEN /\ Wait(d, "load", loadKey)
            /\ UNCHANGED <<memory, cut, writes, promised, save, saveKey>>
       ELSE TakeSave(d)

\* A load whose key another call has taken is not waited for.
Unwaited == MarkIf("unwaited", \E s \in Session : Pending(s) /\ s # loadKey)
Unloaded(d) == MarkIf("unloaded", d \in Clear /\ phase # "on")

ClearStart(c) ==
    /\ phase = "on" /\ drain[c].pc = "idle"
    /\ TakeLoad(c) /\ Unwaited
    /\ UNCHANGED <<phase, session, listening, loaded, disk, load, env, gone>>

FlushStart(why) ==
    /\ phase = "on" /\ (why = "stopping" => listening)
    /\ phase' = why /\ listening' = FALSE
    /\ TakeLoad(Flush) /\ Unwaited
    /\ UNCHANGED <<session, loaded, disk, load, env, gone>>

AfterLoad(d) ==
    /\ drain[d].pc = "load" /\ ~Pending(drain[d].on)
    /\ TakeSave(d) /\ Unloaded(d)
    /\ UNCHANGED <<phase, session, listening, loaded, disk, load, loadKey, env, gone>>

AfterCancel(d) ==
    /\ drain[d].pc = "cancel" /\ save[drain[d].on] = "done"
    /\ Work(d) /\ Unloaded(d)
    /\ UNCHANGED <<phase, session, listening, loaded, disk, load, loadKey, save,
                   saveKey, env, gone>>

ClearEnd(c) ==
    /\ drain[c].pc = "write" /\ ~Writing(c)
    /\ drain' = [drain EXCEPT ![c] = [NoDrain EXCEPT !.pc = "done"]]
    /\ gone' = gone \cup drain[c].at
    /\ UNCHANGED <<phase, session, listening, loaded, memory, cut, disk, writes,
                   load, loadKey, save, saveKey, env, promised, marks>>

\* The unload drops the history after the flush; the time of the last clear
\* stays.
FlushEnd ==
    /\ drain[Flush].pc = "write" /\ ~Writing(Flush)
    /\ drain' = [drain EXCEPT ![Flush] = [NoDrain EXCEPT !.pc = "done"]]
    /\ IF phase = "unloading"
       THEN phase' = "off" /\ loaded' = FALSE /\ memory' = {}
       ELSE phase' = "stopped" /\ UNCHANGED <<loaded, memory>>
    /\ UNCHANGED <<session, listening, cut, disk, writes, load, loadKey, save,
                   saveKey, env, promised, gone, marks>>

\* The process ends: only the file is left.
Crash ==
    /\ session > 0
    /\ phase' = "off" /\ loaded' = FALSE /\ listening' = FALSE
    /\ memory' = {} /\ cut' = {} /\ writes' = <<>>
    /\ load' = [s \in Session |-> [NoLoad EXCEPT !.pc =
                   IF Pending(s) THEN "done" ELSE load[s].pc]]
    /\ save' = [t \in Save |-> IF save[t] = "new" THEN "new" ELSE "done"]
    /\ loadKey' = 0 /\ saveKey' = 0
    /\ drain' = [d \in Drain |-> IF drain[d].pc = "idle" THEN NoDrain
                                 ELSE [NoDrain EXCEPT !.pc = "done"]]
    /\ fetching' = FALSE
    /\ promised' = promised \cap disk.events
    /\ UNCHANGED <<session, disk, happened, aged, gone, marks>>

-----------------------------------------------------------------------------
Init ==
    /\ phase = "off" /\ session = 0 /\ listening = FALSE /\ loaded = FALSE
    /\ memory = {} /\ cut = {} /\ disk = [events |-> {}, cut |-> {}]
    /\ writes = <<>>
    /\ load = [s \in Session |-> NoLoad] /\ loadKey = 0
    /\ save = [t \in Save |-> "new"] /\ saveKey = 0
    /\ drain = [d \in Drain |-> NoDrain]
    /\ fetching = FALSE /\ happened = {} /\ aged = {}
    /\ promised = {} /\ gone = {} /\ marks = {}

Next ==
    \/ Start \/ FetchStart \/ FlushEnd \/ Crash
    \/ \E s \in Session : LoadRead(s) \/ LoadEnd(s)
    \/ \E e \in Event : Record(e) \/ Log(e) \/ Age(e)
    \/ \E events \in SUBSET Event : FetchEnd(events)
    \/ \E t \in Save : SaveBegin(t) \/ SaveEnd(t)
    \/ \E i \in DOMAIN writes : WriteLands(i) \/ WriteFails(i)
    \/ \E why \in {"unloading", "stopping"} : FlushStart(why)
    \/ \E d \in Drain : AfterLoad(d) \/ AfterCancel(d)
    \/ \E c \in Clear : ClearStart(c) \/ ClearEnd(c)

Spec == Init /\ [][Next]_vars

-----------------------------------------------------------------------------
(* Properties.                                                             *)

\* What a clear removed does not come back, neither into the history nor
\* into the file, from a save, a load, an NPM log or a restart.  Only a
\* cancelled write that lands after the clear's, a failed write, a save
\* during a load, a load nobody waited for, or an unload before the
\* clear is at work may bring it back.
ClearedStaysCleared ==
    ~Loading /\ marks \cap {"overtaken", "failed", "early", "unwaited", "unloaded"} = {} =>
        gone \cap (memory \cup disk.events) = {}

\* A clean unload or stop leaves in the file every event that was accepted
\* while no load was under way, unless it was cleared or has aged.  An event
\* accepted during a load is not among them: the load replaces it with what
\* the file holds (activity.py:161-173).  Other exceptions: writes out of
\* order, a failed write, a save during a load, a load another call was
\* waiting for, and an event that came in during the flush or while a
\* cancelled save was ending, whose own save then runs later.
FlushKeepsHistory ==
    drain[Flush].pc = "done" /\ phase \in {"off", "stopped"} /\ marks = {} =>
        promised \ aged \subseteq disk.events
=============================================================================
