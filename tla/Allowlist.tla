------------------------------ MODULE Allowlist ------------------------------
(***************************************************************************)
(* The allowlist as it is saved and as it is enforced: the entries in the  *)
(* config entry, the addresses the hostname entries resolved to, the live  *)
(* list the ban lookup reads, and the coroutines that change them: the     *)
(* allowlist and blocked-network commands, the detected defaults added at  *)
(* set-up, and the DNS refresh with its lock, its timer and its grace.     *)
(*                                                                         *)
(* A command runs in the stretches between its suspension points: up to    *)
(* the lockout check, from the check to the DNS refresh, and the refresh.  *)
(* Time is counted in ticks; steps of the event loop take no time, so a    *)
(* tick waits for every step that is ready.                                *)
(*                                                                         *)
(* Abstracted: the spelling, order and metadata of entries.  With no       *)
(* hostname the refresh does not suspend; letting it suspend only adds     *)
(* interleavings.                                                          *)
(***************************************************************************)
EXTENDS Naturals, FiniteSets, Sequences

CONSTANTS
    Addr, Net, Name,    \* source addresses, network entries, hostname entries
    Covers,             \* the addresses of each network
    Adapters,           \* Home Assistant's adapters: net, own address, flags
    Hidden,             \* subnets kept out of the defaults (loopback, ...)
    Bridge, Gateway,    \* the Docker bridge and the entry that stands for it
    Supervisor,         \* the Supervisor's network
    Loopback,           \* the entry 127.0.0.1
    Banned,             \* exact bans (ExactBans models how they change)
    Command, Setup,     \* calls, each made at most once, and set-up's call
    Cancellable,        \* commands whose caller may give up
    Timer,              \* the timer's own refresh
    Interval, Timeout, Grace,   \* DNS_REFRESH_INTERVAL, ..._TIMEOUT, ..._GRACE
    Entries,            \* the entries commands name
    Answers             \* what the resolver may answer, {} for a failure

Caller == Command \cup {Setup}

ASSUME AllowlistAssumption ==
    /\ Net \cap Addr = {} \* live tells saved networks from resolved addresses
    /\ Covers \in [Net -> SUBSET Addr]
    /\ Adapters \subseteq [net : Net, own : Addr, on : BOOLEAN, main : BOOLEAN]
    /\ Hidden \subseteq Net
    /\ {Bridge, Gateway, Supervisor, Loopback} \subseteq Net
    /\ Banned \subseteq Addr
    /\ Cancellable \subseteq Command /\ IsFiniteSet(Cancellable)
    /\ Setup \notin Command /\ Timer \notin Caller
    /\ Interval \in Nat /\ Timeout \in Nat /\ Grace \in Nat
    /\ Entries \subseteq Net \cup Name
    /\ Answers \subseteq SUBSET Addr

VARIABLES
    stored,     \* entry_ip_addresses(entry)
    blocked,    \* entry_blocked_networks(entry), and the lookup's
    deny,       \* KEY_DEFAULT_DENY
    live,       \* KEY_ALLOWLIST and lookup.allowlist
    cache,      \* KEY_DNS_ALLOWLIST_CACHE
    age,        \* ticks since KEY_DNS_ALLOWLIST_RESOLVED_AT
    dns,        \* what the resolver answers now
    call,       \* where each call is, and what it read before it waited
    queue,      \* holder and waiters of KEY_DNS_ALLOWLIST_LOCK, in order
    job,        \* the resolution the holder is waiting for
    due,        \* ticks until the timer fires
    raced,      \* history: a command wrote over a list it had not read
    cutOff,     \* history: a refresh that followed an edit was cancelled
    late,       \* history: how many commands were cancelled at the refresh
    owed        \* history: the proxy has not been told of the last change

vars == <<stored, blocked, deny, live, cache, age, dns, call, queue, job, due,
          raced, cutOff, late, owed>>

Kinds == {"allow", "disallow", "block", "defaults"}
Stale == Grace + Interval + (2 + Cardinality(Cancellable)) * Timeout
NoCall == [pc |-> "new", kind |-> "defaults", seen |-> <<{}, {}>>,
           allow |-> {}, block |-> {}]
NoJob == [busy |-> FALSE, names |-> {}, asked |-> {}, elapsed |-> 0,
          answers |-> [n \in Name |-> {}]]

TypeOK ==
    /\ stored \in SUBSET (Net \cup Name)
    /\ blocked \in SUBSET (Entries \cap Net)
    /\ deny \in BOOLEAN
    /\ live \in SUBSET (Net \cup Addr)
    /\ cache \in [Name -> SUBSET Addr]
    /\ age \in [Name -> 0 .. Stale]
    /\ dns \in [Name -> SUBSET Addr]
    /\ call \in [Caller -> [pc : {"new", "check", "refresh", "done"},
                            kind : Kinds,
                            seen : (SUBSET (Net \cup Name)) \X (SUBSET Net),
                            allow : SUBSET (Net \cup Name),
                            block : SUBSET Net]]
    /\ queue \in Seq(Caller \cup {Timer})
    /\ job \in [busy : BOOLEAN, names : SUBSET Name, asked : SUBSET Name,
                elapsed : 0 .. Timeout, answers : [Name -> SUBSET Addr]]
    /\ due \in 0 .. Interval
    /\ raced \in BOOLEAN /\ cutOff \in BOOLEAN /\ owed \in BOOLEAN
    /\ late \in 0 .. Cardinality(Cancellable)

-----------------------------------------------------------------------------
(* The networks detected from the adapters, which do not change here.      *)

Enabled == {a \in Adapters : a.on}
Candidates == IF \E a \in Enabled : a.main THEN {a \in Enabled : a.main}
              ELSE Enabled

InternalDefaults ==
    {n \in {Supervisor} : \E a \in Enabled : a.net = Supervisor}
        \cup {n \in {Gateway} : \E a \in Enabled : a.net = Bridge}

LocalDefaults ==
    {a.net : a \in Candidates} \ (Hidden \cup InternalDefaults)

\* async_home_assistant_allowlist_safe_defaults without the Supervisor's.
Detected == (LocalDefaults \cup InternalDefaults) \ {Supervisor}

\* KEY_INTERNAL_BYPASS_NETWORKS: Home Assistant's own addresses.
Own == {a.own : a \in Enabled}

-----------------------------------------------------------------------------
(* The lists, the lockout check and the ban lookup.                        *)

\* parse_allowlist: the live list starts from the network entries alone.
Parsed(list) == list \cap Net
Hostnames(list) == list \cap Name

Allowed(list) == UNION {Covers[n] : n \in list \cap Net}

Kept(allow, d) == \E n \in Parsed(allow) : Covers[d] \subseteq Covers[n]

Overlapping(block, d) == \E b \in block : Covers[b] \cap Covers[d] # {}

PathSafe(allow, block, denied) ==
    /\ \A d \in Detected : Overlapping(block, d) => Kept(allow, d)
    /\ denied /\ Detected # {} => \E d \in Detected : Kept(allow, d)

\* NetworkAwareBanLookup.__contains__ after the exact bans, for an ordinary
\* path and without a region lock.
Trusted(a) == a \in live \/ a \in Allowed(live)
Refused(a) == a \notin Own /\ ~Trusted(a) /\ (deny \/ a \in Allowed(blocked))

-----------------------------------------------------------------------------
(* The DNS refresh.                                                        *)

\* The hostnames of the list are resolved together, each within the timeout.
Resolving(list) == [busy |-> TRUE, names |-> Hostnames(list),
                    asked |-> Hostnames(list), elapsed |-> 0,
                    answers |-> [n \in Name |-> {}]]

\* The lock is taken at once when it is free, and else in turn.
RequestRefresh(who, list) ==
    /\ queue' = Append(queue, who)
    /\ job' = IF queue = <<>> THEN Resolving(list) ELSE job

NextHolder ==
    /\ queue # <<>> /\ ~job.busy
    /\ job' = Resolving(stored)
    /\ UNCHANGED <<stored, blocked, deny, live, cache, age, dns, call, queue,
                   due, raced, cutOff, late, owed>>

\* One executor job ends with addresses or with an error.
Resolve(n) ==
    /\ job.busy /\ n \in job.asked
    /\ job' = [job EXCEPT !.asked = @ \ {n}, !.answers[n] = dns[n]]
    /\ UNCHANGED <<stored, blocked, deny, live, cache, age, dns, call, queue,
                   due, raced, cutOff, late, owed>>

ResolveTimeout ==
    /\ job.busy /\ job.asked # {} /\ job.elapsed = Timeout
    /\ job' = [job EXCEPT !.asked = {}]
    /\ UNCHANGED <<stored, blocked, deny, live, cache, age, dns, call, queue,
                   due, raced, cutOff, late, owed>>

\* Mutant: a failed lookup keeps the old addresses with no limit.
CacheAfterForever(n) ==
    IF n \notin job.names THEN {}
    ELSE IF job.answers[n] # {} THEN job.answers[n] ELSE cache[n]

CacheAfter(n) ==
    IF n \notin job.names THEN {}
    ELSE IF job.answers[n] # {} THEN job.answers[n]
    ELSE IF age[n] >= Grace THEN {} ELSE cache[n]

Started == call[Setup].pc = "done"

\* The proxy is told when the refresh changed the list, and by the event
\* with which a command ends, once set-up has started its synchronization.
\* Mutant: the change made by a timer's refresh is not compared.
TellsEdits(who) == who = Setup \/ (Started /\ who # Timer)

Tells(who) == who = Setup \/ (Started /\ (who # Timer \/ live' # live))

\* The end of a refresh, and of the call that asked for it.
ApplyNames(names) ==
    LET who == Head(queue) IN
    /\ job.busy /\ job.asked = {}
    /\ cache' = [n \in Name |-> CacheAfter(n)]
    /\ age' = [n \in Name |->
                 IF job.answers[n] # {} \/ CacheAfter(n) = {} THEN 0
                 ELSE age[n]]
    /\ live' = Parsed(stored) \cup UNION {cache'[n] : n \in names}
    /\ queue' = Tail(queue)
    /\ job' = NoJob
    /\ call' = IF who = Timer THEN call ELSE [call EXCEPT ![who].pc = "done"]
    /\ due' = IF who = Setup THEN Interval ELSE due
    /\ cutOff' = (cutOff /\ job.names # Hostnames(stored))
    /\ owed' = (~Tells(who) /\ (owed \/ live' # live))
    /\ UNCHANGED <<stored, blocked, deny, dns, raced, late>>

\* Mutant: only names that answered this time are trusted.
ApplyAnswered == ApplyNames({n \in job.names : job.answers[n] # {}})

\* Mutant: the addresses go to the cache and not to the live list.
ApplyCacheOnly == ApplyNames({})

Apply == ApplyNames(job.names)

TimerFires ==
    /\ Started /\ due = 0
    /\ due' = Interval
    /\ IF \E i \in DOMAIN queue : queue[i] = Timer
       THEN UNCHANGED <<queue, job>>
       ELSE RequestRefresh(Timer, stored)
    /\ UNCHANGED <<stored, blocked, deny, live, cache, age, dns, call, raced, cutOff,
                   late, owed>>

-----------------------------------------------------------------------------
(* The commands.                                                           *)

Done(c) == call' = [call EXCEPT ![c] = [NoCall EXCEPT !.pc = "done"]]

Wait(c, kind, allow, block) ==
    call' = [call EXCEPT ![c] = [pc |-> "check", kind |-> kind,
                                 seen |-> <<stored, blocked>>,
                                 allow |-> allow, block |-> block]]

\* async_add_allowlist_network up to the lockout check.
AddAllowlist(c, e) ==
    /\ call[c].pc = "new"
    /\ IF e \in stored \/ (e \in Net /\ Covers[e] \cap Banned # {})
       THEN Done(c)
       ELSE Wait(c, "allow", stored \cup {e}, blocked)
    /\ UNCHANGED <<stored, blocked, deny, live, cache, age, dns, queue, job,
                   due, raced, cutOff, late, owed>>

RemoveAllowlist(c, e) ==
    /\ call[c].pc = "new"
    /\ IF e \notin stored THEN Done(c)
       ELSE Wait(c, "disallow", stored \ {e}, blocked)
    /\ UNCHANGED <<stored, blocked, deny, live, cache, age, dns, queue, job,
                   due, raced, cutOff, late, owed>>

AddBlocked(c, e) ==
    /\ call[c].pc = "new" /\ e \in Net
    /\ IF e \in blocked THEN Done(c)
       ELSE Wait(c, "block", stored, blocked \cup {e})
    /\ UNCHANGED <<stored, blocked, deny, live, cache, age, dns, queue, job,
                   due, raced, cutOff, late, owed>>

\* Nothing is checked and nothing is awaited.
RemoveBlocked(c, e) ==
    /\ call[c].pc = "new" /\ e \in blocked
    /\ blocked' = blocked \ {e}
    /\ Done(c)
    /\ owed' = ~Started
    /\ UNCHANGED <<stored, deny, live, cache, age, dns, queue, job, due,
                   raced, cutOff, late>>

\* The lists are no longer those the command read before it waited.
Racing(c) == call[c].seen # <<stored, blocked>>

\* Mutant: the check forgets default deny.
CheckedForBlocks(c) == PathSafe(call[c].allow, call[c].block, FALSE)

Checked(c) == PathSafe(call[c].allow, call[c].block, deny)

CheckFails(c) ==
    /\ call[c].pc = "check" /\ c # Setup /\ ~Checked(c)
    /\ Done(c)
    /\ UNCHANGED <<stored, blocked, deny, live, cache, age, dns, queue, job,
                   due, raced, cutOff, late, owed>>

\* update_allowlist_entry, and on to the refresh.
WriteAllow(c, list) ==
    /\ stored' = list
    /\ live' = Parsed(list)
    /\ call' = [call EXCEPT ![c] = [NoCall EXCEPT !.pc = "refresh"]]
    /\ RequestRefresh(c, list)
    /\ raced' = (raced \/ Racing(c))
    /\ owed' = (owed \/ live' # live)
    /\ UNCHANGED <<blocked, deny, cache, age, dns, due, cutOff, late>>

SaveAllowlist(c) ==
    /\ call[c].pc = "check" /\ call[c].kind \in {"allow", "disallow"}
    /\ Checked(c)
    /\ WriteAllow(c, call[c].allow)

SaveBlocked(c) ==
    /\ call[c].pc = "check" /\ call[c].kind = "block"
    /\ Checked(c)
    /\ blocked' = call[c].block
    /\ Done(c)
    /\ raced' = (raced \/ Racing(c))
    /\ owed' = ~Started
    /\ UNCHANGED <<stored, deny, live, cache, age, dns, queue, job, due,
                   cutOff, late>>

Without(i) == [k \in 1 .. Len(queue) - 1 |->
                 IF k < i THEN queue[k] ELSE queue[k + 1]]

\* A cancelled command: nothing it has written is undone, and the next
\* waiter takes the lock.
Cancel(c) ==
    /\ call[c].pc \in {"check", "refresh"}
    /\ Done(c)
    /\ IF call[c].pc = "check" THEN UNCHANGED <<queue, job, cutOff, late>>
       ELSE /\ \E i \in DOMAIN queue : queue[i] = c /\ queue' = Without(i)
            /\ job' = IF Head(queue) = c THEN NoJob ELSE job
            /\ cutOff' = TRUE
            /\ late' = late + 1
    /\ UNCHANGED <<stored, blocked, deny, live, cache, age, dns, due, raced,
                   owed>>

-----------------------------------------------------------------------------
(* Set-up: the detected defaults, then the first refresh.                  *)

\* async_sync_detected_allowlist_defaults up to the look at the adapters.
Defaults ==
    IF Loopback \in stored /\ LocalDefaults \cap stored # {}
    THEN stored \cup InternalDefaults ELSE stored

SetupReads ==
    /\ call[Setup].pc = "new" /\ Defaults # stored
    /\ Wait(Setup, "defaults", Defaults, blocked)
    /\ UNCHANGED <<stored, blocked, deny, live, cache, age, dns, queue, job,
                   due, raced, cutOff, late, owed>>

SetupWrites ==
    /\ call[Setup].pc = "check"
    /\ WriteAllow(Setup, call[Setup].allow)

SetupSkips ==
    /\ call[Setup].pc = "new" /\ Defaults = stored
    /\ call' = [call EXCEPT ![Setup].pc = "refresh"]
    /\ RequestRefresh(Setup, stored)
    /\ UNCHANGED <<stored, blocked, deny, live, cache, age, dns, due, raced, cutOff,
                   late, owed>>

-----------------------------------------------------------------------------
(* The environment and the specification.                                  *)

DnsChanges(n, answer) ==
    /\ dns' = [dns EXCEPT ![n] = answer]
    /\ UNCHANGED <<stored, blocked, deny, live, cache, age, call, queue, job,
                   due, raced, cutOff, late, owed>>

\* Mutant: the wait for the resolver has no bound.
ReadyUntimed ==
    \/ Started /\ due = 0
    \/ queue # <<>> /\ ~job.busy
    \/ job.busy /\ job.asked = {}

Ready ==
    \/ Started /\ due = 0
    \/ queue # <<>> /\ ~job.busy
    \/ job.busy /\ (job.asked = {} \/ job.elapsed = Timeout)

Tick ==
    /\ ~Ready
    /\ age' = [n \in Name |-> IF cache[n] = {} \/ age[n] = Stale THEN age[n]
                              ELSE age[n] + 1]
    /\ due' = IF Started THEN due - 1 ELSE due
    /\ job' = IF job.busy THEN [job EXCEPT !.elapsed = @ + 1] ELSE job
    /\ UNCHANGED <<stored, blocked, deny, live, cache, dns, call, queue,
                   raced, cutOff, late, owed>>

Init ==
    /\ stored \in SUBSET (Entries \cup {Loopback}) /\ blocked \in SUBSET (Entries \cap Net)
    /\ deny \in BOOLEAN
    /\ PathSafe(stored, blocked, deny)
    /\ live = Parsed(stored)
    /\ cache = [n \in Name |-> {}]
    /\ age = [n \in Name |-> 0]
    /\ dns \in [Name -> Answers]
    /\ call = [c \in Caller |-> NoCall]
    /\ queue = <<>>
    /\ job = NoJob
    /\ due = 0
    /\ raced = FALSE /\ cutOff = FALSE /\ owed = TRUE
    /\ late = 0

Step ==
    \/ NextHolder \/ ResolveTimeout \/ Apply \/ TimerFires
    \/ \E n \in Name : Resolve(n)
    \/ SetupReads \/ SetupWrites \/ SetupSkips
    \/ \E c \in Command :
          CheckFails(c) \/ SaveAllowlist(c) \/ SaveBlocked(c)

Next ==
    \/ Step
    \/ Tick
    \/ \E c \in Command, e \in Entries :
          \/ AddAllowlist(c, e) \/ RemoveAllowlist(c, e)
          \/ AddBlocked(c, e) \/ RemoveBlocked(c, e)
    \/ \E c \in Cancellable : Cancel(c)
    \/ \E n \in Name, answer \in Answers : DnsChanges(n, answer)

Spec == Init /\ [][Next]_vars

\* The event loop runs what is ready, and time passes.
FairSpec ==
    /\ Spec
    /\ WF_vars(NextHolder) /\ WF_vars(Apply)
    /\ WF_vars(ResolveTimeout \/ \E n \in Name : Resolve(n))
    /\ WF_vars(TimerFires) /\ WF_vars(Tick)
    /\ WF_vars(SetupReads) /\ WF_vars(SetupWrites) /\ WF_vars(SetupSkips)
    /\ \A c \in Command :
          WF_vars(CheckFails(c) \/ SaveAllowlist(c) \/ SaveBlocked(c))

-----------------------------------------------------------------------------
(* Properties.                                                             *)

\* As long as no command wrote over a list that had changed since it read
\* it, the lookup refuses no address of a detected subnet that a blocked
\* network overlaps, and under default deny it accepts one whole detected
\* subnet: the lockout check is made on what is saved, before the DNS
\* refresh rebuilds what is enforced.
LocalPathKept ==
    raced \/ /\ \A d \in Detected : Overlapping(blocked, d) =>
                   \A a \in Covers[d] : ~Refused(a)
             /\ deny /\ Detected # {} =>
                   \E d \in Detected : \A a \in Covers[d] : ~Refused(a)

\* The five minutes the documentation gives the last addresses of a name
\* whose lookups fail: no address is trusted through a name longer than the
\* grace after it was resolved.  The code does not keep this: it compares
\* with the grace only at the end of a refresh.
TrustWithinGrace ==
    Started => \A a \in live \cap Addr : \E n \in Name :
        a \in cache[n] /\ age[n] <= Grace

\* What the code does keep.  Once the timer runs, an address that is trusted
\* through a name was resolved no longer ago than the grace, one interval
\* and one resolution, which is longer than the documented five minutes;
\* each cancelled command may hold the lock for one resolution more.
TrustExpires ==
    Started => \A a \in live \cap Addr : \E n \in Name :
        /\ a \in cache[n]
        /\ age[n] <= Grace + Interval + (1 + late) * Timeout

\* Once no refresh is due to an edit, what is enforced is what is saved:
\* the saved networks and the resolved addresses of the saved names, and
\* the cache remembers no other name.
SettledAllowlist ==
    queue = <<>> /\ ~cutOff =>
        /\ live = Parsed(stored) \cup UNION {cache[n] : n \in Hostnames(stored)}
        /\ \A n \in Name : cache[n] # {} => n \in stored

\* After set-up the proxy is told of every change of the live list, by the
\* refresh that follows the edit or by the event at its end; only a
\* cancelled edit leaves it with the old list.
EdgeHearsOfChanges ==
    Started /\ owed => late # 0 \/ \E c \in Command : call[c].pc = "refresh"

\* When the resolver's answers stop changing and come in time, the live list
\* becomes the saved networks and the answers for the saved names, for good.
Wanted == Parsed(stored) \cup UNION {dns[n] : n \in Hostnames(stored)}
TrustFollowsNames ==
    <>[][UNCHANGED dns /\ ~ResolveTimeout]_vars => <>[](live = Wanted)
=============================================================================
