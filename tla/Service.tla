------------------------------- MODULE Service -------------------------------
(***************************************************************************)
(* Four parts of the running service, side by side: Lifecycle (extended),  *)
(* ActivityHistory, LoginFlow and AccessPolicy.  The parts share no        *)
(* variable, so `focus' picks the part that moves and the state spaces add *)
(* up instead of multiplying; the others stay as they started.             *)
(*                                                                         *)
(* Two parts list what the code lets happen in `marks'.  The history is    *)
(* followed up to the first such event, the lifecycle further: what is in  *)
(* flight then ends, and nothing new begins.                               *)
(***************************************************************************)
EXTENDS Lifecycle, Sequences

CONSTANTS
    Event, Clear, Flush, MaxSessions, MaxSaves,         \* of ActivityHistory
    Source, Internal,                                   \* of the next two
    Abroad, Request, RuleSets, NoLimit, EscalateAt,     \* of LoginFlow
    MaxCount, MaxRuleEdits,
    Private, Home, Policies, TTL, Window, MaxMisses,    \* of AccessPolicy
    MaxCached, MaxTracked, MaxTime, MaxPolicyEdits

VARIABLES
    focus,
    phase, session, listening, loaded, memory, cut, disk, writes, load, loadKey,
    save, saveKey, drain, fetching, happened, aged, promised, gone, excuses,
    rules, edits, counter, banned, unbanning, request, notice, silenced, again, stale,
    escalated, excused,
    policy, open, object, edge, now, changes, cache, misses, answer, said

history == <<phase, session, listening, loaded, memory, cut, disk, writes, load,
             loadKey, save, saveKey, drain, fetching, happened, aged, promised,
             gone, excuses>>
login == <<rules, edits, counter, banned, unbanning, request, notice, silenced, again,
           stale, escalated, excused>>
access == <<policy, open, object, edge, now, changes, cache, misses, answer, said>>

H == INSTANCE ActivityHistory WITH marks <- excuses
F == INSTANCE LoginFlow WITH
        Addr <- Source, Rules <- RuleSets, MaxEdits <- MaxRuleEdits
G == INSTANCE AccessPolicy WITH
        Addr <- Source, MaxEdits <- MaxPolicyEdits, reader <- open, edits <- changes

ASSUME ServiceAssumption ==
    H!ActivityAssumption /\ F!LoginAssumption /\ G!AccessAssumption

Part(name, next) == focus = name /\ next /\ focus' = focus

ServiceInit ==
    /\ focus \in {"lifecycle", "history", "login", "access"}
    /\ Init /\ (focus # "lifecycle" => disabled /\ manager /\ geo = "off")
    /\ H!Init
    /\ F!Init /\ (focus # "login" => rules = CHOOSE r \in RuleSets : TRUE)
    /\ G!Init
    /\ focus # "access" =>
          /\ policy = CHOOSE p \in Policies : TRUE
          /\ ~open

ServiceRun == Part("lifecycle", Run) /\ UNCHANGED <<history, login, access>>
ServiceNext ==
    \/ ServiceRun
    \/ Part("lifecycle", marks = {} /\ Next) /\ UNCHANGED <<history, login, access>>
    \/ Part("history", excuses = {} /\ H!Next) /\ UNCHANGED <<vars, login, access>>
    \/ Part("login", F!Next) /\ UNCHANGED <<vars, history, access>>
    \/ Part("access", G!Next) /\ UNCHANGED <<vars, history, login>>

service == <<focus, vars, history, login, access>>
ServiceSpec ==
    ServiceInit /\ [][ServiceNext]_service /\ WF_service(ServiceRun)

\* What is claimed of a part while it is the one that moves.
While(name, property) == focus = name => property

\* The type invariants of the four parts.
ServiceTypeOK ==
    /\ While("lifecycle", TypeOK) /\ While("history", H!TypeOK)
    /\ While("login", F!TypeOK) /\ While("access", G!TypeOK)

\* ActivityHistory: what a clear removed stays away (activity.py).
ClearedStaysCleared == While("history", H!ClearedStaysCleared)

\* ActivityHistory: a clean unload or stop leaves every event in the file.
FlushKeepsHistory == While("history", H!FlushKeepsHistory)

\* LoginFlow: bans and escalations follow the counts (http_patches.py).
FailuresAnswered == While("login", F!FailuresAnswered)

\* AccessPolicy: the proxy's rules and the lookup decide alike.
EdgeAgrees == While("access", G!EdgeAgrees)

\* AccessPolicy: the region check never answers from longer ago than its
\* lifetime, or from a lookup that was replaced (http_views.py).
AnswersAreFresh == While("access", G!AnswersAreFresh)
=============================================================================
