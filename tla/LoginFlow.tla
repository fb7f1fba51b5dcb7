------------------------------ MODULE LoginFlow ------------------------------
(***************************************************************************)
(* The wrong-login hook: counters, thresholds, the escalation of a trusted *)
(* source and the automatic ban, over the awaits between a failed login    *)
(* and its consequence; and the one failed-login notice, which the next    *)
(* failure of any source replaces.                                         *)
(*                                                                         *)
(* Abstracted: the add hook is one step under its lock (ExactBans has the  *)
(* append), a notice is the source it names, the notice of a ban is left   *)
(* out, and a rule of the region lock or a missing GeoIP database is the   *)
(* override or its absence.                                                *)
(***************************************************************************)
EXTENDS Naturals, FiniteSets

CONSTANTS
    Addr, Internal, Abroad, \* sources; never banned; with a regional override
    Request,                \* concurrent failed logins
    Rules,                  \* settings the owner switches between
    NoLimit,                \* no regional override
    EscalateAt,             \* ALLOWLISTED_LOGIN_ESCALATION_THRESHOLD
    MaxCount, MaxEdits      \* bounds on the failures of each source, and on edits

LoginAssumption ==
    /\ Addr # {} /\ Internal \subseteq Addr /\ Abroad \subseteq Addr
    /\ IsFiniteSet(Request)
    /\ NoLimit \notin Nat /\ EscalateAt \in Nat \ {0}
    /\ MaxCount \in [Addr -> Nat] /\ MaxEdits \in Nat
    /\ Rules \subseteq [allow : SUBSET Addr, canBan : BOOLEAN, auto : BOOLEAN,
                        limit : Nat, regional : Nat \cup {NoLimit},
                        notify : BOOLEAN, logins : BOOLEAN]

VARIABLES
    rules, edits,       \* settings in force
    counter,            \* KEY_FAILED_LOGIN_ATTEMPTS
    banned, unbanning,  \* exact bans; removals that wait for their write
    request,            \* failed logins in flight
    notice,             \* the source NOTIFICATION_ID_LOGIN names, if it stands
    silenced,           \* CONF_SILENCED_ALLOWLISTED_LOGIN_IPS
    again,              \* a rewriting of the notice is scheduled
    stale,              \* history: the notice outlived what it was shown for
    escalated,          \* history: escalation events since the last reset
    excused             \* history: what the properties allow for, per source

notices == <<notice, silenced, again, stale>>
vars == <<rules, edits, counter, banned, unbanning, request, notices, escalated, excused>>

Limits == {0} \cup {r.limit : r \in Rules} \cup {r.regional : r \in Rules}
NoRequest(a) == [pc |-> "idle", of |-> a, limit |-> NoLimit]

TypeOK ==
    /\ rules \in Rules /\ edits \in 0 .. MaxEdits
    /\ counter \in [Addr -> Nat] /\ escalated \in [Addr -> Nat]
    /\ \A a \in Addr : counter[a] <= MaxCount[a] /\ escalated[a] <= MaxCount[a] + 1
    /\ banned \subseteq Addr \ Internal /\ unbanning \subseteq Addr
    /\ request \in [Request -> [pc : {"idle", "trusted", "regional", "native", "add"},
                                of : Addr, limit : Limits \cup {NoLimit}]]
    /\ excused \in [Addr -> SUBSET {"edited", "reset", "offpath", "frozen", "muted"}]
    /\ notice \subseteq Addr /\ Cardinality(notice) <= 1 /\ silenced \subseteq Addr
    /\ again \in BOOLEAN /\ stale \in BOOLEAN

Protected(a) == a \in rules.allow /\ ~rules.canBan

\* regional_login_threshold_for_ip.
Regional(a) == IF rules.auto /\ a \in Abroad THEN rules.regional ELSE NoLimit

\* effective_login_threshold, and effective_login_threshold_for_ip.
Live == IF rules.auto THEN rules.limit ELSE 0
Limit(a) == IF Regional(a) = NoLimit THEN Live ELSE Regional(a)

InFlight(a) == {r \in Request : request[r].pc # "idle" /\ request[r].of = a}
Adding(a) == \E r \in InFlight(a) : request[r].pc = "add"
Excuse(a, facts) == excused' = [excused EXCEPT ![a] = @ \cup facts]
Finish(r) == request' = [request EXCEPT ![r].pc = "idle"]

\* should_notify_allowlisted_login.
Notifies(a, attempts) ==
    a \notin silenced /\ (attempts >= EscalateAt \/ rules.logins)

\* A notice about source a replaces the one that stands.
Show(a) == notice' = {a} /\ stale' = FALSE

\* handle_http_notifications: the notice is linked to the panel, or dismissed.
Rewrite(shown, counts, later) ==
    /\ notice' = {a \in shown : rules.notify /\
                      (a \in rules.allow => Notifies(a, counts[a]))}
    /\ again' = later /\ stale' = FALSE /\ UNCHANGED silenced

\* The notice is dismissed if it is about one of the sources.
Dismiss(sources) ==
    notice' = notice \ sources /\ stale' = (stale /\ notice' # {})

-----------------------------------------------------------------------------
\* _allowlist_process_wrong_login: the path, and a regional threshold, are
\* chosen before the names of the source are looked up.  A banned source
\* does not come this far.
Fail(r, a) ==
    /\ request[r].pc = "idle" /\ a \notin banned
    /\ counter[a] + Cardinality(InFlight(a)) < MaxCount[a]
    /\ request' = [request EXCEPT ![r] =
           [of |-> a, limit |-> IF Protected(a) THEN NoLimit ELSE Regional(a),
            pc |-> IF Protected(a) THEN "trusted"
                   ELSE IF Regional(a) # NoLimit THEN "regional" ELSE "native"]]
    /\ UNCHANGED <<rules, edits, counter, banned, unbanning, notices, escalated, excused>>

\* Mutant: every failure from the tenth on escalates.
EscalatesAgain(attempts) == attempts >= EscalateAt

\* create_allowlisted_login_notification.
Escalates(attempts) == attempts = EscalateAt

\* _process_allowlisted_wrong_login, once the names are looked up: settings,
\* threshold and silence are those of the moment.
TrustedFails(r) ==
    LET a == request[r].of
        attempts == counter[a] + IF Limit(a) >= 1 THEN 1 ELSE 0
    IN  /\ request[r].pc = "trusted" /\ Finish(r)
        /\ counter' = [counter EXCEPT ![a] = attempts]
        /\ escalated' = [escalated EXCEPT ![a] =
                            IF rules.notify /\ Escalates(attempts) /\ @ <= MaxCount[a]
                            THEN @ + 1 ELSE @]
        /\ Excuse(a, {m \in {"frozen"} : attempts = EscalateAt /\ Limit(a) = 0}
                     \cup {m \in {"muted"} : attempts = EscalateAt /\ ~rules.notify})
        /\ IF rules.notify /\ Notifies(a, attempts) THEN Show(a)
           ELSE UNCHANGED <<notice, stale>>
        /\ UNCHANGED <<rules, edits, banned, unbanning, silenced, again>>

\* A failure is announced, and counted under a limit; with the limit reached
\* the source is to be banned, and the notice waits for that as it is.
Count(r, limit, exempt) ==
    LET a == request[r].of
        attempts == counter[a] + IF limit < 1 THEN 0 ELSE 1
        ban == limit >= 1 /\ attempts >= limit /\ a \notin exempt
    IN  /\ counter' = [counter EXCEPT ![a] = attempts]
        /\ Excuse(a, {m \in {"offpath"} : limit >= 1 /\ attempts = EscalateAt})
        /\ IF ban THEN /\ request' = [request EXCEPT ![r].pc = "add"]
                       /\ Show(a) /\ UNCHANGED <<silenced, again>>
           ELSE Finish(r) /\ Rewrite({a}, counter', TRUE)

RegionalFails(r) ==
    /\ request[r].pc = "regional"
    /\ Count(r, request[r].limit, Internal)
    /\ UNCHANGED <<rules, edits, banned, unbanning, escalated>>

\* Home Assistant's own handler, with the threshold of the moment.
NativeFails(r) ==
    /\ request[r].pc = "native"
    /\ Count(r, Live, {})
    /\ UNCHANGED <<rules, edits, banned, unbanning, escalated>>

\* The add hook under its lock decides with the settings of the moment.  The
\* notice that stands by then is rewritten.
AddBan(r) ==
    LET a == request[r].of
    IN  /\ request[r].pc = "add" /\ Finish(r)
        /\ banned' = IF a \in Internal \/ Protected(a) THEN banned ELSE banned \cup {a}
        /\ Rewrite(notice, counter, TRUE)
        /\ UNCHANGED <<rules, edits, counter, unbanning, escalated, excused>>

\* _schedule_http_notification_rewrite: once more, in the next turn.
RewriteAgain ==
    /\ again /\ Rewrite(notice, counter, FALSE)
    /\ UNCHANGED <<rules, edits, counter, banned, unbanning, request, escalated, excused>>

-----------------------------------------------------------------------------
\* The counter of a source is dropped.
Reset(a) ==
    /\ counter' = [counter EXCEPT ![a] = 0]
    /\ escalated' = [escalated EXCEPT ![a] = 0]
    /\ excused' = [excused EXCEPT ![a] =
                      (IF InFlight(a) = {} THEN {} ELSE @)
                        \cup {m \in {"reset"} : Adding(a) \/ a \in banned}]

\* Home Assistant resets the counter after a login that succeeds.
Succeed(a) ==
    /\ Live >= 1 /\ counter[a] > 0
    /\ Reset(a) /\ stale' = (stale \/ a \in notice)
    /\ UNCHANGED <<rules, edits, banned, unbanning, request, notice, silenced, again>>

\* A ban is removed: the counter goes when the file is written.
Unban(a) ==
    /\ a \in banned \ unbanning
    /\ banned' = banned \ {a} /\ unbanning' = unbanning \cup {a}
    /\ UNCHANGED <<rules, edits, counter, request, notices, escalated, excused>>

Unbanned(a) ==
    /\ a \in unbanning /\ unbanning' = unbanning \ {a}
    /\ Reset(a) /\ Dismiss({a})
    /\ UNCHANGED <<rules, edits, banned, request, silenced, again>>

\* Settings change, the allowlist among them.
Edit(r) ==
    /\ edits < MaxEdits /\ r # rules
    /\ edits' = edits + 1 /\ rules' = r
    /\ excused' = [a \in Addr |-> excused[a] \cup
                      {m \in {"edited"} : counter[a] > 0 \/ InFlight(a) # {}}]
    /\ notice' = (IF r.notify THEN notice ELSE {}) /\ stale' = (notice' # {})
    /\ UNCHANGED <<counter, banned, unbanning, request, silenced, again, escalated>>

\* The owner follows the link of a notice, or unsilences a source in the panel.
Silence(a) ==
    /\ edits < MaxEdits /\ a \notin silenced
    /\ edits' = edits + 1
    /\ silenced' = silenced \cup {a} /\ Dismiss({a})
    /\ UNCHANGED <<rules, counter, banned, unbanning, request, again, escalated, excused>>

Unsilence(a) ==
    /\ edits < MaxEdits /\ a \in silenced
    /\ edits' = edits + 1 /\ silenced' = silenced \ {a}
    /\ UNCHANGED <<rules, counter, banned, unbanning, request, notice, again, stale,
                   escalated, excused>>

\* The silence request without an address: no notices of trusted sources.
SilenceAll ==
    LET quiet == [rules EXCEPT !.logins = FALSE]
    IN  /\ edits < MaxEdits /\ quiet \in Rules \ {rules}
        /\ edits' = edits + 1 /\ rules' = quiet /\ Dismiss(Addr)
        /\ UNCHANGED <<counter, banned, unbanning, request, silenced, again,
                       escalated, excused>>

-----------------------------------------------------------------------------
Init ==
    /\ rules \in Rules /\ edits = 0
    /\ counter = [a \in Addr |-> 0]
    /\ banned = {} /\ unbanning = {}
    /\ request = [r \in Request |-> NoRequest(CHOOSE a \in Addr : TRUE)]
    /\ notice = {} /\ silenced \in SUBSET rules.allow
    /\ again = FALSE /\ stale = FALSE
    /\ escalated = [a \in Addr |-> 0] /\ excused = [a \in Addr |-> {}]

Next ==
    \/ \E r \in Request, a \in Addr : Fail(r, a)
    \/ \E r \in Request :
          TrustedFails(r) \/ RegionalFails(r) \/ NativeFails(r) \/ AddBan(r)
    \/ \E a \in Addr : Succeed(a) \/ Unban(a) \/ Unbanned(a)
    \/ \E a \in UNION {r.allow : r \in Rules} : Silence(a) \/ Unsilence(a)
    \/ \E r \in Rules : Edit(r)
    \/ SilenceAll \/ RewriteAgain

Spec == Init /\ [][Next]_vars

-----------------------------------------------------------------------------
(* Properties.                                                             *)

\* With none of its failures in flight, a source that can be banned is
\* banned if and only if its count has reached its threshold, however the
\* requests overlapped: unless settings changed on the way, or the counter
\* was dropped under a ban that was being added or stood.
CountsMeetBans ==
    \A a \in Addr \ unbanning :
        InFlight(a) = {} /\ excused[a] \cap {"edited", "reset"} = {}
          /\ ~Protected(a) /\ a \notin Internal =>
              (a \in banned <=> Limit(a) >= 1 /\ counter[a] >= Limit(a))

\* A trusted source whose count has reached ten was announced exactly once,
\* unless the tenth failure was counted while it was not trusted or while
\* notices were off, or fell on a count that automatic banning does not raise.
EscalatedOnce ==
    \A a \in Addr : excused[a] \cap {"offpath", "frozen", "muted"} = {} =>
        escalated[a] = IF counter[a] >= EscalateAt THEN 1 ELSE 0

\* With no ban being added, the notice that stands is one the owner wants: none
\* with notices off, none of a trusted source that is silenced or below ten
\* failures when its notices are off; however a silence, a failure in flight and
\* the rewriting of another's notice overlapped, unless what it was shown for
\* changed under it.
NoticeWanted ==
    (\A a \in Addr : ~Adding(a)) /\ ~stale =>
        \A a \in notice : rules.notify /\
            (a \in rules.allow =>
                a \notin silenced /\ (counter[a] >= EscalateAt \/ rules.logins))

\* Every failed login has the consequence its count and the settings call for.
FailuresAnswered == CountsMeetBans /\ EscalatedOnce /\ NoticeWanted
=============================================================================
