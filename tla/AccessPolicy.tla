---------------------------- MODULE AccessPolicy ----------------------------
(***************************************************************************)
(* One access policy decided in two places: Home Assistant's lookup tests  *)
(* each request, NGINX runs the ordered rules it was last given and, under *)
(* a region lock, asks Home Assistant through a cached, rate-limited       *)
(* subrequest.                                                             *)
(*                                                                         *)
(* Abstracted: the lists are sets of addresses, host names resolved; a     *)
(* request goes to a callback route or to a page; time moves in ticks.     *)
(* NGINX takes the first rule that matches and grants without one.         *)
(***************************************************************************)
EXTENDS Naturals, FiniteSets, Sequences, SequencesExt

CONSTANTS
    Addr, Internal, Private,    \* sources; the bypass networks; not public
    Home,                       \* public ones in an allowed region
    Policies,                   \* policies the owner switches between
    TTL, Window,                \* of an answer, and of the miss limit
    MaxMisses, MaxCached, MaxTracked,   \* limits of the code
    MaxTime, MaxEdits           \* bounds on ticks, and on changes

AccessAssumption ==
    /\ Internal \subseteq Addr /\ Private \subseteq Addr /\ Home \subseteq Addr
    /\ {TTL, Window, MaxMisses, MaxCached, MaxTracked, MaxTime, MaxEdits} \subseteq Nat
    /\ MaxCached > 0 /\ MaxTracked > 0
    /\ Policies \subseteq [bans : SUBSET Addr, networks : SUBSET Addr,
                           allow : SUBSET Addr, deny : BOOLEAN, region : BOOLEAN,
                           callbacks : BOOLEAN, canBan : BOOLEAN]

VARIABLES
    policy, reader, \* the policy applied, and whether the GeoIP reader is open
    object,         \* identity of the lookup
    edge,           \* the policy of the last synchronization
    now, edits,
    cache, misses,  \* of the region check, by address
    answer,         \* its last answer
    said            \* history: what the lookup said of whom, and when

vars == <<policy, reader, object, edge, now, edits, cache, misses, answer, said>>

Time == 0 .. MaxTime
NoAnswer == [of |-> {}, code |-> 0]

IsMap(map, Value, limit) ==
    /\ DOMAIN map \subseteq Addr /\ Cardinality(DOMAIN map) <= limit
    /\ map \in [DOMAIN map -> [place : 1 .. limit, value : Value]]

TypeOK ==
    /\ policy \in Policies /\ edge \in Policies /\ reader \in BOOLEAN
    /\ object \in 0 .. MaxEdits /\ edits \in 0 .. MaxEdits /\ now \in Time
    /\ IsMap(cache, [object : 0 .. MaxEdits, at : Time, blocked : BOOLEAN], MaxCached)
    /\ IsMap(misses, BoundedSeq(Time, MaxMisses), MaxTracked)
    /\ answer \in [of : {{}} \cup {{a} : a \in Addr}, code : {0, 204, 403, 429}]
    /\ said \in [Addr -> SUBSET (Time \X BOOLEAN)]

-----------------------------------------------------------------------------
(* The decision of Home Assistant, and of the proxy.                       *)

\* geoip_regions_allow_ip: without the database no public address is allowed.
RegionAllows(a) == a \in Private \/ (reader /\ a \in Home)

\* NetworkAwareBanLookup.__contains__.
InLookup(a, callback) ==
    /\ a \notin Internal
    /\ \/ a \in policy.bans
       \/ /\ ~(callback /\ policy.callbacks)
          /\ a \notin policy.allow
          /\ (policy.region /\ ~RegionAllows(a)) \/ a \in policy.networks \/ policy.deny

\* Mutant: trust comes first whatever the setting.
RulesTrustFirst(p) ==
    <<[deny |-> FALSE, of |-> p.allow],
      [deny |-> TRUE, of |-> p.bans], [deny |-> TRUE, of |-> p.networks]>>
      \o IF p.deny THEN <<[deny |-> TRUE, of |-> Addr]>> ELSE <<>>

\* _policy_rules: what is trusted and what is banned, by the setting.
Rules(p) ==
    LET allows == <<[deny |-> FALSE, of |-> p.allow]>>
        denies == <<[deny |-> TRUE, of |-> p.bans], [deny |-> TRUE, of |-> p.networks]>>
    IN  (IF p.canBan THEN denies \o allows ELSE allows \o denies)
          \o IF p.deny THEN <<[deny |-> TRUE, of |-> Addr]>> ELSE <<>>

\* _callback_location_rules.
CallbackRules(p) ==
    <<[deny |-> TRUE, of |-> p.bans], [deny |-> FALSE, of |-> Addr]>>

Denied(rules, a) ==
    LET first == SelectInSeq(rules, LAMBDA rule : a \in rule.of)
    IN  first # 0 /\ rules[first].deny

\* The location of a callback has rules of its own and no subrequest.
EdgeDenies(a, callback, refused) ==
    IF callback /\ edge.callbacks THEN Denied(CallbackRules(edge), a)
    ELSE Denied(Rules(edge), a) \/ (edge.region /\ refused)

-----------------------------------------------------------------------------
(* The region check.                                                       *)

\* The maps keep the order of insertion: each entry has its place.
NoEntries == [a \in {} |-> 0]
Only(map, kept) ==
    [a \in kept |-> [map[a] EXCEPT !.place =
        Cardinality({b \in kept : map[b].place <= map[a].place})]]

Put(map, a, value) ==
    [b \in DOMAIN map \cup {a} |->
        IF b # a THEN map[b]
        ELSE [value |-> value,
              place |-> IF a \in DOMAIN map THEN map[a].place
                        ELSE Cardinality(DOMAIN map) + 1]]

\* A full map: half of what is stale goes, and the oldest if it still is full.
MakeRoom(map, stale, limit) ==
    LET Older(a, set) == {b \in set : map[b].place < map[a].place}
        half == IF Cardinality(stale) < 2 THEN 1 ELSE Cardinality(stale) \div 2
        kept == DOMAIN map \ {a \in stale : Cardinality(Older(a, stale)) < half}
        oldest == {a \in kept : Older(a, kept) = {}}
    IN  IF Cardinality(DOMAIN map) < limit THEN map
        ELSE Only(map, IF Cardinality(kept) < limit THEN kept ELSE kept \ oldest)

\* Mutant: an answer is reused whatever lookup gave it.
CachedAnyLookup(e) == now - e.at <= TTL

Cached(e) == e.object = object /\ now - e.at <= TTL

\* The oldest misses go first.
Recent(times) ==
    LET first == SelectInSeq(times, LAMBDA t : now - t <= Window)
    IN  IF first = 0 THEN <<>> ELSE SubSeq(times, first, Len(times))
Idle(times) == times = <<>> \/ now - times[Len(times)] > Window

\* Mutant: no room is made for a new client.
TrackedForever(a) ==
    IF a \in DOMAIN misses THEN misses ELSE Put(misses, a, <<>>)

Tracked(a) ==
    IF a \in DOMAIN misses THEN misses
    ELSE LET idle == {b \in DOMAIN misses : Idle(misses[b].value)}
         IN  Put(MakeRoom(misses, idle, MaxTracked), a, <<>>)

Reply(a, code) == answer' = [of |-> {a}, code |-> code]

\* async_handle_npm_region_authorize_get, with the secret.
Authorize(a) ==
    LET cached == a \in DOMAIN cache /\ Cached(cache[a].value)
        expired == {b \in DOMAIN cache : ~Cached(cache[b].value)}
        tracked == Tracked(a)
        recent == Recent(tracked[a].value)
        blocked == InLookup(a, FALSE)
        Missed(times) == misses' = Put(tracked, a, times)
    IN  /\ edge.region
        /\ \/ /\ cached
              /\ Reply(a, IF cache[a].value.blocked THEN 403 ELSE 204)
              /\ UNCHANGED <<cache, misses>>
           \/ /\ ~cached /\ Len(recent) >= MaxMisses
              /\ Missed(recent) /\ Reply(a, 429)
              /\ UNCHANGED cache
           \/ /\ ~cached /\ Len(recent) < MaxMisses
              /\ Missed(Append(recent, now))
              /\ cache' = Put(MakeRoom(cache, expired, MaxCached), a,
                              [object |-> object, at |-> now, blocked |-> blocked])
              /\ Reply(a, IF blocked THEN 403 ELSE 204)
        /\ UNCHANGED <<policy, reader, object, edge, now, edits, said>>

-----------------------------------------------------------------------------
Note(kept) == said' = [a \in Addr |-> kept[a] \cup {<<now', InLookup(a, FALSE)'>>}]
Changed == edits < MaxEdits /\ edits' = edits + 1 /\ answer' = NoAnswer

\* A setting, a list or a ban changes: the lookup is changed in place.
Edit(p) ==
    /\ \E field \in DOMAIN p : p = [policy EXCEPT ![field] = p[field]]
    /\ p # policy /\ policy' = p
    /\ Changed
    /\ UNCHANGED <<reader, object, edge, now, cache, misses>>
    /\ Note(said)

\* The reader is opened or closed: the lookup asks it each time.
Reader ==
    /\ Changed /\ reader' = ~reader
    /\ UNCHANGED <<policy, object, edge, now, cache, misses>>
    /\ Note(said)

\* The ban file is loaded: a new lookup.
Reload ==
    /\ Changed /\ object' = object + 1
    /\ UNCHANGED <<policy, reader, edge, now, cache, misses>>
    /\ Note([a \in Addr |-> {}])

\* The rules of the policy reach the proxy.
Sync ==
    /\ edge' = policy /\ answer' = NoAnswer
    /\ UNCHANGED <<policy, reader, object, now, edits, cache, misses, said>>

Tick ==
    /\ now < MaxTime /\ now' = now + 1 /\ answer' = NoAnswer
    /\ UNCHANGED <<policy, reader, object, edge, edits, cache, misses>>
    /\ Note([a \in Addr |-> {s \in said[a] : now' - s[1] <= TTL}])

Init ==
    /\ policy \in Policies /\ edge = policy /\ reader \in BOOLEAN
    /\ object = 0 /\ now = 0 /\ edits = 0
    /\ cache = NoEntries /\ misses = NoEntries /\ answer = NoAnswer
    /\ said = [a \in Addr |-> {<<0, InLookup(a, FALSE)>>}]

Next ==
    \/ Reader \/ Reload \/ Sync \/ Tick
    \/ \E a \in Addr : Authorize(a)
    \/ \E p \in Policies : Edit(p)

Spec == Init /\ [][Next]_vars

-----------------------------------------------------------------------------
(* Properties.                                                             *)

\* Where the two apply their rules in different orders: the lookup lets an
\* exact ban come before trust and trust before a blocked network; the proxy
\* lets both come before trust, or neither, by one setting.
OrdersDiffer(a, callback) ==
    /\ a \in policy.allow /\ ~(callback /\ policy.callbacks)
    /\ IF policy.canBan THEN a \in policy.networks \ policy.bans
       ELSE a \in policy.bans /\ ~policy.region

\* Once synchronized the proxy refuses what Home Assistant refuses, on pages
\* and on callbacks, for every address it does not know to be internal,
\* except where the orders of the rules differ: there it decides the other
\* way.  With bans of trusted sources allowed it refuses a trusted address
\* of a blocked network that Home Assistant admits; without, it admits a
\* trusted address with an exact ban that Home Assistant refuses, unless
\* the region check refuses it (nginx_proxy_manager.py:916-920).
EdgeAgrees ==
    edge = policy =>
        \A a \in Addr \ Internal, callback \in BOOLEAN :
            OrdersDiffer(a, callback) <=>
                ~(EdgeDenies(a, callback, InLookup(a, FALSE)) <=> InLookup(a, callback))

\* The region check answers what the lookup of now has said within the
\* lifetime of an answer, whatever was evicted or changed in place; of a
\* lookup that was replaced it says nothing.
AnswersAreFresh ==
    answer.code \in {204, 403} =>
        \A a \in answer.of : \E s \in said[a] :
            now - s[1] <= TTL /\ (s[2] <=> answer.code = 403)
=============================================================================
