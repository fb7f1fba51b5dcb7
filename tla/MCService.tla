------------------------------ MODULE MCService ------------------------------
(* Model checking of Service: a public and an internal source. *)
EXTENDS Service

CONSTANTS near, self

MCSource == {near, self}
JustNear == {near}
JustSelf == {self}
MCMaxCount == [a \in MCSource |-> IF a = near THEN 2 ELSE 1]

\* Thresholds of two, a regional one of one, automatic bans off, a trusted
\* source that may and one that may not be banned, notices on and off.
Plain == [allow |-> {}, canBan |-> FALSE, auto |-> TRUE, limit |-> 2,
          regional |-> NoLimit, notify |-> TRUE, logins |-> TRUE]
Trusting == [Plain EXCEPT !.allow = {near}]
MCRules == {[Plain EXCEPT !.regional = 1], Trusting,
            [Trusting EXCEPT !.auto = FALSE], [Trusting EXCEPT !.canBan = TRUE],
            [Trusting EXCEPT !.notify = FALSE], [Trusting EXCEPT !.logins = FALSE]}

\* Policies about one public address; left out are blocked networks under
\* default deny, and some of the combinations under a region lock.
AllPolicies ==
    {p \in [bans : SUBSET {near}, networks : SUBSET {near}, allow : SUBSET {near},
            deny : BOOLEAN, region : BOOLEAN, callbacks : BOOLEAN, canBan : BOOLEAN] :
        /\ ~(p.deny /\ p.networks # {}) /\ (p.region => p.callbacks)
        /\ p.region /\ p.canBan => p.allow # {} /\ p.bans # {}}
=============================================================================
