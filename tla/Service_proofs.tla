--------------------------- MODULE Service_proofs ---------------------------
(***************************************************************************)
(* Proofs about Service, for every value of its constants: each part keeps *)
(* an inductive invariant of its own, and a step of another part leaves    *)
(* its variables alone.                                                    *)
(*                                                                         *)
(*   - AccessPolicy: what the proxy's rules and the lookup decide, and the *)
(*     region check's cache and record of misses as bounded ordered maps;  *)
(*   - LoginFlow: the theorems of LoginFlow_proofs, instantiated;          *)
(*   - ActivityHistory: HistoryInv, in layers that hold as long as what    *)
(*     the code lets happen has not happened;                              *)
(*   - Lifecycle: the invariants of Lifecycle_proofs.                      *)
(***************************************************************************)
EXTENDS Service, Lifecycle_proofs, SequenceTheorems, FiniteSetTheorems, WellFoundedInduction, TLAPS

-----------------------------------------------------------------------------
(* The first rule that matches.                                            *)

\* The rule with index i is the first of the list that matches.
First(list, a, i) ==
    i \in 1 .. Len(list) /\ a \in list[i].of /\ \A j \in 1 .. i - 1 : a \notin list[j].of

LEMMA FirstDecides ==
    ASSUME NEW list, NEW a, Len(list) \in Nat, NEW i, First(list, a, i)
    PROVE  G!Denied(list, a) <=> list[i].deny
  <1> DEFINE matching == {k \in 1 .. Len(list) : a \in list[k].of}
  <1>1. i \in matching /\ \A k \in matching : i <= k
    BY DEF First
  <1>2. G!Min(matching) = i
    <2>1. \A k \in matching : (\A l \in matching : k <= l) => k = i
      BY <1>1
    <2> QED
      BY <1>1, <2>1 DEF G!Min
  <1>3. G!SelectInSeq(list, LAMBDA rule : a \in rule.of) = i
    BY <1>1, <1>2 DEF G!SelectInSeq
  <1> QED
    BY <1>1, <1>3 DEF G!Denied

LEMMA NoneGrants ==
    ASSUME NEW list, NEW a, \A i \in 1 .. Len(list) : a \notin list[i].of
    PROVE  ~ G!Denied(list, a)
  <1>1. G!SelectInSeq(list, LAMBDA rule : a \in rule.of) = 0
    BY DEF G!SelectInSeq
  <1> QED
    BY <1>1 DEF G!Denied

Policy == [bans : SUBSET Source, networks : SUBSET Source, allow : SUBSET Source,
           deny : BOOLEAN, region : BOOLEAN, callbacks : BOOLEAN, canBan : BOOLEAN]

LEMMA Joined ==
    ASSUME NEW S, NEW a \in S, NEW b \in S, NEW c \in S
    PROVE  /\ LET r == <<a, b>> \o <<c>>
              IN  r \in Seq(S) /\ Len(r) = 3 /\ r[1] = a /\ r[2] = b /\ r[3] = c
           /\ LET r == <<a>> \o <<b, c>>
              IN  r \in Seq(S) /\ Len(r) = 3 /\ r[1] = a /\ r[2] = b /\ r[3] = c
  <1>1. <<a, b>> \in Seq(S) /\ <<c>> \in Seq(S) /\ <<a>> \in Seq(S) /\ <<b, c>> \in Seq(S)
    OBVIOUS
  <1>2. LET r == <<a, b>> \o <<c>>
        IN  r \in Seq(S) /\ Len(r) = 3 /\ r[1] = a /\ r[2] = b /\ r[3] = c
    BY <1>1, ConcatProperties
  <1>3. LET r == <<a>> \o <<b, c>>
        IN  r \in Seq(S) /\ Len(r) = 3 /\ r[1] = a /\ r[2] = b /\ r[3] = c
    BY <1>1, ConcatProperties
  <1> QED
    BY <1>2, <1>3

LEMMA OneMore ==
    ASSUME NEW S, NEW s \in Seq(S), NEW d \in S, Len(s) = 3
    PROVE  LET r == s \o <<d>>
           IN  Len(r) = 4 /\ r[1] = s[1] /\ r[2] = s[2] /\ r[3] = s[3] /\ r[4] = d
  <1> DEFINE one == <<d>>
  <1>1. one \in Seq(S) /\ Len(one) = 1 /\ one[1] = d
    OBVIOUS
  <1> HIDE DEF one
  <1>2. /\ Len(s \o one) = Len(s) + Len(one)
        /\ \A i \in 1 .. Len(s) + Len(one) :
              (s \o one)[i] = IF i <= Len(s) THEN s[i] ELSE one[i - Len(s)]
    BY <1>1, ConcatProperties, Zenon
  <1>3. /\ (s \o one)[1] = s[1] /\ (s \o one)[2] = s[2] /\ (s \o one)[3] = s[3]
        /\ (s \o one)[4] = one[1]
    BY <1>1, <1>2
  <1> QED
    BY <1>1, <1>2, <1>3 DEF one

\* Three list, and a fourth under default deny.
Is(rule, deny, of) == rule = [deny |-> deny, of |-> of]
LEMMA RulesAre ==
    ASSUME NEW p \in Policy
    PROVE  LET r == G!Rules(p)
           IN  /\ Len(r) = IF p.deny THEN 4 ELSE 3
               /\ IF p.canBan
                  THEN Is(r[1], TRUE, p.bans) /\ Is(r[2], TRUE, p.networks)
                         /\ Is(r[3], FALSE, p.allow)
                  ELSE Is(r[1], FALSE, p.allow) /\ Is(r[2], TRUE, p.bans)
                         /\ Is(r[3], TRUE, p.networks)
               /\ p.deny => Is(r[4], TRUE, Source)
  <1> DEFINE S == [deny : BOOLEAN, of : SUBSET Source]
             allow == [deny |-> FALSE, of |-> p.allow]
             ban == [deny |-> TRUE, of |-> p.bans]
             block == [deny |-> TRUE, of |-> p.networks]
             all == [deny |-> TRUE, of |-> Source]
             order == IF p.canBan THEN <<ban, block>> \o <<allow>> ELSE <<allow>> \o <<ban, block>>
  <1>1. allow \in S /\ ban \in S /\ block \in S /\ all \in S
    BY DEF Policy
  <1>2. G!Rules(p) = order \o (IF p.deny THEN <<all>> ELSE <<>>)
    BY DEF G!Rules
  <1>3. Is(allow, FALSE, p.allow) /\ Is(ban, TRUE, p.bans) /\ Is(block, TRUE, p.networks)
          /\ Is(all, TRUE, Source)
    BY DEF Is
  <1> HIDE DEF S, allow, ban, block, all
  <1>4. /\ order \in Seq(S) /\ Len(order) = 3
        /\ p.canBan => order[1] = ban /\ order[2] = block /\ order[3] = allow
        /\ ~ p.canBan => order[1] = allow /\ order[2] = ban /\ order[3] = block
    <2>1. CASE p.canBan
      BY <1>1, <2>1, Joined
    <2>2. CASE ~ p.canBan
      BY <1>1, <2>2, Joined
    <2> QED
      BY <2>1, <2>2
  <1> HIDE DEF order
  <1>5. CASE p.deny
    <2>1. G!Rules(p) = order \o <<all>>
      BY <1>2, <1>5
    <2>2. LET r == order \o <<all>>
          IN  Len(r) = 4 /\ r[1] = order[1] /\ r[2] = order[2] /\ r[3] = order[3] /\ r[4] = all
      BY <1>1, <1>4, OneMore
    <2> QED
      BY <1>3, <1>4, <1>5, <2>1, <2>2
  <1>6. CASE ~ p.deny
    <2>1. G!Rules(p) = order
      BY <1>2, <1>4, <1>6
    <2> QED
      BY <1>3, <1>4, <1>6, <2>1
  <1> QED
    BY <1>5, <1>6

LEMMA RulesDecide ==
    ASSUME NEW p \in Policy, NEW a \in Source
    PROVE  G!Denied(G!Rules(p), a)
             <=> IF p.canBan
                 THEN a \in p.bans \cup p.networks \/ (p.deny /\ a \notin p.allow)
                 ELSE a \notin p.allow /\ (a \in p.bans \cup p.networks \/ p.deny)
  <1> DEFINE r == G!Rules(p)
  <1>1. /\ Len(r) = IF p.deny THEN 4 ELSE 3
        /\ Len(r) \in Nat /\ p.deny \in BOOLEAN
        /\ IF p.canBan
           THEN Is(r[1], TRUE, p.bans) /\ Is(r[2], TRUE, p.networks)
                  /\ Is(r[3], FALSE, p.allow)
           ELSE Is(r[1], FALSE, p.allow) /\ Is(r[2], TRUE, p.bans)
                  /\ Is(r[3], TRUE, p.networks)
        /\ p.deny => Is(r[4], TRUE, Source)
    <2>1. p.deny \in BOOLEAN
      BY DEF Policy
    <2>2. Len(r) = IF p.deny THEN 4 ELSE 3
      BY RulesAre
    <2>3. Len(r) \in Nat
      BY <2>2
    <2>4. /\ IF p.canBan
             THEN Is(r[1], TRUE, p.bans) /\ Is(r[2], TRUE, p.networks)
                    /\ Is(r[3], FALSE, p.allow)
             ELSE Is(r[1], FALSE, p.allow) /\ Is(r[2], TRUE, p.bans)
                    /\ Is(r[3], TRUE, p.networks)
          /\ p.deny => Is(r[4], TRUE, Source)
      BY RulesAre, Zenon
    <2> QED
      BY <2>1, <2>2, <2>3, <2>4, Zenon
  <1> HIDE DEF r
  <1>2. CASE a \in p.allow /\ (p.canBan => a \notin p.bans \cup p.networks)
    <2>1. PICK i \in {1, 3} : First(r, a, i) /\ ~ r[i].deny
      BY <1>1, <1>2 DEF First, Is
    <2> QED
      BY <1>1, <1>2, <2>1, FirstDecides DEF r
  <1>3. CASE a \in p.bans \cup p.networks /\ (~ p.canBan => a \notin p.allow)
    <2>1. PICK i \in {1, 2, 3} : First(r, a, i) /\ r[i].deny
      BY <1>1, <1>3 DEF First, Is
    <2> QED
      BY <1>1, <1>3, <2>1, FirstDecides DEF r
  <1>4. CASE a \notin p.allow \cup p.bans \cup p.networks /\ p.deny
    <2>1. First(r, a, 4) /\ r[4].deny
      BY <1>1, <1>4 DEF First, Is
    <2> QED
      BY <1>1, <1>4, <2>1, FirstDecides DEF r
  <1>5. CASE a \notin p.allow \cup p.bans \cup p.networks /\ ~ p.deny
    <2>1. \A i \in 1 .. Len(r) : a \notin r[i].of
      BY <1>1, <1>5 DEF Is
    <2> QED
      BY <1>5, <2>1, NoneGrants DEF r
  <1> QED
    BY <1>2, <1>3, <1>4, <1>5

LEMMA CallbackRulesDecide ==
    ASSUME NEW p \in Policy, NEW a \in Source
    PROVE  G!Denied(G!CallbackRules(p), a) <=> a \in p.bans
  <1> DEFINE r == G!CallbackRules(p)
  <1>1. Len(r) = 2 /\ Is(r[1], TRUE, p.bans) /\ Is(r[2], FALSE, Source)
    BY DEF G!CallbackRules, Is
  <1> HIDE DEF r
  <1>2. CASE a \in p.bans
    <2>1. First(r, a, 1) /\ r[1].deny
      BY <1>1, <1>2 DEF First, Is
    <2> QED
      BY <1>1, <1>2, <2>1, FirstDecides DEF r
  <1>3. CASE a \notin p.bans
    <2>1. First(r, a, 2) /\ ~ r[2].deny
      BY <1>1, <1>3 DEF First, Is
    <2> QED
      BY <1>1, <1>3, <2>1, FirstDecides DEF r
  <1> QED
    BY <1>2, <1>3

-----------------------------------------------------------------------------
(* The proxy and the lookup.                                               *)

LEMMA DecidesAlike ==
    ASSUME policy \in Policies
    PROVE  G!EdgeAgrees
  <1> SUFFICES ASSUME edge = policy, NEW a \in Source \ Internal, NEW callback \in BOOLEAN
               PROVE  G!OrdersDiffer(a, callback) <=>
                        ~ (G!EdgeDenies(a, callback, G!InLookup(a, FALSE)) <=> G!InLookup(a, callback))
    BY DEF G!EdgeAgrees
  <1>1. policy \in Policy
    BY ServiceAssumption DEF G!AccessAssumption, Policy
  <1>2. /\ policy.deny \in BOOLEAN /\ policy.region \in BOOLEAN
        /\ policy.callbacks \in BOOLEAN /\ policy.canBan \in BOOLEAN
    BY <1>1 DEF Policy
  <1>3. CASE callback /\ policy.callbacks
    <2>1. G!EdgeDenies(a, callback, G!InLookup(a, FALSE)) <=> a \in policy.bans
      BY <1>1, <1>3, CallbackRulesDecide DEF G!EdgeDenies
    <2>2. G!InLookup(a, callback) <=> a \in policy.bans
      BY <1>3 DEF G!InLookup
    <2>3. ~ G!OrdersDiffer(a, callback)
      BY <1>3 DEF G!OrdersDiffer
    <2> QED
      BY <2>1, <2>2, <2>3
  <1>4. CASE ~ (callback /\ policy.callbacks)
    <2>1. G!InLookup(a, callback) <=> G!InLookup(a, FALSE)
      BY <1>4 DEF G!InLookup
    <2>2. G!InLookup(a, FALSE) <=>
              \/ a \in policy.bans
              \/ /\ a \notin policy.allow
                 /\ (policy.region /\ ~ G!RegionAllows(a)) \/ a \in policy.networks \/ policy.deny
      BY DEF G!InLookup
    <2>3. G!EdgeDenies(a, callback, G!InLookup(a, FALSE))
            <=> G!Denied(G!Rules(policy), a) \/ (policy.region /\ G!InLookup(a, FALSE))
      BY <1>4 DEF G!EdgeDenies
    <2>4. G!Denied(G!Rules(policy), a)
            <=> IF policy.canBan
                THEN a \in policy.bans \cup policy.networks \/ (policy.deny /\ a \notin policy.allow)
                ELSE a \notin policy.allow /\ (a \in policy.bans \cup policy.networks \/ policy.deny)
      BY <1>1, RulesDecide
    <2>5. G!OrdersDiffer(a, callback)
            <=> /\ a \in policy.allow
                /\ IF policy.canBan THEN a \in policy.networks \ policy.bans
                   ELSE a \in policy.bans /\ ~ policy.region
      BY <1>4 DEF G!OrdersDiffer
    <2> QED
      BY <1>2, <2>1, <2>2, <2>3, <2>4, <2>5
  <1> QED
    BY <1>3, <1>4

-----------------------------------------------------------------------------
(* The maps of the region check.                                           *)

\* A component's instance has its own name for the operators of the library.
LEMMA SameCardinality ==
    ASSUME NEW S
    PROVE  G!Cardinality(S) = Cardinality(S)
  BY DEF G!Cardinality, Cardinality

IsMap(map, Value, limit) == G!IsMap(map, Value, limit) /\ IsFiniteSet(DOMAIN map)

\* A smaller map with the same values.
Within(less, map) ==
    DOMAIN less \subseteq DOMAIN map /\ \A a \in DOMAIN less : less[a].value = map[a].value

LEMMA OnlyMap ==
    ASSUME NEW Value, NEW limit \in Nat, NEW map, IsMap(map, Value, limit),
           NEW kept \in SUBSET DOMAIN map
    PROVE  LET less == G!Only(map, kept)
           IN  IsMap(less, Value, limit) /\ Within(less, map) /\ DOMAIN less = kept
  <1> DEFINE less == G!Only(map, kept)
             Older(a) == {b \in kept : map[b].place <= map[a].place}
  <1>1. map \in [DOMAIN map -> [place : 1 .. limit, value : Value]]
    BY DEF IsMap, G!IsMap
  <1>2. IsFiniteSet(kept) /\ Cardinality(kept) <= Cardinality(DOMAIN map)
    BY FS_Subset DEF IsMap
  <1>3. Cardinality(DOMAIN map) \in Nat /\ Cardinality(DOMAIN map) <= limit
          /\ Cardinality(kept) \in Nat
    BY <1>2, FS_CardinalityType, SameCardinality DEF IsMap, G!IsMap
  <1>4. ASSUME NEW a \in kept PROVE Cardinality(Older(a)) \in 1 .. limit
    <2>1. Older(a) \in SUBSET kept /\ a \in Older(a)
      BY <1>1
    <2> HIDE DEF Older
    <2>2. IsFiniteSet(Older(a)) /\ Cardinality(Older(a)) <= Cardinality(kept)
      BY <1>2, <2>1, FS_Subset
    <2>3. Cardinality(Older(a)) \in Nat /\ Cardinality(Older(a)) # 0
      BY <2>1, <2>2, FS_CardinalityType, FS_EmptySet
    <2> QED
      BY <1>2, <1>3, <2>2, <2>3
  <1>5. less = [a \in kept |-> [map[a] EXCEPT !.place = Cardinality(Older(a))]]
    BY SameCardinality DEF G!Only
  <1>6. DOMAIN less = kept
    BY <1>5
  <1>7. ASSUME NEW a \in kept
        PROVE  less[a] \in [place : 1 .. limit, value : Value] /\ less[a].value = map[a].value
    BY <1>1, <1>4, <1>5, <1>7
  <1>8. less \in [kept -> [place : 1 .. limit, value : Value]]
    <2>1. \A a \in kept : less[a] \in [place : 1 .. limit, value : Value]
      BY <1>7
    <2> HIDE DEF Older
    <2> QED
      BY <1>5, <2>1
  <1> HIDE DEF less
  <1>9. IsMap(less, Value, limit)
    <2>1. kept \subseteq Source /\ G!Cardinality(kept) <= limit
      BY <1>2, <1>3, SameCardinality DEF IsMap, G!IsMap
    <2> QED
      BY <1>2, <1>6, <1>8, <2>1 DEF IsMap, G!IsMap
  <1>10. Within(less, map)
    BY <1>6, <1>7 DEF Within
  <1> QED
    BY <1>6, <1>9, <1>10 DEF less

LEMMA PutMap ==
    ASSUME NEW Value, NEW limit \in Nat, NEW map, IsMap(map, Value, limit),
           NEW a \in Source, NEW value \in Value,
           a \in DOMAIN map \/ Cardinality(DOMAIN map) < limit
    PROVE  LET larger == G!Put(map, a, value)
           IN  /\ IsMap(larger, Value, limit) /\ DOMAIN larger = DOMAIN map \cup {a}
               /\ larger[a].value = value
               /\ \A b \in DOMAIN map \ {a} : larger[b] = map[b]
  <1> DEFINE larger == G!Put(map, a, value)
             place == IF a \in DOMAIN map THEN map[a].place ELSE Cardinality(DOMAIN map) + 1
  <1>1. map \in [DOMAIN map -> [place : 1 .. limit, value : Value]]
    BY DEF IsMap, G!IsMap
  <1>2. Cardinality(DOMAIN map) \in Nat /\ Cardinality(DOMAIN map) <= limit
    BY FS_CardinalityType, SameCardinality DEF IsMap, G!IsMap
  <1>3. place \in 1 .. limit
    BY <1>1, <1>2
  <1>4. /\ IsFiniteSet(DOMAIN map \cup {a})
        /\ Cardinality(DOMAIN map \cup {a}) <= limit
    BY <1>2, FS_AddElement DEF IsMap
  <1>5. larger = [b \in DOMAIN map \cup {a} |->
                  IF b # a THEN map[b] ELSE [value |-> value, place |-> place]]
    BY SameCardinality DEF G!Put
  <1> HIDE DEF place
  <1>6. larger \in [DOMAIN map \cup {a} -> [place : 1 .. limit, value : Value]]
    BY <1>1, <1>3, <1>5
  <1>7. /\ DOMAIN larger = DOMAIN map \cup {a} /\ larger[a].value = value
        /\ \A b \in DOMAIN map \ {a} : larger[b] = map[b]
    BY <1>5
  <1> HIDE DEF larger
  <1>8. IsMap(larger, Value, limit)
    <2>1. /\ DOMAIN larger \subseteq Source /\ IsFiniteSet(DOMAIN larger)
          /\ G!Cardinality(DOMAIN larger) <= limit
      BY <1>4, <1>7, SameCardinality DEF IsMap, G!IsMap
    <2> QED
      BY <1>6, <1>7, <2>1 DEF IsMap, G!IsMap
  <1> QED
    BY <1>7, <1>8 DEF larger

\* A finite set of places has a first one.
LEMMA FirstPlace ==
    ASSUME NEW S, NEW T \in SUBSET S, T # {}, NEW place \in [S -> Nat]
    PROVE  \E a \in T : \A b \in T : ~ (place[b] < place[a])
  <1> DEFINE places == {place[a] : a \in T}
  <1>1. places \subseteq Nat /\ places # {}
    OBVIOUS
  <1>2. PICK n \in places : \A m \in places : ~ (<<m, n>> \in OpToRel(<, Nat))
    BY <1>1, WFMin, NatLessThanWellFounded
  <1>3. \A m \in places : ~ (m < n)
    BY <1>1, <1>2 DEF OpToRel
  <1> QED
    BY <1>3

LEMMA RoomMap ==
    ASSUME NEW Value, NEW limit \in Nat, limit > 0, NEW map, IsMap(map, Value, limit),
           NEW old \in SUBSET DOMAIN map
    PROVE  LET less == G!MakeRoom(map, old, limit)
           IN  /\ IsMap(less, Value, limit) /\ Within(less, map)
               /\ Cardinality(DOMAIN less) < limit
  <1> DEFINE Older(a, set) == {b \in set : map[b].place < map[a].place}
             half == IF Cardinality(old) < 2 THEN 1 ELSE Cardinality(old) \div 2
             kept == DOMAIN map \ {a \in old : Cardinality(Older(a, old)) < half}
             oldest == {a \in kept : Older(a, kept) = {}}
             rest == IF Cardinality(kept) < limit THEN kept ELSE kept \ oldest
  <1>1. map \in [DOMAIN map -> [place : 1 .. limit, value : Value]]
    BY DEF IsMap, G!IsMap
  <1>2. Cardinality(DOMAIN map) \in Nat /\ Cardinality(DOMAIN map) <= limit
    BY FS_CardinalityType, SameCardinality DEF IsMap, G!IsMap
  <1>3. G!MakeRoom(map, old, limit)
          = IF Cardinality(DOMAIN map) < limit THEN map ELSE G!Only(map, rest)
    BY SameCardinality DEF G!MakeRoom
  <1>4. kept \in SUBSET DOMAIN map
    OBVIOUS
  <1> HIDE DEF kept
  <1>5. /\ IsFiniteSet(kept) /\ Cardinality(kept) \in Nat
        /\ Cardinality(kept) <= Cardinality(DOMAIN map)
    BY <1>4, FS_Subset, FS_CardinalityType DEF IsMap
  <1>6. rest \in SUBSET kept /\ IsFiniteSet(rest) /\ Cardinality(rest) < limit
    <2>1. CASE Cardinality(kept) < limit
      BY <1>5, <2>1
    <2>2. CASE ~ (Cardinality(kept) < limit)
      <3>1. kept # {}
        BY <1>5, <2>2, FS_EmptySet
      <3>2. [a \in DOMAIN map |-> map[a].place] \in [DOMAIN map -> Nat]
        BY <1>1
      <3>3. PICK a \in kept : \A b \in kept : ~ (map[b].place < map[a].place)
        <4> DEFINE place == [a \in DOMAIN map |-> map[a].place]
        <4>1. \E a \in kept : \A b \in kept : ~ (place[b] < place[a])
          BY <1>4, <3>1, <3>2, FirstPlace
        <4> QED
          BY <1>4, <4>1
      <3>4. a \in oldest
        BY <3>3
      <3> HIDE DEF oldest
      <3>5. rest \in SUBSET kept /\ rest # kept
        BY <2>2, <3>3, <3>4
      <3>6. /\ IsFiniteSet(rest) /\ Cardinality(rest) \in Nat
            /\ Cardinality(rest) <= Cardinality(kept)
            /\ Cardinality(kept) = Cardinality(rest) => kept = rest
        BY <1>5, <3>5, FS_Subset, FS_CardinalityType
      <3> QED
        BY <1>2, <1>5, <3>5, <3>6
    <2> QED
      BY <2>1, <2>2
  <1> HIDE DEF rest
  <1>7. CASE Cardinality(DOMAIN map) < limit
    BY <1>3, <1>7 DEF Within
  <1>8. CASE ~ (Cardinality(DOMAIN map) < limit)
    <2>1. LET less == G!Only(map, rest)
          IN  IsMap(less, Value, limit) /\ Within(less, map) /\ DOMAIN less = rest
      BY <1>4, <1>6, OnlyMap
    <2> QED
      BY <1>3, <1>6, <1>8, <2>1
  <1> QED
    BY <1>7, <1>8

LEMMA Bounded ==
    ASSUME NEW S, NEW n \in Nat, NEW x
    PROVE  x \in G!BoundedSeq(S, n) <=> x \in Seq(S) /\ Len(x) <= n
  BY DEF G!BoundedSeq, G!SeqOf

LEMMA RecentTyped ==
    ASSUME NEW n \in Nat, NEW times \in G!BoundedSeq(G!Time, n)
    PROVE  G!Recent(times) \in G!BoundedSeq(G!Time, n)
  <1> DEFINE first == G!SelectInSeq(times, LAMBDA t : now - t <= Window)
  <1>1. times \in Seq(G!Time) /\ Len(times) <= n
    BY Bounded
  <1>2. first \in 0 .. Len(times)
    <2> DEFINE I == {i \in 1 .. Len(times) : now - times[i] <= Window}
    <2>1. first = IF I # {} THEN G!Min(I) ELSE 0
      BY DEF G!SelectInSeq
    <2>2. I # {} => G!Min(I) \in I
      <3> SUFFICES ASSUME I # {} PROVE G!Min(I) \in I
        OBVIOUS
      <3>1. I \subseteq Nat
        BY <1>1
      <3> HIDE DEF I
      <3>2. PICK k \in I : \A i \in I : ~ (<<i, k>> \in OpToRel(<, Nat))
        BY <3>1, WFMin, NatLessThanWellFounded
      <3>3. \A i \in I : ~ (i < k)
        BY <3>1, <3>2 DEF OpToRel
      <3>4. \A i \in I : k <= i
        BY <3>1, <3>3
      <3> QED
        BY <3>4 DEF G!Min
    <2> QED
      BY <1>1, <2>1, <2>2
  <1> HIDE DEF first
  <1>3. G!Recent(times) = IF first = 0 THEN <<>> ELSE SubSeq(times, first, Len(times))
    BY DEF G!Recent, first
  <1>4. CASE first = 0
    <2> DEFINE none == <<>>
    <2>1. none \in Seq(G!Time) /\ Len(none) <= n
      OBVIOUS
    <2> HIDE DEF none
    <2>2. none \in G!BoundedSeq(G!Time, n)
      BY <2>1, Bounded
    <2> QED
      BY <1>3, <1>4, <2>2 DEF none
  <1>5. CASE first # 0
    <2>1. \A i \in first .. Len(times) : times[i] \in G!Time
      BY <1>1, <1>2, <1>5
    <2>2. first \in Int /\ Len(times) \in Int
      BY <1>1, <1>2
    <2>3. /\ SubSeq(times, first, Len(times)) \in Seq(G!Time)
          /\ Len(SubSeq(times, first, Len(times))) <= n
      BY <1>1, <1>2, <1>5, <2>1, <2>2, SubSeqProperties
    <2> QED
      BY <1>3, <1>5, <2>3, Bounded
  <1> QED
    BY <1>4, <1>5

-----------------------------------------------------------------------------
(* The region check.                                                       *)

MissTimes == G!BoundedSeq(G!Time, MaxMisses)
AnswerValue == [object : 0 .. MaxPolicyEdits, at : G!Time, blocked : BOOLEAN]

\* An answer of the lookup in force is one the lookup has given in its lifetime.
CacheFits ==
    \A a \in DOMAIN cache :
        /\ cache[a].value.object <= object /\ cache[a].value.at <= now
        /\ G!Cached(cache[a].value) =>
              <<cache[a].value.at, cache[a].value.blocked>> \in said[a]

SaidFits == \A a \in Source : <<now, G!InLookup(a, FALSE)>> \in said[a]

AccessInv ==
    /\ G!TypeOK /\ object <= changes
    /\ IsMap(cache, AnswerValue, MaxCached)
    /\ IsMap(misses, MissTimes, MaxTracked)
    /\ CacheFits /\ SaidFits /\ G!AnswersAreFresh

LEMMA AccessTypes ==
    /\ TTL \in Nat /\ Window \in Nat /\ MaxMisses \in Nat /\ MaxCached \in Nat
    /\ MaxTracked \in Nat /\ MaxTime \in Nat /\ MaxPolicyEdits \in Nat
    /\ MaxCached > 0 /\ MaxTracked > 0 /\ Policies \subseteq Policy
  BY ServiceAssumption DEF G!AccessAssumption, Policy

\* With the maps typed, the rest of the type invariant.
PlainTypes ==
    /\ policy \in Policies /\ edge \in Policies /\ open \in BOOLEAN
    /\ object \in 0 .. MaxPolicyEdits /\ changes \in 0 .. MaxPolicyEdits
    /\ now \in G!Time
    /\ answer \in [of : {{}} \cup {{a} : a \in Source}, code : {0, 204, 403, 429}]
    /\ said \in [Source -> SUBSET (G!Time \X BOOLEAN)]

LEMMA AccessTyped ==
    ASSUME IsMap(cache, AnswerValue, MaxCached),
           IsMap(misses, MissTimes, MaxTracked), PlainTypes
    PROVE  G!TypeOK
  BY DEF IsMap, AnswerValue, MissTimes, PlainTypes, G!TypeOK

LEMMA MissTimesAre ==
    ASSUME NEW times
    PROVE  times \in MissTimes <=> times \in Seq(G!Time) /\ Len(times) <= MaxMisses
  BY Bounded, AccessTypes DEF MissTimes

LEMMA LookupDecides ==
    ASSUME NEW a
    PROVE  G!InLookup(a, FALSE) \in BOOLEAN /\ G!InLookup(a, FALSE)' \in BOOLEAN
  BY DEF G!InLookup

LEMMA AccessInit ==
    ASSUME G!Init
    PROVE  AccessInv
  <1>1. cache = G!NoEntries /\ misses = G!NoEntries
    BY DEF G!Init
  <1>2. ASSUME NEW Value, NEW limit \in Nat PROVE IsMap(G!NoEntries, Value, limit)
    <2>1. DOMAIN G!NoEntries = {} /\ G!NoEntries \in [{} -> [place : 1 .. limit, value : Value]]
      BY DEF G!NoEntries
    <2>2. IsFiniteSet({}) /\ G!Cardinality({}) = 0
      BY FS_EmptySet, SameCardinality
    <2> QED
      BY <2>1, <2>2 DEF IsMap, G!IsMap
  <1>3. /\ IsMap(cache, AnswerValue, MaxCached)
        /\ IsMap(misses, MissTimes, MaxTracked)
    BY <1>1, <1>2, AccessTypes
  <1>4. DOMAIN cache = {}
    BY <1>1 DEF G!NoEntries
  <1>5. 0 \in G!Time
    BY AccessTypes DEF G!Time
  <1>6. PlainTypes
    <2>1. said \in [Source -> SUBSET (G!Time \X BOOLEAN)]
      <3> DEFINE first(a) == {<<0, G!InLookup(a, FALSE)>>}
      <3>1. ASSUME NEW a \in Source PROVE first(a) \in SUBSET (G!Time \X BOOLEAN)
        <4> DEFINE look == G!InLookup(a, FALSE)
        <4>1. look \in BOOLEAN
          BY LookupDecides
        <4> HIDE DEF look
        <4>2. {<<0, look>>} \in SUBSET (G!Time \X BOOLEAN)
          BY <1>5, <4>1
        <4> QED
          BY <4>2 DEF look
      <3>2. said = [a \in Source |-> first(a)]
        BY DEF G!Init
      <3> HIDE DEF first
      <3> QED
        BY <3>1, <3>2
    <2>2. answer \in [of : {{}} \cup {{a} : a \in Source}, code : {0, 204, 403, 429}]
      BY DEF G!Init, G!NoAnswer
    <2>3. /\ policy \in Policies /\ edge \in Policies /\ open \in BOOLEAN
          /\ object = 0 /\ changes = 0 /\ now = 0
      BY DEF G!Init
    <2> QED
      BY <1>5, <2>1, <2>2, <2>3, AccessTypes DEF PlainTypes
  <1>7. SaidFits
    BY DEF G!Init, SaidFits
  <1>8. G!AnswersAreFresh
    BY DEF G!Init, G!NoAnswer, G!AnswersAreFresh
  <1>9. CacheFits
    BY <1>4 DEF CacheFits
  <1>10. object <= changes
    BY DEF G!Init
  <1> QED
    BY <1>3, <1>6, <1>7, <1>8, <1>9, <1>10, AccessTyped DEF AccessInv

\* A step that asks nothing: the caches stay, what was said within the
\* lifetime of an answer of the same lookup is kept.
LEMMA AccessNoted ==
    ASSUME AccessInv, UNCHANGED <<cache, misses>>, answer' = G!NoAnswer,
           PlainTypes', object' <= changes', object <= object', now <= now', SaidFits',
           object' = object =>
              \A a \in Source : \A s \in said[a] : now' - s[1] <= TTL => s \in said'[a]
    PROVE  AccessInv'
  <1>1. /\ IsMap(cache, AnswerValue, MaxCached)'
        /\ IsMap(misses, MissTimes, MaxTracked)'
    BY DEF AccessInv, IsMap, G!IsMap, AnswerValue, MissTimes, G!Time, G!BoundedSeq, G!SeqOf
  <1>2. CacheFits'
    <2> SUFFICES ASSUME NEW a \in DOMAIN cache
                 PROVE  /\ cache[a].value.object <= object' /\ cache[a].value.at <= now'
                        /\ G!Cached(cache[a].value)' =>
                              <<cache[a].value.at, cache[a].value.blocked>> \in said'[a]
      BY DEF CacheFits, G!Cached
    <2>1. /\ a \in Source
          /\ cache[a].value \in AnswerValue
      BY DEF AccessInv, IsMap, G!IsMap
    <2>2. /\ cache[a].value.object \in Nat /\ cache[a].value.at \in Nat
          /\ object \in Nat /\ object' \in Nat /\ now \in Nat /\ now' \in Nat
      BY <2>1, AccessTypes DEF AnswerValue, AccessInv, G!TypeOK, PlainTypes, G!Time
    <2>3. cache[a].value.object <= object /\ cache[a].value.at <= now
      BY DEF AccessInv, CacheFits
    <2>4. ASSUME G!Cached(cache[a].value)'
          PROVE  <<cache[a].value.at, cache[a].value.blocked>> \in said'[a]
      <3>1. cache[a].value.object = object' /\ now' - cache[a].value.at <= TTL
        BY <2>4 DEF G!Cached
      <3>2. object' = object /\ now - cache[a].value.at <= TTL
        BY <2>2, <2>3, <3>1, AccessTypes
      <3>3. <<cache[a].value.at, cache[a].value.blocked>> \in said[a]
        BY <3>1, <3>2 DEF AccessInv, CacheFits, G!Cached
      <3> QED
        BY <2>1, <3>1, <3>2, <3>3
    <2> QED
      BY <2>2, <2>3, <2>4
  <1>3. G!AnswersAreFresh'
    BY DEF G!NoAnswer, G!AnswersAreFresh
  <1>4. G!TypeOK'
    BY <1>1 DEF PlainTypes, G!TypeOK, IsMap, AnswerValue, MissTimes
  <1> QED
    BY <1>1, <1>2, <1>3, <1>4 DEF AccessInv

LEMMA AuthorizeKeeps ==
    ASSUME AccessInv, NEW a \in Source, G!Authorize(a)
    PROVE  AccessInv'
  <1> DEFINE cached == a \in DOMAIN cache /\ G!Cached(cache[a].value)
             blocked == G!InLookup(a, FALSE)
             tracked == G!Tracked(a)
             recent == G!Recent(tracked[a].value)
             expired == {b \in DOMAIN cache : ~ G!Cached(cache[b].value)}
             room == G!MakeRoom(cache, expired, MaxCached)
             fresh == [object |-> object, at |-> now, blocked |-> blocked]
  <1>1. /\ UNCHANGED <<policy, open, object, edge, now, changes, said>>
        /\ \/ cached /\ UNCHANGED <<cache, misses>>
              /\ answer' = [of |-> {a}, code |-> IF cache[a].value.blocked THEN 403 ELSE 204]
           \/ ~ cached /\ misses' = G!Put(tracked, a, recent) /\ UNCHANGED cache
              /\ answer' = [of |-> {a}, code |-> 429]
           \/ ~ cached /\ Len(recent) < MaxMisses /\ misses' = G!Put(tracked, a, Append(recent, now))
              /\ cache' = G!Put(room, a, fresh)
              /\ answer' = [of |-> {a}, code |-> IF blocked THEN 403 ELSE 204]
    BY DEF G!Authorize, G!Reply
  <1>r. \E code \in {204, 403, 429} : answer' = [of |-> {a}, code |-> code]
    <2> HIDE DEF cached, blocked, tracked, recent, expired, room, fresh
    <2>1. CASE answer' = [of |-> {a}, code |-> 429]
      BY <2>1
    <2>2. ASSUME NEW bit, answer' = [of |-> {a}, code |-> IF bit THEN 403 ELSE 204]
          PROVE  \E code \in {204, 403, 429} : answer' = [of |-> {a}, code |-> code]
      BY <2>2
    <2> QED
      BY <1>1, <2>1, <2>2
  <1>2. /\ IsMap(cache, AnswerValue, MaxCached) /\ IsMap(misses, MissTimes, MaxTracked)
        /\ CacheFits /\ SaidFits /\ PlainTypes
    BY DEF AccessInv, PlainTypes, G!TypeOK
  <1>3. blocked \in BOOLEAN /\ <<now, blocked>> \in said[a]
    <2>1. <<now, blocked>> \in said[a]
      BY <1>2, Zenon DEF SaidFits
    <2> QED
      BY <2>1, LookupDecides
  <1>4. IsMap(tracked, MissTimes, MaxTracked) /\ a \in DOMAIN tracked
    <2>1. CASE a \in DOMAIN misses
      BY <1>2, <2>1 DEF G!Tracked
    <2>2. CASE a \notin DOMAIN misses
      <3> DEFINE idle == {b \in DOMAIN misses : G!Idle(misses[b].value)}
                 left == G!MakeRoom(misses, idle, MaxTracked)
                 none == <<>>
      <3>1. IsMap(left, MissTimes, MaxTracked) /\ Cardinality(DOMAIN left) < MaxTracked
        <4>1. idle \in SUBSET DOMAIN misses
          OBVIOUS
        <4> HIDE DEF idle
        <4> QED
          BY <1>2, <4>1, RoomMap, AccessTypes
      <3>2. none \in MissTimes
        <4>1. none \in Seq(G!Time) /\ Len(none) <= MaxMisses
          BY AccessTypes
        <4> HIDE DEF none
        <4> QED
          BY <4>1, MissTimesAre
      <3>3. tracked = G!Put(left, a, none)
        BY <2>2 DEF G!Tracked
      <3> HIDE DEF idle, left, none, tracked
      <3>4. MaxTracked \in Nat
        BY AccessTypes
      <3>5. /\ IsMap(tracked, MissTimes, MaxTracked)
            /\ DOMAIN tracked = DOMAIN left \cup {a} /\ tracked[a].value = none
            /\ \A b \in DOMAIN left \ {a} : tracked[b] = left[b]
        BY <3>1, <3>2, <3>3, <3>4, PutMap
      <3> QED
        BY <3>5
    <2> QED
      BY <2>1, <2>2
  <1> HIDE DEF tracked
  <1>5. recent \in MissTimes
    <2>1. tracked[a].value \in MissTimes
      BY <1>4 DEF IsMap, G!IsMap
    <2> QED
      BY <2>1, RecentTyped, AccessTypes DEF MissTimes
  <1>6. now \in G!Time
    BY <1>2 DEF PlainTypes
  <1>7. Len(recent) < MaxMisses => Append(recent, now) \in MissTimes
    <2> HIDE DEF recent
    <2>1. recent \in Seq(G!Time) /\ Len(recent) <= MaxMisses
      BY <1>5, MissTimesAre
    <2>2. /\ Append(recent, now) \in Seq(G!Time)
          /\ Len(Append(recent, now)) = Len(recent) + 1
      BY <1>6, <2>1, AppendProperties
    <2> DEFINE longer == Append(recent, now)
    <2> HIDE DEF longer
    <2>3. Len(recent) < MaxMisses => Len(longer) <= MaxMisses
      BY <2>1, <2>2, AccessTypes DEF longer
    <2>4. longer \in Seq(G!Time)
      BY <2>2 DEF longer
    <2>5. Len(recent) < MaxMisses => longer \in MissTimes
      BY <2>3, <2>4, MissTimesAre
    <2> QED
      BY <2>5 DEF longer
  <1> HIDE DEF recent
  <1>8. IsMap(misses', MissTimes, MaxTracked)
    <2>1. ASSUME NEW times \in MissTimes, misses' = G!Put(tracked, a, times)
          PROVE  IsMap(misses', MissTimes, MaxTracked)
      BY <1>4, <2>1, PutMap, AccessTypes
    <2>2. CASE misses' = misses
      BY <1>2, <2>2
    <2> QED
      BY <1>1, <1>5, <1>7, <2>1, <2>2
  <1>9. /\ IsMap(cache', AnswerValue, MaxCached)
        /\ \A b \in DOMAIN cache' :
              \/ b \in DOMAIN cache /\ cache'[b].value = cache[b].value
              \/ b = a /\ cache'[b].value = fresh
    <2>1. CASE cache' = cache
      BY <1>2, <2>1
    <2>2. CASE cache' = G!Put(room, a, fresh)
      <3>1. IsMap(room, AnswerValue, MaxCached) /\ Within(room, cache)
              /\ Cardinality(DOMAIN room) < MaxCached
        <4>1. expired \in SUBSET DOMAIN cache
          OBVIOUS
        <4> HIDE DEF expired
        <4> QED
          BY <1>2, <4>1, RoomMap, AccessTypes
      <3>2. fresh \in AnswerValue
        BY <1>2, <1>3 DEF AnswerValue, PlainTypes
      <3> HIDE DEF room, fresh
      <3>3. MaxCached \in Nat
        BY AccessTypes
      <3>4. /\ IsMap(cache', AnswerValue, MaxCached)
            /\ DOMAIN cache' = DOMAIN room \cup {a} /\ cache'[a].value = fresh
            /\ \A b \in DOMAIN room \ {a} : cache'[b] = room[b]
        BY <2>2, <3>1, <3>2, <3>3, PutMap
      <3> QED
        BY <3>1, <3>4 DEF Within
    <2> QED
      BY <1>1, <2>1, <2>2
  <1>10. \A b \in Source : G!InLookup(b, FALSE)' <=> G!InLookup(b, FALSE)
    BY <1>1 DEF G!InLookup, G!RegionAllows
  <1>11. SaidFits'
    <2>1. \A b \in Source : G!InLookup(b, FALSE)' = G!InLookup(b, FALSE)
      BY <1>10, LookupDecides
    <2> QED
      BY <1>1, <1>2, <2>1 DEF SaidFits
  <1>12. CacheFits'
    <2> SUFFICES ASSUME NEW b \in DOMAIN cache'
                 PROVE  /\ cache'[b].value.object <= object /\ cache'[b].value.at <= now
                        /\ G!Cached(cache[b].value)' =>
                              <<cache'[b].value.at, cache'[b].value.blocked>> \in said[b]
      BY <1>1 DEF CacheFits
    <2>1. CASE b \in DOMAIN cache /\ cache'[b].value = cache[b].value
      BY <1>1, <1>2, <2>1 DEF CacheFits, G!Cached
    <2>2. CASE b = a /\ cache'[b].value = fresh
      <3>1. object \in Nat /\ now \in Nat
        BY <1>2, AccessTypes DEF PlainTypes, G!Time
      <3> QED
        BY <1>3, <2>2, <3>1
    <2> QED
      BY <1>9, <2>1, <2>2
  <1>13. G!AnswersAreFresh'
    <2> SUFFICES ASSUME answer'.code \in {204, 403}
                 PROVE  \E s \in said[a] : now - s[1] <= TTL /\ (s[2] <=> answer'.code = 403)
      <3>1. answer'.of = {a} /\ now' = now /\ said' = said
        BY <1>1, <1>r
      <3> QED
        BY <3>1 DEF G!AnswersAreFresh
    <2>1. now \in Nat /\ TTL \in Nat
      BY <1>2, AccessTypes DEF PlainTypes, G!Time
    <2>2. ASSUME NEW at, NEW bit \in BOOLEAN, <<at, bit>> \in said[a], now - at <= TTL,
                 answer'.code = IF bit THEN 403 ELSE 204
          PROVE  \E s \in said[a] : now - s[1] <= TTL /\ (s[2] <=> answer'.code = 403)
      <3> WITNESS <<at, bit>> \in said[a]
      <3> QED
        BY <2>2
    <2>3. CASE cached /\ answer'.code = IF cache[a].value.blocked THEN 403 ELSE 204
      <3>1. <<cache[a].value.at, cache[a].value.blocked>> \in said[a]
        BY <1>2, <2>3 DEF CacheFits
      <3>2. now - cache[a].value.at <= TTL
        BY <2>3 DEF G!Cached
      <3>3. cache[a].value.blocked \in BOOLEAN
        BY <1>2, <2>3 DEF IsMap, G!IsMap, AnswerValue
      <3> QED
        BY <2>2, <2>3, <3>1, <3>2, <3>3
    <2>4. CASE answer'.code = IF blocked THEN 403 ELSE 204
      <3>1. now - now <= TTL
        BY <2>1
      <3> QED
        BY <1>3, <2>2, <2>4, <3>1
    <2>5. CASE answer' = [of |-> {a}, code |-> 429]
      BY <2>5
    <2> HIDE DEF cached, blocked, tracked, recent, expired, room, fresh
    <2> QED
      BY <1>1, <2>3, <2>4, <2>5
  <1>14. PlainTypes'
    <2>2. {a} \in {{}} \cup {{b} : b \in Source}
      OBVIOUS
    <2>3. answer' \in [of : {{}} \cup {{b} : b \in Source}, code : {0, 204, 403, 429}]
      BY <1>r, <2>2
    <2> QED
      BY <1>1, <1>2, <2>3 DEF PlainTypes, G!Time
  <1>15. /\ IsMap(cache, AnswerValue, MaxCached)'
         /\ IsMap(misses, MissTimes, MaxTracked)'
    BY <1>8, <1>9 DEF IsMap, G!IsMap, AnswerValue, MissTimes, G!Time
  <1>16. G!TypeOK'
    BY <1>14, <1>15 DEF PlainTypes, G!TypeOK, IsMap, AnswerValue, MissTimes
  <1> QED
    BY <1>1, <1>11, <1>12, <1>13, <1>15, <1>16 DEF AccessInv

LEMMA AccessStep ==
    ASSUME AccessInv, [G!Next]_(G!vars)
    PROVE  AccessInv'
  <1>1. PlainTypes /\ object <= changes /\ SaidFits /\ object \in Nat /\ now \in Nat
    BY AccessTypes DEF AccessInv, G!TypeOK, PlainTypes, G!Time
  <1>2. ASSUME NEW kept, kept \in [Source -> SUBSET (G!Time \X BOOLEAN)], G!Note(kept),
               now' \in G!Time
        PROVE  /\ said' \in [Source -> SUBSET (G!Time \X BOOLEAN)] /\ SaidFits'
               /\ \A a \in Source : kept[a] \subseteq said'[a]
    <2> DEFINE look(a) == G!InLookup(a, FALSE)'
    <2>1. said' = [a \in Source |-> kept[a] \cup {<<now', look(a)>>}]
      BY <1>2 DEF G!Note
    <2>2. \A a \in Source : look(a) \in BOOLEAN
      BY LookupDecides
    <2>3. SaidFits'
      <3>1. \A a \in Source : <<now', look(a)>> \in said'[a]
        <4> HIDE DEF look
        <4> QED
          BY <2>1
      <3> QED
        BY <3>1, Zenon DEF SaidFits
    <2> HIDE DEF look
    <2> QED
      BY <1>2, <2>1, <2>2, <2>3
  <1>3. ASSUME NEW p \in Policies, G!Edit(p) PROVE AccessInv'
    <2>1. /\ policy' = p /\ changes' = changes + 1 /\ changes < MaxPolicyEdits
          /\ answer' = G!NoAnswer /\ UNCHANGED <<open, object, edge, now, cache, misses>>
          /\ G!Note(said)
      BY <1>3 DEF G!Edit, G!Changed
    <2>2. /\ said' \in [Source -> SUBSET (G!Time \X BOOLEAN)] /\ SaidFits'
          /\ \A a \in Source : said[a] \subseteq said'[a]
      BY <1>1, <1>2, <2>1 DEF PlainTypes
    <2>3. PlainTypes' /\ object' <= changes'
      BY <1>1, <2>1, <2>2, AccessTypes DEF PlainTypes, G!NoAnswer, G!Time
    <2> QED
      BY <1>1, <2>1, <2>2, <2>3, AccessNoted
  <1>4. CASE G!Reader
    <2>1. /\ open' = ~ open /\ changes' = changes + 1 /\ changes < MaxPolicyEdits
          /\ answer' = G!NoAnswer /\ UNCHANGED <<policy, object, edge, now, cache, misses>>
          /\ G!Note(said)
      BY <1>4 DEF G!Reader, G!Changed
    <2>2. /\ said' \in [Source -> SUBSET (G!Time \X BOOLEAN)] /\ SaidFits'
          /\ \A a \in Source : said[a] \subseteq said'[a]
      BY <1>1, <1>2, <2>1 DEF PlainTypes
    <2>3. PlainTypes' /\ object' <= changes'
      BY <1>1, <2>1, <2>2, AccessTypes DEF PlainTypes, G!NoAnswer, G!Time
    <2> QED
      BY <1>1, <2>1, <2>2, <2>3, AccessNoted
  <1>5. CASE G!Reload
    <2>1. /\ object' = object + 1 /\ changes' = changes + 1 /\ changes < MaxPolicyEdits
          /\ answer' = G!NoAnswer /\ UNCHANGED <<policy, open, edge, now, cache, misses>>
          /\ G!Note([a \in Source |-> {}])
      BY <1>5 DEF G!Reload, G!Changed
    <2>2. said' \in [Source -> SUBSET (G!Time \X BOOLEAN)] /\ SaidFits'
      <3>1. [a \in Source |-> {}] \in [Source -> SUBSET (G!Time \X BOOLEAN)]
        OBVIOUS
      <3> QED
        BY <1>1, <1>2, <2>1, <3>1 DEF PlainTypes
    <2>3. PlainTypes' /\ object' <= changes' /\ object' # object
      BY <1>1, <2>1, <2>2, AccessTypes DEF PlainTypes, G!NoAnswer, G!Time
    <2> QED
      BY <1>1, <2>1, <2>2, <2>3, AccessNoted
  <1>6. CASE G!Sync
    <2>1. /\ edge' = policy /\ answer' = G!NoAnswer
          /\ UNCHANGED <<policy, open, object, now, changes, cache, misses, said>>
      BY <1>6 DEF G!Sync
    <2>2. SaidFits'
      <3>1. \A a \in Source : G!InLookup(a, FALSE)' = G!InLookup(a, FALSE)
        BY <2>1, LookupDecides DEF G!InLookup, G!RegionAllows
      <3> QED
        BY <1>1, <2>1, <3>1 DEF SaidFits
    <2>3. PlainTypes' /\ object' <= changes'
      BY <1>1, <2>1 DEF PlainTypes, G!NoAnswer, G!Time
    <2> QED
      BY <1>1, <2>1, <2>2, <2>3, AccessNoted
  <1>7. CASE G!Tick
    <2> DEFINE kept == [a \in Source |-> {s \in said[a] : now' - s[1] <= TTL}]
    <2>1. /\ now' = now + 1 /\ now < MaxTime /\ answer' = G!NoAnswer
          /\ UNCHANGED <<policy, open, object, edge, changes, cache, misses>>
          /\ G!Note(kept)
      BY <1>7 DEF G!Tick
    <2>2. now' \in G!Time
      BY <1>1, <2>1, AccessTypes DEF G!Time
    <2>3. kept \in [Source -> SUBSET (G!Time \X BOOLEAN)]
      BY <1>1 DEF PlainTypes
    <2>4. \A a \in Source : \A s \in said[a] : now' - s[1] <= TTL => s \in kept[a]
      OBVIOUS
    <2> HIDE DEF kept
    <2>5. /\ said' \in [Source -> SUBSET (G!Time \X BOOLEAN)] /\ SaidFits'
          /\ \A a \in Source : kept[a] \subseteq said'[a]
      BY <1>2, <2>1, <2>2, <2>3
    <2>6. PlainTypes' /\ object' <= changes'
      BY <1>1, <2>1, <2>2, <2>5 DEF PlainTypes, G!NoAnswer, G!Time
    <2> QED
      BY <1>1, <2>1, <2>4, <2>5, <2>6, AccessNoted
  <1>8. CASE UNCHANGED G!vars
    <2>1. UNCHANGED <<policy, open, object, edge, now, changes, cache, misses, answer, said>>
      BY <1>8 DEF G!vars
    <2>2. \A a \in Source : G!InLookup(a, FALSE)' = G!InLookup(a, FALSE)
      BY <2>1, LookupDecides DEF G!InLookup, G!RegionAllows
    <2>3. SaidFits'
      BY <1>1, <2>1, <2>2 DEF SaidFits
    <2>4. CacheFits' /\ G!AnswersAreFresh'
      BY <2>1 DEF AccessInv, CacheFits, G!Cached, G!AnswersAreFresh
    <2>5. G!TypeOK'
      BY <2>1 DEF AccessInv, G!TypeOK, G!IsMap, G!BoundedSeq, G!SeqOf, G!Time
    <2>6. IsMap(cache, AnswerValue, MaxCached)' /\ IsMap(misses, MissTimes, MaxTracked)'
      BY <2>1 DEF AccessInv, IsMap, G!IsMap, AnswerValue, MissTimes, G!BoundedSeq, G!SeqOf, G!Time
    <2> QED
      BY <1>1, <2>1, <2>3, <2>4, <2>5, <2>6 DEF AccessInv
  <1> QED
    BY <1>3, <1>4, <1>5, <1>6, <1>7, <1>8, AuthorizeKeeps DEF G!Next


-----------------------------------------------------------------------------
(* The parts side by side.                                                 *)

LEMMA AccessMoves ==
    ASSUME [ServiceNext]_service
    PROVE  [G!Next]_(G!vars)
  <1>1. CASE UNCHANGED service
    BY <1>1 DEF service, access, G!vars
  <1>2. CASE UNCHANGED access
    BY <1>2 DEF access, G!vars
  <1>3. CASE Part("access", G!Next)
    BY <1>3 DEF Part
  <1> QED
    BY <1>1, <1>2, <1>3 DEF ServiceNext, ServiceRun

LEMMA AccessAlways ==
    ServiceSpec => []AccessInv
  <1>1. ServiceInit => AccessInv
    BY AccessInit DEF ServiceInit
  <1>2. AccessInv /\ [ServiceNext]_service => AccessInv'
    BY AccessMoves, AccessStep
  <1> QED
    BY <1>1, <1>2, PTL DEF ServiceSpec

\* AccessPolicy: the proxy's rules and the lookup decide alike for every
\* policy and every address (http_views.py, nginx_proxy_manager.py).
THEOREM EdgeDecidesAlike ==
    ServiceSpec => []EdgeAgrees
  <1>1. AccessInv => EdgeAgrees
    <2>1. AccessInv => policy \in Policies
      BY DEF AccessInv, G!TypeOK
    <2> QED
      BY <2>1, DecidesAlike DEF EdgeAgrees, While
  <1> QED
    BY <1>1, AccessAlways, PTL

\* AccessPolicy: an answer of the region check is one the lookup gave, with
\* the reader it has now, within the lifetime of the cache (http_views.py).
THEOREM CachedAnswersAreFresh ==
    ServiceSpec => []AnswersAreFresh
  <1>1. AccessInv => AnswersAreFresh
    BY DEF AccessInv, AnswersAreFresh, While
  <1> QED
    BY <1>1, AccessAlways, PTL

-----------------------------------------------------------------------------
(* The failed logins: the theorems of LoginFlow_proofs hold of the part.   *)

FP == INSTANCE LoginFlow_proofs WITH
        Addr <- Source, Rules <- RuleSets, MaxEdits <- MaxRuleEdits

LEMMA SameLibrary ==
    ASSUME NEW S
    PROVE  /\ F!Cardinality(S) = FP!Cardinality(S)
           /\ F!IsFiniteSet(S) <=> FP!IsFiniteSet(S)
  BY DEF F!Cardinality, FP!Cardinality, F!IsFiniteSet, FP!IsFiniteSet

LEMMA SameAssumption ==
    FP!LoginAssumption
  BY ServiceAssumption, SameLibrary DEF F!LoginAssumption, FP!LoginAssumption

LEMMA LoginSteps ==
    F!Next => FP!Next
  <1>1. ASSUME NEW r \in Request, NEW a \in Source PROVE F!Fail(r, a) => FP!Fail(r, a)
    <2>1. F!Cardinality(F!InFlight(a)) = FP!Cardinality(FP!InFlight(a))
      BY SameLibrary DEF F!InFlight, FP!InFlight
    <2> QED
      BY <2>1 DEF F!Fail, F!Protected, F!Regional, F!notices,
                  FP!Fail, FP!Protected, FP!Regional, FP!notices
  <1>2. ASSUME NEW r \in Request PROVE F!TrustedFails(r) => FP!TrustedFails(r)
    BY DEF F!TrustedFails, F!Limit, F!Regional, F!Live, F!Escalates, F!Excuse, F!Finish,
           F!Notifies, F!Show,
           FP!TrustedFails, FP!Limit, FP!Regional, FP!Live, FP!Escalates, FP!Excuse, FP!Finish,
           FP!Notifies, FP!Show
  <1>3. ASSUME NEW r \in Request PROVE F!RegionalFails(r) => FP!RegionalFails(r)
    BY DEF F!RegionalFails, F!Count, F!Excuse, F!Finish, F!Show, F!Rewrite, F!Notifies,
           FP!RegionalFails, FP!Count, FP!Excuse, FP!Finish, FP!Show, FP!Rewrite, FP!Notifies
  <1>4. ASSUME NEW r \in Request PROVE F!NativeFails(r) => FP!NativeFails(r)
    BY DEF F!NativeFails, F!Count, F!Live, F!Excuse, F!Finish, F!Show, F!Rewrite, F!Notifies,
           FP!NativeFails, FP!Count, FP!Live, FP!Excuse, FP!Finish, FP!Show, FP!Rewrite, FP!Notifies
  <1>5. ASSUME NEW r \in Request PROVE F!AddBan(r) => FP!AddBan(r)
    BY DEF F!AddBan, F!Finish, F!Protected, F!Rewrite, F!Notifies,
           FP!AddBan, FP!Finish, FP!Protected, FP!Rewrite, FP!Notifies
  <1>6. ASSUME NEW a PROVE F!Succeed(a) => FP!Succeed(a)
    BY DEF F!Succeed, F!Live, F!Reset, F!InFlight, F!Adding,
           FP!Succeed, FP!Live, FP!Reset, FP!InFlight, FP!Adding
  <1>7. ASSUME NEW a PROVE F!Unban(a) => FP!Unban(a)
    BY DEF F!Unban, F!notices,
           FP!Unban, FP!notices
  <1>8. ASSUME NEW a PROVE F!Unbanned(a) => FP!Unbanned(a)
    BY DEF F!Unbanned, F!Reset, F!InFlight, F!Adding, F!Dismiss,
           FP!Unbanned, FP!Reset, FP!InFlight, FP!Adding, FP!Dismiss
  <1>9. ASSUME NEW a PROVE F!Silence(a) => FP!Silence(a)
    BY DEF F!Silence, F!Dismiss,
           FP!Silence, FP!Dismiss
  <1>10. ASSUME NEW a PROVE F!Unsilence(a) => FP!Unsilence(a)
    BY DEF F!Unsilence,
           FP!Unsilence
  <1>11. ASSUME NEW r \in RuleSets PROVE F!Edit(r) => FP!Edit(r)
    BY DEF F!Edit, F!InFlight,
           FP!Edit, FP!InFlight
  <1>12. F!SilenceAll => FP!SilenceAll
    BY DEF F!SilenceAll, F!Dismiss,
           FP!SilenceAll, FP!Dismiss
  <1>13. F!RewriteAgain => FP!RewriteAgain
    BY DEF F!RewriteAgain, F!Rewrite, F!Notifies,
           FP!RewriteAgain, FP!Rewrite, FP!Notifies
  <1> QED
    BY <1>1, <1>2, <1>3, <1>4, <1>5, <1>6, <1>7, <1>8, <1>9, <1>10, <1>11, <1>12, <1>13
       DEF F!Next, FP!Next

LEMMA LoginMoves ==
    ASSUME [ServiceNext]_service
    PROVE  [FP!Next]_(FP!vars)
  <1>1. CASE UNCHANGED service
    BY <1>1 DEF service, login, FP!vars, FP!notices
  <1>2. CASE UNCHANGED login
    BY <1>2 DEF login, FP!vars, FP!notices
  <1>3. CASE Part("login", F!Next)
    BY <1>3, LoginSteps DEF Part
  <1> QED
    BY <1>1, <1>2, <1>3 DEF ServiceNext, ServiceRun

LEMMA LoginAlways ==
    ServiceSpec => []FP!Inv
  <1>1. FP!LoginAssumption
    BY SameAssumption
  <1>2. ServiceInit => FP!Inv
    <2>1. F!Init => FP!Init
      BY DEF F!Init, F!NoRequest, FP!Init, FP!NoRequest
    <2> QED
      BY <1>1, <2>1, FP!InitInv DEF ServiceInit
  <1>3. FP!Inv /\ [ServiceNext]_service => FP!Inv'
    BY <1>1, LoginMoves, FP!InvStep
  <1> QED
    BY <1>2, <1>3, PTL DEF ServiceSpec

\* LoginFlow: bans, escalations and the notice follow the counts and the
\* settings, whatever overlaps (http_patches.py, notifications.py).
THEOREM FailuresAreAnswered ==
    ServiceSpec => []FailuresAnswered
  <1>1. FP!LoginAssumption
    BY SameAssumption
  <1>2. FP!Inv => FP!FailuresAnswered
    BY <1>1, FP!InvAnswers
  <1>3. FP!CountsMeetBans => F!CountsMeetBans
    BY DEF F!CountsMeetBans, F!InFlight, F!Protected, F!Limit, F!Regional, F!Live,
           FP!CountsMeetBans, FP!InFlight, FP!Protected, FP!Limit, FP!Regional, FP!Live
  <1>4. FP!EscalatedOnce => F!EscalatedOnce
    BY DEF F!EscalatedOnce, FP!EscalatedOnce
  <1>5. FP!NoticeWanted => F!NoticeWanted
    BY DEF F!NoticeWanted, F!Adding, F!InFlight, FP!NoticeWanted, FP!Adding, FP!InFlight
  <1>6. FP!Inv => FailuresAnswered
    BY <1>2, <1>3, <1>4, <1>5 DEF F!FailuresAnswered, FP!FailuresAnswered, FailuresAnswered, While
  <1> QED
    BY <1>6, LoginAlways, PTL

LEMMA LoginTyped ==
    FP!Inv => F!TypeOK
  <1>1. FP!Inv => FP!TypeOK
    BY SameAssumption, FP!InvTyped
  <1>2. FP!TypeOK => F!TypeOK
    <2>1. F!Cardinality(notice) = FP!Cardinality(notice)
      BY SameLibrary
    <2>2. F!Limits = FP!Limits
      BY DEF F!Limits, FP!Limits
    <2> QED
      BY <2>1, <2>2 DEF F!TypeOK, FP!TypeOK
  <1> QED
    BY <1>1, <1>2

-----------------------------------------------------------------------------
(* The activity history.                                                   *)

Written == [by : H!Drain \cup H!Save, what : H!Stored]
Busy(d) == drain[d].pc \notin {"idle", "done"}
Reports == {"on", "unloading", "stopping"}

\* What is kept in each phase, and where the flush stands.
HistoryShape ==
    /\ disk.cut \subseteq happened
    /\ \A i \in DOMAIN writes : writes[i].what.cut \subseteq happened
    /\ \A s \in H!Session : load[s].got.cut \subseteq happened
    /\ \A d \in H!Drain : drain[d].at \subseteq happened
    /\ phase \in Reports => loaded
    /\ ~ loaded => memory = {}
    /\ \A s \in H!Session : H!Pending(s) => load[s].existing = {}
    /\ phase = "on" => drain[Flush].pc = "idle"
    /\ phase \in {"unloading", "stopping"} => drain[Flush].pc \in {"load", "cancel", "write"}
    /\ phase = "off" => drain[Flush].pc \in {"idle", "done"}
    /\ phase = "stopped" => drain[Flush].pc = "done"
    /\ \A d \in H!Drain : /\ drain[d].pc = "load" => drain[d].on \in H!Session
                          /\ drain[d].pc = "cancel" => drain[d].on \in H!Save
                          /\ H!Writing(d) => drain[d].pc = "write"

\* One load at a time, and whoever is at work waits for it.
Waited == excuses \cap {"unwaited", "unloaded"} = {}
LoadsFit ==
    /\ phase = "off" => ~ loaded
    /\ \A s \in H!Session : H!Pending(s) =>
          /\ s = session /\ phase \in Reports
          /\ \A d \in H!Drain : Busy(d) => drain[d].pc = "load" /\ drain[d].on = s /\ loadKey # s

\* What was cleared is in no file, write or load; the time of the clear is in
\* all of them.  A clear at work has emptied the history, and everything that
\* is written from its own write on knows of it.
Unspoiled == excuses \cap {"overtaken", "failed", "early", "unwaited", "unloaded"} = {}
Without(p, events) == p.events \cap events = {} /\ events \subseteq p.cut
Blank ==
    /\ phase = "off" /\ ~ loaded /\ \A t \in H!Save : save[t] \in {"new", "done"}
    /\ \A d \in H!Drain : ~ Busy(d)
ClearFits(c) ==
    drain[c].pc = "write" =>
        /\ drain[c].at \subseteq cut /\ memory \cap drain[c].at = {}
        /\ \A j \in DOMAIN writes :
              ~ H!Writing(c) \/ (\E i \in 1 .. j : writes[i].by = c) =>
                  Without(writes[j].what, drain[c].at)
        /\ ~ H!Writing(c) => Without(disk, drain[c].at)
ClearsFit ==
    /\ H!Loading \/ Blank \/ gone \subseteq cut
    /\ ~ H!Loading => memory \cap gone = {}
    /\ Without(disk, gone)
    /\ \A i \in DOMAIN writes : Without(writes[i].what, gone)
    /\ \A s \in H!Session : load[s].pc = "read" => Without(load[s].got, gone)
    /\ \A c \in Clear : ClearFits(c)

\* What was accepted outside a load is in memory, and during a load in the
\* file it reads; from the flush's work on it is in the flush's write, and
\* then in the file.
Active(t) == save[t] \in {"sleep", "write"}
Owed == promised \ aged
Last == writes[Len(writes)]
FlushFits ==
    /\ \A t \in H!Save : Active(t) => saveKey = t
    /\ phase \in {"off", "stopped"} \/ drain[Flush].pc \in {"cancel", "write"} =>
          \A t \in H!Save : ~ Active(t)
    /\ phase \in {"off", "stopped"} => writes = <<>> /\ Owed \subseteq disk.events
    /\ drain[Flush].pc = "write" =>
          \/ writes = <<>> /\ Owed \subseteq disk.events
          \/ writes # <<>> /\ Last.by = Flush /\ Owed \subseteq Last.what.events
    /\ phase \in Reports /\ drain[Flush].pc # "write" =>
          /\ ~ H!Loading => Owed \subseteq memory
          /\ \A s \in H!Session :
                /\ load[s].pc = "reading" => writes = <<>> /\ Owed \subseteq disk.events
                /\ load[s].pc = "read" => Owed \subseteq load[s].got.events

HistoryInv ==
    /\ H!TypeOK /\ HistoryShape
    /\ Waited => LoadsFit
    /\ Unspoiled => ClearsFit
    /\ excuses = {} => FlushFits

\* Marks stay, so what they allow for has not happened yet if it has not
\* happened after the step.
LEMMA MarksStay ==
    ASSUME HistoryInv, excuses \subseteq excuses'
    PROVE  /\ Waited' => LoadsFit
           /\ Unspoiled' => ClearsFit /\ LoadsFit /\ Waited'
           /\ excuses' = {} => FlushFits /\ ClearsFit /\ LoadsFit /\ Waited' /\ Unspoiled'
  BY DEF HistoryInv, Waited, Unspoiled

LEMMA HistoryConstants ==
    /\ Flush \notin Clear /\ \A d \in H!Drain : d \notin H!Save
    /\ MaxSessions \in Nat /\ MaxSaves \in Nat
    /\ H!Drain = Clear \cup {Flush} /\ H!Session = 1 .. MaxSessions /\ H!Save = 1 .. MaxSaves
  BY ServiceAssumption DEF H!ActivityAssumption, H!Drain, H!Session, H!Save

\* A write that is taken out of the queue, and one that is put into it.
LEMMA WriteRemoved ==
    ASSUME H!TypeOK, NEW i \in DOMAIN writes, writes' = H!RemoveAt(writes, i)
    PROVE  /\ writes' \in Seq(Written) /\ Len(writes) \in Nat /\ Len(writes') = Len(writes) - 1
           /\ DOMAIN writes = 1 .. Len(writes) /\ DOMAIN writes' = 1 .. Len(writes')
           /\ \A j \in DOMAIN writes' : writes'[j] = IF j < i THEN writes[j] ELSE writes[j + 1]
  <1>1. /\ writes \in Seq(Written) /\ Len(writes) \in Nat /\ DOMAIN writes = 1 .. Len(writes)
        /\ \A j \in 1 .. Len(writes) : writes[j] \in Written
    <2>1. writes \in Seq(Written)
      BY DEF H!TypeOK, Written
    <2> QED
      BY <2>1, ElementOfSeq
  <1> DEFINE front == SubSeq(writes, 1, i - 1)
             back == SubSeq(writes, i + 1, Len(writes))
  <1>2. i \in 1 .. Len(writes)
    BY <1>1
  <1>3. /\ front \in Seq(Written) /\ Len(front) = i - 1
        /\ \A j \in 1 .. i - 1 : front[j] = writes[j]
    <2>1. /\ 1 \in Int /\ i - 1 \in Int /\ \A j \in 1 .. i - 1 : writes[j] \in Written
      BY <1>1, <1>2
    <2>2. /\ front \in Seq(Written) /\ Len(front) = IF 1 <= i - 1 THEN i - 1 - 1 + 1 ELSE 0
          /\ \A j \in 1 .. i - 1 - 1 + 1 : front[j] = writes[1 + j - 1]
      BY <2>1, SubSeqProperties
    <2> QED
      BY <1>2, <2>2
  <1>4. /\ back \in Seq(Written) /\ Len(back) = Len(writes) - i
        /\ \A j \in 1 .. Len(writes) - i : back[j] = writes[j + i]
    <2>1. /\ i + 1 \in Int /\ Len(writes) \in Int
          /\ \A j \in i + 1 .. Len(writes) : writes[j] \in Written
      BY <1>1, <1>2
    <2>2. /\ back \in Seq(Written)
          /\ Len(back) = IF i + 1 <= Len(writes) THEN Len(writes) - (i + 1) + 1 ELSE 0
          /\ \A j \in 1 .. Len(writes) - (i + 1) + 1 : back[j] = writes[i + 1 + j - 1]
      BY <2>1, SubSeqProperties
    <2> HIDE DEF back
    <2>3. /\ Len(back) = Len(writes) - i
          /\ \A j \in 1 .. Len(writes) - i :
                j \in 1 .. Len(writes) - (i + 1) + 1 /\ i + 1 + j - 1 = j + i
      BY <1>1, <1>2, <2>2
    <2> QED
      BY <2>2, <2>3
  <1>5. writes' = front \o back
    BY DEF H!RemoveAt
  <1> HIDE DEF front, back
  <1>6. /\ front \o back \in Seq(Written) /\ Len(front \o back) = Len(front) + Len(back)
        /\ \A j \in 1 .. Len(front) + Len(back) : (front \o back)[j] =
              IF j <= Len(front) THEN front[j] ELSE back[j - Len(front)]
    BY <1>3, <1>4, ConcatProperties
  <1>7. /\ writes' \in Seq(Written) /\ Len(writes') = Len(writes) - 1
        /\ DOMAIN writes' = 1 .. Len(writes')
    BY <1>1, <1>2, <1>3, <1>4, <1>5, <1>6
  <1>8. ASSUME NEW j \in 1 .. Len(writes) - 1
        PROVE  writes'[j] = IF j < i THEN writes[j] ELSE writes[j + 1]
    <2>1. CASE j < i
      BY <1>1, <1>2, <1>3, <1>4, <1>5, <1>6, <2>1
    <2>2. CASE ~ (j < i)
      <3>1. j - (i - 1) \in 1 .. Len(writes) - i /\ j - (i - 1) + i = j + 1
        BY <1>1, <1>2, <2>2
      <3>2. writes'[j] = back[j - (i - 1)]
        BY <1>1, <1>2, <1>3, <1>4, <1>5, <1>6, <2>2
      <3> QED
        BY <1>4, <2>2, <3>1, <3>2
    <2> QED
      BY <2>1, <2>2
  <1> QED
    BY <1>1, <1>7, <1>8

LEMMA WriteSubmitted ==
    ASSUME H!TypeOK, NEW who \in H!Drain \cup H!Save, NEW what \in H!Stored, H!Submit(who, what)
    PROVE  /\ writes' \in Seq(Written) /\ Len(writes) \in Nat /\ Len(writes') = Len(writes) + 1
           /\ DOMAIN writes = 1 .. Len(writes) /\ DOMAIN writes' = 1 .. Len(writes')
           /\ \A j \in DOMAIN writes : writes'[j] = writes[j]
           /\ writes'[Len(writes')] = [by |-> who, what |-> what] /\ writes' # <<>>
  <1>1. /\ writes \in Seq(Written) /\ [by |-> who, what |-> what] \in Written
        /\ writes' = Append(writes, [by |-> who, what |-> what])
    BY DEF H!TypeOK, Written, H!Submit
  <1> QED
    BY <1>1, AppendProperties

-----------------------------------------------------------------------------
\* Time passes, and nothing else.
LEMMA QuietKeeps ==
    ASSUME HistoryInv, fetching' \in BOOLEAN,
           happened \subseteq happened', happened' \subseteq Event,
           aged \subseteq aged', aged' \subseteq happened',
           UNCHANGED <<phase, session, listening, loaded, memory, cut, disk, writes, load,
                       loadKey, save, saveKey, drain, promised, gone, excuses>>
    PROVE  HistoryInv'
  <1>1. H!TypeOK'
    <2>1. /\ cut' \subseteq happened' /\ gone' \subseteq happened'
      BY DEF HistoryInv, H!TypeOK
    <2> QED
      BY <2>1 DEF HistoryInv, H!TypeOK
  <1>2. /\ \A s \in H!Session : H!Pending(s)' = H!Pending(s)
        /\ H!Loading' = H!Loading /\ \A who : H!Writing(who)' = H!Writing(who)
    BY DEF H!Pending, H!Loading, H!Writing
  <1>3. HistoryShape'
    BY <1>2 DEF HistoryInv, HistoryShape
  <1>4. Waited' => LoadsFit'
    BY <1>2 DEF HistoryInv, LoadsFit, Waited, Busy
  <1>5. Unspoiled' => ClearsFit'
    BY <1>2 DEF HistoryInv, ClearsFit, Unspoiled, ClearFits, Blank, Without, Busy
  <1>6. excuses' = {} => FlushFits'
    BY <1>2 DEF HistoryInv, FlushFits, Active, Owed, Last
  <1> QED
    BY <1>1, <1>3, <1>4, <1>5, <1>6 DEF HistoryInv

LEMMA StartKeeps ==
    ASSUME HistoryInv, H!Start
    PROVE  HistoryInv'
  <1> DEFINE new == [pc |-> "reading", existing |-> memory,
                     got |-> [events |-> {}, cut |-> {}]]
             none == [pc |-> "idle", on |-> 0, at |-> {}]
  <1>1. /\ phase = "off" /\ session < MaxSessions /\ phase' = "on" /\ session' = session + 1
        /\ drain' = [drain EXCEPT ![Flush] = none]
        /\ excuses' = IF \E c \in Clear : drain[c].pc \notin {"idle", "done"}
                      THEN excuses \cup {"unloaded"} ELSE excuses
        /\ UNCHANGED <<memory, cut, disk, writes, save, saveKey, fetching, happened, aged,
                       promised, gone>>
    BY DEF H!Start, H!MarkIf, H!NoDrain, H!env
  <1>2. \/ loaded /\ UNCHANGED <<listening, loaded, load, loadKey>>
        \/ /\ ~ loaded /\ listening' = TRUE /\ loaded' = TRUE /\ loadKey' = session'
           /\ load' = [load EXCEPT ![session'] = new]
    BY DEF H!Start, H!NoLoad
  <1>3. session' \in H!Session /\ session \in Nat
    BY <1>1, HistoryConstants DEF HistoryInv, H!TypeOK
  <1>4. excuses \subseteq excuses'
    BY <1>1
  <1>5. /\ drain'[Flush] = none /\ \A d \in H!Drain \ {Flush} : drain'[d] = drain[d]
        /\ \A d \in Clear : d \in H!Drain \ {Flush}
    BY <1>1, HistoryConstants DEF HistoryInv, H!TypeOK
  <1>6. ~ loaded => load'[session'] = new /\ \A s \in H!Session \ {session'} : load'[s] = load[s]
    BY <1>2, <1>3 DEF HistoryInv, H!TypeOK
  <1>7. H!TypeOK'
    <2>1. /\ new \in [pc : {"none", "reading", "read", "done"}, existing : SUBSET Event,
                      got : H!Stored]
          /\ none \in [pc : {"idle", "load", "cancel", "write", "done"},
                       on : 0 .. MaxSessions + MaxSaves, at : SUBSET Event]
      BY HistoryConstants DEF HistoryInv, H!TypeOK, H!Stored
    <2> HIDE DEF new, none
    <2>2. /\ load' \in [H!Session -> [pc : {"none", "reading", "read", "done"},
                                      existing : SUBSET Event, got : H!Stored]]
          /\ loadKey' \in H!Session \cup {0} /\ listening' \in BOOLEAN /\ loaded' \in BOOLEAN
      BY <1>2, <1>3, <2>1 DEF HistoryInv, H!TypeOK
    <2>3. drain' \in [H!Drain -> [pc : {"idle", "load", "cancel", "write", "done"},
                                  on : 0 .. MaxSessions + MaxSaves, at : SUBSET Event]]
      BY <1>1, <2>1 DEF HistoryInv, H!TypeOK
    <2>4. session' \in 0 .. MaxSessions /\ phase' \in {"off", "on", "unloading", "stopping", "stopped"}
      BY <1>1, <1>3, HistoryConstants
    <2>5. excuses' \subseteq H!Marks
      BY <1>1 DEF HistoryInv, H!TypeOK, H!Marks
    <2> QED
      BY <1>1, <2>2, <2>3, <2>4, <2>5 DEF HistoryInv, H!TypeOK
  <1>8. HistoryShape'
    <2>1. /\ \A d \in H!Drain : drain'[d].at \subseteq happened'
          /\ \A d \in H!Drain : /\ drain'[d].pc = "load" => drain'[d].on \in H!Session
                                /\ drain'[d].pc = "cancel" => drain'[d].on \in H!Save
      BY <1>1, <1>5 DEF HistoryInv, HistoryShape
    <2>2. \A d \in H!Drain : H!Writing(d)' => drain'[d].pc = "write"
      <3>1. \A d \in H!Drain : H!Writing(d)' => H!Writing(d)
        BY <1>1 DEF H!Writing
      <3>2. Flush \in H!Drain /\ ~ H!Writing(Flush)
        BY <1>1, HistoryConstants DEF HistoryInv, HistoryShape
      <3> QED
        BY <1>5, <3>1, <3>2 DEF HistoryInv, HistoryShape
    <2>3. \A s \in H!Session : load'[s].got.cut \subseteq happened'
      BY <1>1, <1>2, <1>3, <1>6 DEF HistoryInv, HistoryShape
    <2>4. \A s \in H!Session : H!Pending(s)' => load'[s].existing = {}
      BY <1>1, <1>2, <1>3, <1>6 DEF HistoryInv, HistoryShape, H!Pending
    <2>5. phase' = "on" /\ loaded' /\ drain'[Flush].pc = "idle"
      BY <1>1, <1>2, <1>5
    <2> QED
      BY <1>1, <2>1, <2>2, <2>3, <2>4, <2>5 DEF HistoryInv, HistoryShape
  <1>9. ASSUME Waited' PROVE LoadsFit' /\ ~ loaded /\ ~ H!Loading /\ \A d \in H!Drain : ~ Busy(d)'
    <2>1. LoadsFit /\ \A c \in Clear : ~ Busy(c)
      BY <1>1, <1>4, <1>9, MarksStay DEF Waited, Busy
    <2>2. ~ loaded /\ \A s \in H!Session : ~ H!Pending(s)
      BY <1>1, <2>1 DEF LoadsFit, Reports
    <2>3. \A d \in H!Drain : ~ Busy(d)'
      BY <1>5, <2>1, HistoryConstants DEF Busy
    <2>4. \A s \in H!Session : H!Pending(s)' => s = session'
      BY <1>6, <2>2 DEF H!Pending
    <2> QED
      BY <1>1, <2>2, <2>3, <2>4 DEF LoadsFit, Reports, H!Loading
  <1>10. ASSUME Unspoiled' PROVE ClearsFit'
    <2>1. ClearsFit /\ Waited'
      BY <1>4, <1>10, MarksStay
    <2>2. ~ loaded /\ ~ H!Loading /\ \A d \in H!Drain : ~ Busy(d)'
      BY <1>9, <2>1
    <2>3. H!Loading'
      BY <1>3, <1>6, <2>2 DEF H!Loading, H!Pending
    <2>4. \A s \in H!Session : load'[s].pc # "read"
      BY <1>3, <1>6, <2>2 DEF H!Loading, H!Pending
    <2>5. \A c \in Clear : ClearFits(c)'
      BY <1>5, <2>2, HistoryConstants DEF ClearFits, Busy
    <2> QED
      BY <1>1, <2>1, <2>3, <2>4, <2>5 DEF ClearsFit, Without
  <1>11. ASSUME excuses' = {} PROVE FlushFits'
    <2>1. FlushFits /\ Waited'
      BY <1>4, <1>11, MarksStay
    <2>2. ~ loaded /\ ~ H!Loading
      BY <1>9, <2>1
    <2>3. writes = <<>> /\ Owed \subseteq disk.events
      BY <1>1, <2>1 DEF FlushFits
    <2>4. H!Loading' /\ \A s \in H!Session : load'[s].pc # "read"
      BY <1>3, <1>6, <2>2 DEF H!Loading, H!Pending
    <2> QED
      BY <1>1, <1>5, <2>1, <2>3, <2>4 DEF FlushFits, Active, Owed
  <1> QED
    BY <1>7, <1>8, <1>9, <1>10, <1>11 DEF HistoryInv

LEMMA LoadReadKeeps ==
    ASSUME HistoryInv, NEW s \in H!Session, H!LoadRead(s)
    PROVE  HistoryInv'
  <1>1. /\ load[s].pc = "reading"
        /\ load' = [load EXCEPT ![s].pc = "read", ![s].got = disk]
        /\ UNCHANGED <<phase, session, listening, loaded, memory, cut, disk, writes, loadKey,
                       save, saveKey, drain, fetching, happened, aged, promised, gone, excuses>>
    BY DEF H!LoadRead, H!env
  <1>2. /\ load'[s].pc = "read" /\ load'[s].got = disk /\ load'[s].existing = load[s].existing
        /\ \A r \in H!Session \ {s} : load'[r] = load[r]
        /\ load' \in [H!Session -> [pc : {"none", "reading", "read", "done"},
                                    existing : SUBSET Event, got : H!Stored]]
    <2>1. /\ load \in [H!Session -> [pc : {"none", "reading", "read", "done"},
                                     existing : SUBSET Event, got : H!Stored]]
          /\ disk \in H!Stored
      BY DEF HistoryInv, H!TypeOK
    <2>2. /\ load'[s] = [load[s] EXCEPT !.pc = "read", !.got = disk]
          /\ \A r \in H!Session \ {s} : load'[r] = load[r]
          /\ DOMAIN load' = H!Session /\ load' = [r \in H!Session |-> load'[r]]
      BY <1>1, <2>1
    <2>3. /\ load[s] \in [pc : {"none", "reading", "read", "done"},
                          existing : SUBSET Event, got : H!Stored]
      BY <2>1
    <2>4. /\ load'[s].pc = "read" /\ load'[s].got = disk /\ load'[s].existing = load[s].existing
          /\ load'[s] \in [pc : {"none", "reading", "read", "done"},
                           existing : SUBSET Event, got : H!Stored]
      BY <2>1, <2>2, <2>3
    <2>5. \A r \in H!Session : load'[r] \in [pc : {"none", "reading", "read", "done"},
                                            existing : SUBSET Event, got : H!Stored]
      BY <2>1, <2>2, <2>4
    <2> QED
      BY <2>2, <2>4, <2>5
  <1>3. /\ \A r \in H!Session : H!Pending(r)' = H!Pending(r)
        /\ H!Loading' = H!Loading /\ \A who : H!Writing(who)' = H!Writing(who)
    BY <1>1, <1>2 DEF H!Pending, H!Loading, H!Writing
  <1>4. H!TypeOK'
    BY <1>1, <1>2 DEF HistoryInv, H!TypeOK
  <1>5. HistoryShape'
    <2>1. \A r \in H!Session : load'[r].got.cut \subseteq happened'
      BY <1>1, <1>2 DEF HistoryInv, HistoryShape
    <2>2. \A r \in H!Session : H!Pending(r)' => load'[r].existing = {}
      BY <1>2, <1>3 DEF HistoryInv, HistoryShape
    <2> QED
      BY <1>1, <1>3, <2>1, <2>2 DEF HistoryInv, HistoryShape
  <1>6. Waited' => LoadsFit'
    BY <1>1, <1>3 DEF HistoryInv, LoadsFit, Waited, Busy
  <1>7. ASSUME Unspoiled' PROVE ClearsFit'
    <2>1. ClearsFit
      BY <1>1, <1>7, MarksStay
    <2>2. \A r \in H!Session : load'[r].pc = "read" => Without(load'[r].got, gone')
      BY <1>1, <1>2, <2>1 DEF ClearsFit, Without
    <2>3. Blank' = Blank /\ \A c \in Clear : ClearFits(c)' = ClearFits(c)
      BY <1>1, <1>3 DEF Blank, Busy, ClearFits, Without
    <2> QED
      BY <1>1, <1>3, <2>1, <2>2, <2>3 DEF ClearsFit, Without
  <1>8. ASSUME excuses' = {} PROVE FlushFits'
    <2>1. FlushFits /\ LoadsFit
      BY <1>1, <1>8, MarksStay
    <2>2. phase \in Reports /\ drain[Flush].pc # "write"
      <3>1. H!Pending(s) /\ Flush \in H!Drain
        BY <1>1, HistoryConstants DEF H!Pending
      <3> QED
        BY <2>1, <3>1 DEF LoadsFit, Busy
    <2>3. \A r \in H!Session :
             /\ load'[r].pc = "reading" => writes = <<>> /\ Owed \subseteq disk.events
             /\ load'[r].pc = "read" => Owed \subseteq load'[r].got.events
      BY <1>1, <1>2, <2>1, <2>2 DEF FlushFits
    <2> QED
      BY <1>1, <1>3, <2>1, <2>3 DEF FlushFits, Active, Owed, Last
  <1> QED
    BY <1>4, <1>5, <1>6, <1>7, <1>8 DEF HistoryInv

LEMMA LoadDoneKeeps ==
    ASSUME HistoryInv, NEW s \in H!Session, H!LoadEnd(s)
    PROVE  HistoryInv'
  <1> DEFINE over == [pc |-> "done", existing |-> {}, got |-> [events |-> {}, cut |-> {}]]
  <1>1. /\ load[s].pc = "read" /\ load' = [load EXCEPT ![s] = over]
        /\ memory' = (load[s].got.events \cup load[s].existing) \ aged
        /\ cut' = IF load[s].got.cut = {} THEN cut ELSE load[s].got.cut
        /\ loaded' = TRUE
        /\ UNCHANGED <<phase, session, listening, disk, writes, loadKey, save, saveKey, drain,
                       fetching, happened, aged, promised, gone, excuses>>
    <2>1. /\ load[s].pc = "read" /\ load' = [load EXCEPT ![s] = [H!NoLoad EXCEPT !.pc = "done"]]
          /\ memory' = (load[s].got.events \cup load[s].existing) \ aged
          /\ cut' = IF load[s].got.cut = {} THEN cut ELSE load[s].got.cut
          /\ loaded' = TRUE
          /\ UNCHANGED <<phase, session, listening, disk, writes, loadKey, save, saveKey, drain,
                         fetching, happened, aged, promised, gone, excuses>>
      BY DEF H!LoadEnd, H!Kept, H!env
    <2>2. [H!NoLoad EXCEPT !.pc = "done"] = over
      BY DEF H!NoLoad
    <2> QED
      BY <2>1, <2>2
  <1>2. /\ load[s].existing = {} /\ H!Pending(s) /\ load[s].got \in H!Stored
        /\ load[s].got.cut \subseteq happened
    BY <1>1 DEF HistoryInv, HistoryShape, H!Pending, H!TypeOK
  <1>3. /\ load'[s] = over /\ \A r \in H!Session \ {s} : load'[r] = load[r]
        /\ load' \in [H!Session -> [pc : {"none", "reading", "read", "done"},
                                    existing : SUBSET Event, got : H!Stored]]
    BY <1>1 DEF HistoryInv, H!TypeOK, H!Stored
  <1>4. /\ ~ H!Pending(s)' /\ \A r \in H!Session \ {s} : H!Pending(r)' = H!Pending(r)
        /\ \A who : H!Writing(who)' = H!Writing(who)
    BY <1>1, <1>3 DEF H!Pending, H!Writing
  <1>5. H!TypeOK'
    <2>1. memory' \subseteq Event /\ cut' \subseteq happened'
      BY <1>1, <1>2 DEF HistoryInv, H!TypeOK, H!Stored
    <2> QED
      BY <1>1, <1>3, <2>1 DEF HistoryInv, H!TypeOK
  <1>6. HistoryShape'
    <2>1. \A r \in H!Session : load'[r].got.cut \subseteq happened'
      BY <1>1, <1>3 DEF HistoryInv, HistoryShape
    <2>2. \A r \in H!Session : H!Pending(r)' => load'[r].existing = {}
      BY <1>3, <1>4 DEF HistoryInv, HistoryShape
    <2> QED
      BY <1>1, <1>4, <2>1, <2>2 DEF HistoryInv, HistoryShape
  <1>7. ASSUME Waited'
        PROVE  /\ LoadsFit' /\ ~ H!Loading' /\ phase \in Reports
               /\ \A d \in H!Drain : Busy(d) => drain[d].pc = "load"
    <2>1. LoadsFit
      BY <1>1, <1>7, MarksStay
    <2>2. \A r \in H!Session : ~ H!Pending(r)'
      BY <1>2, <1>4, <2>1 DEF LoadsFit
    <2> QED
      BY <1>1, <1>2, <2>1, <2>2 DEF LoadsFit, H!Loading, Reports
  <1>8. ASSUME Unspoiled' PROVE ClearsFit'
    <2>1. ClearsFit /\ Waited'
      BY <1>1, <1>8, MarksStay
    <2>2. Without(load[s].got, gone)
      BY <1>1, <2>1 DEF ClearsFit
    <2>3. gone' \subseteq cut' /\ memory' \cap gone' = {}
      BY <1>1, <1>2, <2>2 DEF Without
    <2>4. \A r \in H!Session : load'[r].pc # "read"
      BY <1>7, <2>1 DEF H!Loading, H!Pending
    <2>5. \A c \in Clear : ClearFits(c)'
      <3>1. \A c \in Clear : c \in H!Drain /\ drain'[c].pc # "write"
        BY <1>1, <1>7, <2>1, HistoryConstants DEF Busy
      <3> QED
        BY <3>1 DEF ClearFits
    <2> QED
      BY <1>1, <2>1, <2>3, <2>4, <2>5 DEF ClearsFit, Without
  <1>9. ASSUME excuses' = {} PROVE FlushFits'
    <2>1. FlushFits /\ Waited'
      BY <1>1, <1>9, MarksStay
    <2>2. /\ phase \in Reports /\ drain[Flush].pc # "write" /\ ~ H!Loading'
          /\ \A r \in H!Session : load'[r].pc \notin {"reading", "read"}
      BY <1>7, <2>1, HistoryConstants DEF Busy, H!Loading, H!Pending
    <2>3. Owed \subseteq load[s].got.events
      BY <1>1, <2>1, <2>2 DEF FlushFits
    <2>4. Owed' \subseteq memory'
      BY <1>1, <2>3 DEF Owed
    <2> QED
      BY <1>1, <2>1, <2>2, <2>4 DEF FlushFits, Active, Reports
  <1> QED
    BY <1>5, <1>6, <1>7, <1>8, <1>9 DEF HistoryInv

LEMMA ScheduleEffects ==
    ASSUME H!TypeOK, H!Schedule
    PROVE  /\ save' \in [H!Save -> {"new", "sleep", "write", "cancelled", "done"}]
           /\ saveKey' \in H!Save \cup {0}
           /\ (\A t \in H!Save : Active(t) => saveKey = t) =>
                 \A t \in H!Save : Active(t)' => saveKey' = t
  <1>1. /\ save \in [H!Save -> {"new", "sleep", "write", "cancelled", "done"}]
        /\ saveKey \in H!Save \cup {0} /\ 0 \notin H!Save
    BY HistoryConstants DEF H!TypeOK
  <1>2. CASE saveKey # 0 /\ save[saveKey] # "done"
    BY <1>1, <1>2 DEF H!Schedule, Active
  <1>3. CASE ~ (saveKey # 0 /\ save[saveKey] # "done")
    <2>1. PICK t \in H!Save : save' = [save EXCEPT ![t] = "sleep"] /\ saveKey' = t
      BY <1>3 DEF H!Schedule
    <2>2. save'[t] = "sleep" /\ \A u \in H!Save \ {t} : save'[u] = save[u]
      BY <1>1, <2>1
    <2>3. (\A u \in H!Save : Active(u) => saveKey = u) => \A u \in H!Save : ~ Active(u)
      BY <1>1, <1>3 DEF Active
    <2> QED
      BY <1>1, <2>1, <2>2, <2>3 DEF Active
  <1> QED
    BY <1>2, <1>3

LEMMA AcceptKeeps ==
    ASSUME HistoryInv, NEW events \in SUBSET Event, H!Accept(events),
           fetching' \in BOOLEAN, happened \subseteq happened', happened' \subseteq Event,
           UNCHANGED <<phase, session, listening, loaded, cut, disk, writes, load, loadKey,
                       drain, aged, gone>>
    PROVE  HistoryInv'
  <1> DEFINE fresh == IF loaded THEN (events \ cut) \ memory ELSE {}
  <1>1. fresh \subseteq Event /\ fresh \cap cut = {} /\ (fresh # {} => loaded)
    OBVIOUS
  <1>2. CASE fresh = {}
    <2>1. UNCHANGED <<memory, save, saveKey, promised, excuses>>
      BY <1>2 DEF H!Accept
    <2> QED
      BY <2>1, QuietKeeps DEF HistoryInv, H!TypeOK
  <1>3. CASE fresh # {}
    <2>1. /\ memory' = (memory \cup fresh) \ aged /\ promised' = promised \cup IF H!Loading THEN {} ELSE fresh
          /\ H!Schedule /\ loaded
          /\ excuses' = IF drain[Flush].pc \in {"cancel", "write", "done"}
                        THEN excuses \cup {"late"} ELSE excuses
      BY <1>1, <1>3 DEF H!Accept, H!Kept, H!MarkIf
    <2> HIDE DEF fresh
    <2>2. excuses \subseteq excuses' /\ excuses' \subseteq H!Marks
      BY <2>1 DEF HistoryInv, H!TypeOK, H!Marks
    <2>3. /\ save' \in [H!Save -> {"new", "sleep", "write", "cancelled", "done"}]
          /\ saveKey' \in H!Save \cup {0}
          /\ (\A t \in H!Save : Active(t) => saveKey = t) =>
                \A t \in H!Save : Active(t)' => saveKey' = t
      BY <2>1, ScheduleEffects DEF HistoryInv
    <2>4. /\ \A s \in H!Session : H!Pending(s)' = H!Pending(s)
          /\ H!Loading' = H!Loading /\ \A who : H!Writing(who)' = H!Writing(who)
      BY DEF H!Pending, H!Loading, H!Writing
    <2>5. H!TypeOK'
      <3>1. memory' \subseteq Event /\ promised' \subseteq Event
        BY <1>1, <2>1 DEF HistoryInv, H!TypeOK
      <3>2. cut' \subseteq happened' /\ gone' \subseteq happened' /\ aged' \subseteq happened'
        BY DEF HistoryInv, H!TypeOK
      <3> QED
        BY <2>2, <2>3, <3>1, <3>2 DEF HistoryInv, H!TypeOK
    <2>6. HistoryShape'
      BY <2>1, <2>4 DEF HistoryInv, HistoryShape
    <2>7. Waited' => LoadsFit'
      <3>1. Waited' => LoadsFit
        BY <2>2, MarksStay
      <3> QED
        BY <2>4, <3>1 DEF LoadsFit, Busy
    <2>8. ASSUME Unspoiled' PROVE ClearsFit'
      <3>1. ClearsFit /\ LoadsFit
        BY <2>2, <2>8, MarksStay
      <3>2. ~ Blank
        BY <2>1 DEF Blank
      <3>3. ~ H!Loading => memory' \cap gone' = {}
        BY <1>1, <2>1, <3>1, <3>2 DEF ClearsFit
      <3>4. ASSUME NEW c \in Clear PROVE ClearFits(c)'
        <4>1. ClearFits(c)
          BY <3>1 DEF ClearsFit
        <4>2. drain[c].pc = "write" => memory' \cap drain[c].at = {}
          BY <1>1, <2>1, <4>1 DEF ClearFits
        <4> QED
          BY <2>4, <4>1, <4>2 DEF ClearFits, Without
      <3> QED
        BY <2>4, <3>1, <3>2, <3>3, <3>4 DEF ClearsFit, Without
    <2>9. ASSUME excuses' = {} PROVE FlushFits'
      <3>1. FlushFits /\ LoadsFit
        BY <2>2, <2>9, MarksStay
      <3>2. drain[Flush].pc \notin {"cancel", "write", "done"}
        BY <2>1, <2>9
      <3>3. phase \notin {"off", "stopped"}
        BY <2>1, <3>1, <3>2 DEF LoadsFit, HistoryInv, HistoryShape
      <3>4. phase \in Reports
        BY <3>3 DEF HistoryInv, H!TypeOK, Reports
      <3>5. /\ Owed \subseteq memory => Owed' \subseteq memory'
            /\ H!Loading => Owed' = Owed
        BY <2>1 DEF Owed
      <3>6. ~ H!Loading => Owed' \subseteq memory'
        BY <2>1, <3>1, <3>2, <3>4, <3>5 DEF FlushFits
      <3>7. \A s \in H!Session :
               /\ load[s].pc = "reading" => writes = <<>> /\ Owed' \subseteq disk.events
               /\ load[s].pc = "read" => Owed' \subseteq load[s].got.events
        BY <3>1, <3>2, <3>4, <3>5 DEF FlushFits, H!Loading, H!Pending
      <3> QED
        BY <2>3, <2>4, <3>1, <3>2, <3>3, <3>6, <3>7 DEF FlushFits
    <2> QED
      BY <2>5, <2>6, <2>7, <2>8, <2>9 DEF HistoryInv
  <1> QED
    BY <1>2, <1>3

LEMMA SaveBeginKeeps ==
    ASSUME HistoryInv, NEW t \in H!Save, H!SaveBegin(t)
    PROVE  HistoryInv'
  <1> DEFINE payload == [events |-> memory \ aged, cut |-> cut]
  <1>1. /\ save[t] = "sleep" /\ save' = [save EXCEPT ![t] = "write"]
        /\ memory' = memory \ aged /\ H!Submit(t, payload)
        /\ excuses' = IF H!Loading THEN excuses \cup {"early"} ELSE excuses
        /\ UNCHANGED <<phase, session, listening, loaded, cut, disk, load, loadKey, saveKey,
                       drain, fetching, happened, aged, promised, gone>>
    BY DEF H!SaveBegin, H!Kept, H!Payload, H!MarkIf, H!env
  <1>2. payload \in H!Stored /\ cut \subseteq happened
    BY DEF HistoryInv, H!TypeOK, H!Stored
  <1>3. payload.events = memory' /\ payload.cut = cut
    BY <1>1
  <1> HIDE DEF payload
  <1>4. /\ writes' \in Seq(Written) /\ Len(writes) \in Nat /\ Len(writes') = Len(writes) + 1
        /\ DOMAIN writes = 1 .. Len(writes) /\ DOMAIN writes' = 1 .. Len(writes')
        /\ \A j \in DOMAIN writes : writes'[j] = writes[j]
        /\ writes'[Len(writes')] = [by |-> t, what |-> payload] /\ writes' # <<>>
    BY <1>1, <1>2, WriteSubmitted DEF HistoryInv
  <1>5. excuses \subseteq excuses' /\ excuses' \subseteq H!Marks
    BY <1>1 DEF HistoryInv, H!TypeOK, H!Marks
  <1>6. /\ save'[t] = "write" /\ \A u \in H!Save \ {t} : save'[u] = save[u]
        /\ save' \in [H!Save -> {"new", "sleep", "write", "cancelled", "done"}]
    BY <1>1 DEF HistoryInv, H!TypeOK
  <1>7. /\ \A s \in H!Session : H!Pending(s)' = H!Pending(s)
        /\ H!Loading' = H!Loading
        /\ \A d \in H!Drain : H!Writing(d)' = H!Writing(d)
    <2>1. \A d \in H!Drain : d # t
      BY HistoryConstants
    <2>2. \A j \in DOMAIN writes' : \/ writes'[j].by = t
                                    \/ j \in DOMAIN writes /\ writes'[j] = writes[j]
      BY <1>4
    <2>3. DOMAIN writes \subseteq DOMAIN writes'
      BY <1>4
    <2> QED
      BY <1>1, <1>4, <2>1, <2>2, <2>3 DEF H!Pending, H!Loading, H!Writing
  <1>8. \A j \in DOMAIN writes' : \/ j \in DOMAIN writes /\ writes'[j] = writes[j]
                                  \/ j = Len(writes') /\ writes'[j].what = payload
    BY <1>4
  <1>9. H!TypeOK'
    <2>1. memory' \subseteq Event
      BY <1>1 DEF HistoryInv, H!TypeOK
    <2> QED
      BY <1>1, <1>4, <1>5, <1>6, <2>1 DEF HistoryInv, H!TypeOK, Written
  <1>10. HistoryShape'
    <2>1. \A j \in DOMAIN writes' : writes'[j].what.cut \subseteq happened'
      BY <1>1, <1>2, <1>3, <1>8 DEF HistoryInv, HistoryShape
    <2> QED
      BY <1>1, <1>7, <2>1 DEF HistoryInv, HistoryShape
  <1>11. Waited' => LoadsFit'
    <2>1. Waited' => LoadsFit
      BY <1>5, MarksStay
    <2> QED
      BY <1>1, <1>7, <2>1 DEF LoadsFit, Busy
  <1>12. ASSUME Unspoiled' PROVE ClearsFit'
    <2>1. ClearsFit /\ ~ H!Loading
      BY <1>1, <1>5, <1>12, MarksStay DEF Unspoiled
    <2>2. ~ Blank
      BY <1>1 DEF Blank
    <2>3. gone \subseteq cut /\ memory \cap gone = {}
      BY <2>1, <2>2 DEF ClearsFit
    <2>4. Without(payload, gone) /\ memory' \cap gone = {}
      BY <1>1, <1>3, <2>3 DEF Without
    <2>5. \A j \in DOMAIN writes' : Without(writes'[j].what, gone)
      BY <1>8, <2>1, <2>4 DEF ClearsFit
    <2>6. ASSUME NEW c \in Clear, drain[c].pc = "write" PROVE ClearFits(c)'
      <3>1. ClearFits(c) /\ c \in H!Drain
        BY <2>1, HistoryConstants DEF ClearsFit
      <3>2. drain[c].at \subseteq cut /\ memory \cap drain[c].at = {}
        BY <2>6, <3>1 DEF ClearFits
      <3>3. Without(payload, drain[c].at) /\ memory' \cap drain[c].at = {}
        BY <1>1, <1>3, <3>2 DEF Without
      <3>4. ASSUME NEW j \in DOMAIN writes',
                   ~ H!Writing(c) \/ (\E i \in 1 .. j : writes'[i].by = c)
            PROVE  Without(writes'[j].what, drain[c].at)
        <4>1. CASE j \in DOMAIN writes /\ writes'[j] = writes[j]
          <5>1. \A i \in 1 .. j : writes'[i] = writes[i]
            BY <1>4, <4>1
          <5> QED
            BY <2>6, <3>1, <3>4, <4>1, <5>1 DEF ClearFits
        <4> QED
          BY <1>8, <3>3, <4>1
      <3> QED
        BY <1>1, <1>7, <2>6, <3>1, <3>2, <3>3, <3>4 DEF ClearFits, Without
    <2>7. \A c \in Clear : ClearFits(c)'
      BY <1>1, <2>6 DEF ClearFits
    <2> QED
      BY <1>1, <1>7, <2>1, <2>3, <2>4, <2>5, <2>7 DEF ClearsFit, Without
  <1>13. ASSUME excuses' = {} PROVE FlushFits'
    <2>1. FlushFits /\ ~ H!Loading
      BY <1>1, <1>5, <1>13, MarksStay
    <2>2. Active(t) /\ \A u \in H!Save : Active(u)' <=> Active(u)
      BY <1>1, <1>6 DEF Active
    <2>3. phase \notin {"off", "stopped"} /\ drain[Flush].pc \notin {"cancel", "write"}
      BY <2>1, <2>2 DEF FlushFits
    <2>4. phase \in Reports
      BY <2>3 DEF HistoryInv, H!TypeOK, Reports
    <2>5. Owed' \subseteq memory'
      BY <1>1, <2>1, <2>3, <2>4 DEF FlushFits, Owed
    <2>6. \A s \in H!Session : load'[s].pc \notin {"reading", "read"}
      BY <1>1, <2>1 DEF H!Loading, H!Pending
    <2> QED
      BY <1>1, <2>1, <2>2, <2>3, <2>5, <2>6 DEF FlushFits
  <1> QED
    BY <1>9, <1>10, <1>11, <1>12, <1>13 DEF HistoryInv

LEMMA SaveEndKeeps ==
    ASSUME HistoryInv, NEW t \in H!Save, H!SaveEnd(t)
    PROVE  HistoryInv'
  <1>1. /\ save' = [save EXCEPT ![t] = "done"] /\ saveKey' = 0
        /\ excuses' = IF saveKey \notin {0, t} THEN excuses \cup {"unkeyed"} ELSE excuses
        /\ UNCHANGED <<phase, session, listening, loaded, memory, cut, disk, writes, load,
                       loadKey, drain, fetching, happened, aged, promised, gone>>
    BY DEF H!SaveEnd, H!MarkIf, H!env
  <1>2. excuses \subseteq excuses' /\ excuses' \subseteq H!Marks
    BY <1>1 DEF HistoryInv, H!TypeOK, H!Marks
  <1>3. /\ save'[t] = "done" /\ \A u \in H!Save \ {t} : save'[u] = save[u]
        /\ save' \in [H!Save -> {"new", "sleep", "write", "cancelled", "done"}]
    BY <1>1 DEF HistoryInv, H!TypeOK
  <1>4. /\ \A s \in H!Session : H!Pending(s)' = H!Pending(s)
        /\ H!Loading' = H!Loading /\ \A who : H!Writing(who)' = H!Writing(who)
    BY <1>1 DEF H!Pending, H!Loading, H!Writing
  <1>5. H!TypeOK'
    BY <1>1, <1>2, <1>3 DEF HistoryInv, H!TypeOK
  <1>6. HistoryShape'
    BY <1>1, <1>4 DEF HistoryInv, HistoryShape
  <1>7. Waited' => LoadsFit'
    <2>1. Waited' => LoadsFit
      BY <1>2, MarksStay
    <2> QED
      BY <1>1, <1>4, <2>1 DEF LoadsFit, Busy
  <1>8. ASSUME Unspoiled' PROVE ClearsFit'
    <2>1. ClearsFit
      BY <1>2, <1>8, MarksStay
    <2>2. (Blank => Blank') /\ \A c \in Clear : ClearFits(c)' = ClearFits(c)
      BY <1>1, <1>3, <1>4 DEF Blank, Busy, ClearFits, Without
    <2> QED
      BY <1>1, <1>4, <2>1, <2>2 DEF ClearsFit, Without
  <1>9. ASSUME excuses' = {} PROVE FlushFits'
    <2>1. FlushFits /\ saveKey \in {0, t} /\ 0 \notin H!Save
      BY <1>1, <1>2, <1>9, MarksStay, HistoryConstants
    <2>2. \A u \in H!Save : ~ Active(u)'
      BY <1>3, <2>1 DEF FlushFits, Active
    <2> QED
      BY <1>1, <1>4, <2>1, <2>2 DEF FlushFits, Owed, Last
  <1> QED
    BY <1>5, <1>6, <1>7, <1>8, <1>9 DEF HistoryInv

\* A write leaves the queue: it is in the file, or lost.
LEMMA LandsKeeps ==
    ASSUME HistoryInv, NEW i \in DOMAIN writes, H!WriteLands(i)
    PROVE  HistoryInv'
  <1>1. /\ disk' = writes[i].what /\ writes' = H!RemoveAt(writes, i)
        /\ excuses' = IF i # 1 THEN excuses \cup {"overtaken"} ELSE excuses
        /\ UNCHANGED <<phase, session, listening, loaded, memory, cut, load, loadKey, save,
                       saveKey, drain, fetching, happened, aged, promised, gone>>
    BY DEF H!WriteLands, H!MarkIf, H!env
  <1>2. excuses \subseteq excuses' /\ excuses' \subseteq H!Marks
    BY <1>1 DEF HistoryInv, H!TypeOK, H!Marks
  <1>3. /\ writes' \in Seq(Written) /\ Len(writes) \in Nat /\ Len(writes') = Len(writes) - 1
        /\ DOMAIN writes = 1 .. Len(writes) /\ DOMAIN writes' = 1 .. Len(writes')
        /\ \A j \in DOMAIN writes' : writes'[j] = IF j < i THEN writes[j] ELSE writes[j + 1]
    BY <1>1, WriteRemoved DEF HistoryInv
  <1>4. writes[i] \in Written /\ disk' \in H!Stored
    <2>1. writes \in Seq(Written)
      BY DEF HistoryInv, H!TypeOK, Written
    <2>2. writes[i] \in Written
      BY <1>3, <2>1, ElementOfSeq
    <2> QED
      BY <1>1, <2>2 DEF Written
  <1>5. \A j \in DOMAIN writes' : \E k \in DOMAIN writes : writes'[j] = writes[k]
    BY <1>3
  <1>6. /\ \A s \in H!Session : H!Pending(s)' = H!Pending(s)
        /\ H!Loading' = H!Loading /\ \A who : H!Writing(who)' => H!Writing(who)
    BY <1>1, <1>5 DEF H!Pending, H!Loading, H!Writing
  <1>7. H!TypeOK'
    BY <1>1, <1>2, <1>3, <1>4 DEF HistoryInv, H!TypeOK, Written
  <1>8. HistoryShape'
    <2>1. disk'.cut \subseteq happened' /\ \A j \in DOMAIN writes' : writes'[j].what.cut \subseteq happened'
      BY <1>1, <1>5 DEF HistoryInv, HistoryShape
    <2> QED
      BY <1>1, <1>6, <2>1 DEF HistoryInv, HistoryShape
  <1>9. Waited' => LoadsFit'
    <2>1. Waited' => LoadsFit
      BY <1>2, MarksStay
    <2> QED
      BY <1>1, <1>6, <2>1 DEF LoadsFit, Busy
  <1>10. ASSUME Unspoiled' PROVE ClearsFit'
    <2>1. ClearsFit /\ i = 1
      BY <1>1, <1>2, <1>10, MarksStay DEF Unspoiled
    <2>2. Without(disk', gone) /\ \A j \in DOMAIN writes' : Without(writes'[j].what, gone)
      BY <1>1, <1>5, <2>1 DEF ClearsFit
    <2>3. /\ \A j \in DOMAIN writes' : j + 1 \in DOMAIN writes /\ writes'[j] = writes[j + 1]
          /\ 1 \in DOMAIN writes
      BY <1>3, <2>1
    <2>4. ASSUME NEW c \in Clear, drain[c].pc = "write" PROVE ClearFits(c)'
      <3>1. ClearFits(c)
        BY <2>1 DEF ClearsFit
      <3>2. /\ drain[c].at \subseteq cut /\ memory \cap drain[c].at = {}
            /\ \A j \in DOMAIN writes : ~ H!Writing(c) => Without(writes[j].what, drain[c].at)
            /\ \A j \in DOMAIN writes : \A k \in 1 .. j :
                  writes[k].by = c => Without(writes[j].what, drain[c].at)
        BY <2>4, <3>1 DEF ClearFits
      <3>3. ASSUME NEW j \in DOMAIN writes', ~ H!Writing(c)'
            PROVE  Without(writes'[j].what, drain[c].at)
        <4>1. CASE H!Writing(c)
          <5>1. PICK k \in DOMAIN writes : writes[k].by = c
            BY <4>1 DEF H!Writing
          <5>2. k = 1
            <6>1. k # 1 => k - 1 \in DOMAIN writes' /\ writes'[k - 1] = writes[k]
              BY <1>3, <2>3
            <6> QED
              BY <3>3, <5>1, <6>1 DEF H!Writing
          <5>3. j + 1 \in DOMAIN writes /\ 1 \in 1 .. j + 1
            BY <1>3, <2>3
          <5> QED
            BY <2>3, <3>2, <5>1, <5>2, <5>3
        <4>2. CASE ~ H!Writing(c)
          BY <2>3, <3>2, <4>2
        <4> QED
          BY <4>1, <4>2
      <3>4. ASSUME NEW j \in DOMAIN writes', NEW k \in 1 .. j, writes'[k].by = c
            PROVE  Without(writes'[j].what, drain[c].at)
        <4>1. /\ k \in DOMAIN writes' /\ j + 1 \in DOMAIN writes
              /\ k + 1 \in 1 .. j + 1 /\ writes'[j] = writes[j + 1] /\ writes'[k] = writes[k + 1]
          BY <1>3, <2>3
        <4> QED
          BY <3>2, <3>4, <4>1
      <3>5. ~ H!Writing(c)' => Without(disk', drain[c].at)
        <4>1. CASE H!Writing(c)
          <5>1. PICK k \in DOMAIN writes : writes[k].by = c
            BY <4>1 DEF H!Writing
          <5>2. ~ H!Writing(c)' => k = 1
            <6>1. k # 1 => k - 1 \in DOMAIN writes' /\ writes'[k - 1] = writes[k]
              BY <1>3, <2>3
            <6> QED
              BY <5>1, <6>1 DEF H!Writing
          <5>3. 1 \in 1 .. 1
            OBVIOUS
          <5> QED
            BY <1>1, <2>1, <2>3, <3>2, <5>1, <5>2, <5>3
        <4>2. CASE ~ H!Writing(c)
          BY <1>1, <3>2, <4>2
        <4> QED
          BY <4>1, <4>2
      <3> QED
        BY <1>1, <2>4, <3>2, <3>3, <3>4, <3>5 DEF ClearFits, Without
    <2>5. \A c \in Clear : ClearFits(c)'
      BY <1>1, <2>4 DEF ClearFits
    <2> QED
      BY <1>1, <1>6, <2>1, <2>2, <2>5 DEF ClearsFit, Without, Blank, Busy
  <1>11. ASSUME excuses' = {} PROVE FlushFits'
    <2>1. FlushFits /\ i = 1
      BY <1>1, <1>2, <1>11, MarksStay
    <2>2. writes # <<>> /\ Len(writes) > 0
      BY <1>3
    <2>3. phase \notin {"off", "stopped"}
      BY <2>1, <2>2 DEF FlushFits
    <2>4. ASSUME drain[Flush].pc = "write"
          PROVE  \/ writes' = <<>> /\ Owed \subseteq disk'.events
                 \/ writes' # <<>> /\ Last'.by = Flush /\ Owed \subseteq Last'.what.events
      <3>1. Last.by = Flush /\ Owed \subseteq Last.what.events
        BY <2>1, <2>2, <2>4 DEF FlushFits
      <3>2. CASE Len(writes) = 1
        <4>1. Len(writes') = 0 /\ writes' = <<>>
          BY <1>3, <3>2, EmptySeq
        <4> QED
          BY <1>1, <2>1, <3>1, <3>2, <4>1 DEF Last
      <3>3. CASE Len(writes) # 1
        <4>1. /\ Len(writes') = Len(writes) - 1 /\ Len(writes') \in DOMAIN writes'
              /\ ~ (Len(writes') < i) /\ Len(writes') + 1 = Len(writes) /\ writes' # <<>>
          BY <1>3, <2>1, <2>2, <3>3
        <4>2. Last' = Last
          BY <1>3, <4>1 DEF Last
        <4> QED
          BY <3>1, <4>1, <4>2
      <3> QED
        BY <3>2, <3>3
    <2>5. ASSUME phase \in Reports, drain[Flush].pc # "write"
          PROVE  /\ ~ H!Loading => Owed \subseteq memory
                 /\ \A s \in H!Session :
                       /\ load[s].pc # "reading"
                       /\ load[s].pc = "read" => Owed \subseteq load[s].got.events
      BY <2>1, <2>2, <2>5 DEF FlushFits
    <2> QED
      BY <1>1, <1>6, <2>1, <2>3, <2>4, <2>5 DEF FlushFits, Active, Owed
  <1> QED
    BY <1>7, <1>8, <1>9, <1>10, <1>11 DEF HistoryInv

LEMMA FailsKeeps ==
    ASSUME HistoryInv, NEW i \in DOMAIN writes, H!WriteFails(i)
    PROVE  HistoryInv'
  <1> DEFINE dropped == /\ writes[i].by \in H!Save
                        /\ save[writes[i].by] \in {"cancelled", "done"}
  <1>1. /\ writes' = H!RemoveAt(writes, i)
        /\ excuses' = IF ~ dropped THEN excuses \cup {"failed"} ELSE excuses
        /\ UNCHANGED <<phase, session, listening, loaded, memory, cut, disk, load, loadKey, save,
                       saveKey, drain, fetching, happened, aged, promised, gone>>
    BY DEF H!WriteFails, H!MarkIf, H!env
  <1>2. excuses \subseteq excuses' /\ excuses' \subseteq H!Marks
    BY <1>1 DEF HistoryInv, H!TypeOK, H!Marks
  <1>3. "failed" \notin excuses' => \A d \in H!Drain : writes[i].by # d
    BY <1>1, HistoryConstants
  <1> HIDE DEF dropped
  <1>4. /\ writes' \in Seq(Written) /\ Len(writes) \in Nat /\ Len(writes') = Len(writes) - 1
        /\ DOMAIN writes = 1 .. Len(writes) /\ DOMAIN writes' = 1 .. Len(writes')
        /\ \A j \in DOMAIN writes' : writes'[j] = IF j < i THEN writes[j] ELSE writes[j + 1]
    BY <1>1, WriteRemoved DEF HistoryInv
  <1>5. \A j \in DOMAIN writes' : \E k \in DOMAIN writes : writes'[j] = writes[k]
    BY <1>4
  <1>6. /\ \A s \in H!Session : H!Pending(s)' = H!Pending(s)
        /\ H!Loading' = H!Loading /\ \A who : H!Writing(who)' => H!Writing(who)
    BY <1>1, <1>5 DEF H!Pending, H!Loading, H!Writing
  <1>7. H!TypeOK'
    BY <1>1, <1>2, <1>4 DEF HistoryInv, H!TypeOK, Written
  <1>8. HistoryShape'
    <2>1. \A j \in DOMAIN writes' : writes'[j].what.cut \subseteq happened'
      BY <1>1, <1>5 DEF HistoryInv, HistoryShape
    <2> QED
      BY <1>1, <1>6, <2>1 DEF HistoryInv, HistoryShape
  <1>9. Waited' => LoadsFit'
    <2>1. Waited' => LoadsFit
      BY <1>2, MarksStay
    <2> QED
      BY <1>1, <1>6, <2>1 DEF LoadsFit, Busy
  <1>10. ASSUME Unspoiled' PROVE ClearsFit'
    <2>1. ClearsFit /\ "failed" \notin excuses'
      BY <1>2, <1>10, MarksStay DEF Unspoiled
    <2>2. \A j \in DOMAIN writes' : Without(writes'[j].what, gone)
      BY <1>5, <2>1 DEF ClearsFit
    <2>3. ASSUME NEW c \in Clear, drain[c].pc = "write" PROVE ClearFits(c)'
      <3>1. ClearFits(c) /\ writes[i].by # c
        BY <1>3, <2>1, HistoryConstants DEF ClearsFit
      <3>2. /\ drain[c].at \subseteq cut /\ memory \cap drain[c].at = {}
            /\ \A j \in DOMAIN writes : ~ H!Writing(c) => Without(writes[j].what, drain[c].at)
            /\ \A j \in DOMAIN writes : \A k \in 1 .. j :
                  writes[k].by = c => Without(writes[j].what, drain[c].at)
            /\ ~ H!Writing(c) => Without(disk, drain[c].at)
        BY <2>3, <3>1 DEF ClearFits
      <3>3. H!Writing(c) => H!Writing(c)'
        <4>1. ASSUME NEW k \in DOMAIN writes, writes[k].by = c PROVE H!Writing(c)'
          <5>1. k < i => k \in DOMAIN writes' /\ writes'[k] = writes[k]
            BY <1>4
          <5>2. k > i => k - 1 \in DOMAIN writes' /\ writes'[k - 1] = writes[k]
            BY <1>4
          <5>3. k < i \/ k > i
            BY <1>4, <3>1, <4>1
          <5> QED
            BY <4>1, <5>1, <5>2, <5>3 DEF H!Writing
        <4> QED
          BY <4>1 DEF H!Writing
      <3>4. ASSUME NEW j \in DOMAIN writes', NEW k \in 1 .. j, writes'[k].by = c
            PROVE  Without(writes'[j].what, drain[c].at)
        <4>1. PICK m \in DOMAIN writes : m = IF j < i THEN j ELSE j + 1
          BY <1>4
        <4>2. PICK n \in DOMAIN writes : n = IF k < i THEN k ELSE k + 1
          BY <1>4
        <4>3. n \in 1 .. m
          BY <1>4, <4>1, <4>2
        <4>4. k \in DOMAIN writes' /\ writes'[j] = writes[m] /\ writes'[k] = writes[n]
          BY <1>4, <4>1, <4>2
        <4> QED
          BY <3>2, <3>4, <4>3, <4>4
      <3>5. \A j \in DOMAIN writes' : ~ H!Writing(c)' => Without(writes'[j].what, drain[c].at)
        BY <1>5, <3>2, <3>3
      <3> QED
        BY <1>1, <2>3, <3>2, <3>3, <3>4, <3>5 DEF ClearFits, Without
    <2>4. \A c \in Clear : ClearFits(c)'
      BY <1>1, <2>3 DEF ClearFits
    <2> QED
      BY <1>1, <1>6, <2>1, <2>2, <2>4 DEF ClearsFit, Without, Blank, Busy
  <1>11. ASSUME excuses' = {} PROVE FlushFits'
    <2>1. FlushFits /\ writes[i].by # Flush
      BY <1>2, <1>3, <1>11, MarksStay, HistoryConstants
    <2>2. writes # <<>> /\ Len(writes) > 0
      BY <1>4
    <2>3. phase \notin {"off", "stopped"}
      BY <2>1, <2>2 DEF FlushFits
    <2>4. ASSUME drain[Flush].pc = "write"
          PROVE  writes' # <<>> /\ Last'.by = Flush /\ Owed \subseteq Last'.what.events
      <3>1. Last.by = Flush /\ Owed \subseteq Last.what.events
        BY <2>1, <2>2, <2>4 DEF FlushFits
      <3>2. i # Len(writes)
        BY <2>1, <3>1 DEF Last
      <3>3. /\ Len(writes') = Len(writes) - 1 /\ Len(writes') \in DOMAIN writes'
            /\ ~ (Len(writes') < i) /\ Len(writes') + 1 = Len(writes) /\ writes' # <<>>
        BY <1>4, <2>2, <3>2
      <3>4. Last' = Last
        BY <1>4, <3>3 DEF Last
      <3> QED
        BY <3>1, <3>3, <3>4
    <2>5. ASSUME phase \in Reports, drain[Flush].pc # "write"
          PROVE  /\ ~ H!Loading => Owed \subseteq memory
                 /\ \A s \in H!Session :
                       /\ load[s].pc # "reading"
                       /\ load[s].pc = "read" => Owed \subseteq load[s].got.events
      BY <2>1, <2>2, <2>5 DEF FlushFits
    <2> QED
      BY <1>1, <1>6, <2>1, <2>3, <2>4, <2>5 DEF FlushFits, Active, Owed
  <1> QED
    BY <1>7, <1>8, <1>9, <1>10, <1>11 DEF HistoryInv

LEMMA DoneDrain ==
    [H!NoDrain EXCEPT !.pc = "done"] = [pc |-> "done", on |-> 0, at |-> {}]
  BY DEF H!NoDrain

LEMMA ClearEndKeeps ==
    ASSUME HistoryInv, NEW c \in Clear, H!ClearEnd(c)
    PROVE  HistoryInv'
  <1> DEFINE over == [pc |-> "done", on |-> 0, at |-> {}]
  <1>1. /\ drain[c].pc = "write" /\ ~ H!Writing(c)
        /\ drain' = [drain EXCEPT ![c] = over] /\ gone' = gone \cup drain[c].at
        /\ UNCHANGED <<phase, session, listening, loaded, memory, cut, disk, writes, load,
                       loadKey, save, saveKey, fetching, happened, aged, promised, excuses>>
    BY DoneDrain DEF H!ClearEnd, H!env
  <1>2. c \in H!Drain /\ Flush \in H!Drain /\ c # Flush
    BY HistoryConstants
  <1>3. /\ drain'[c] = over /\ \A d \in H!Drain \ {c} : drain'[d] = drain[d]
        /\ over \in [pc : {"idle", "load", "cancel", "write", "done"},
                     on : 0 .. MaxSessions + MaxSaves, at : SUBSET Event]
    BY <1>1, <1>2, HistoryConstants DEF HistoryInv, H!TypeOK
  <1>4. /\ \A s \in H!Session : H!Pending(s)' = H!Pending(s)
        /\ H!Loading' = H!Loading /\ \A who : H!Writing(who)' = H!Writing(who)
    BY <1>1 DEF H!Pending, H!Loading, H!Writing
  <1>5. drain[c].at \subseteq happened
    BY <1>2 DEF HistoryInv, HistoryShape
  <1>6. H!TypeOK'
    <2>1. drain' \in [H!Drain -> [pc : {"idle", "load", "cancel", "write", "done"},
                                  on : 0 .. MaxSessions + MaxSaves, at : SUBSET Event]]
      BY <1>1, <1>3 DEF HistoryInv, H!TypeOK
    <2> HIDE DEF over
    <2>2. gone' \subseteq happened'
      BY <1>1, <1>5 DEF HistoryInv, H!TypeOK
    <2> QED
      BY <1>1, <2>1, <2>2 DEF HistoryInv, H!TypeOK
  <1>7. HistoryShape'
    <2>1. \A d \in H!Drain : drain'[d].at \subseteq happened'
      BY <1>1, <1>3 DEF HistoryInv, HistoryShape
    <2>2. \A d \in H!Drain : /\ drain'[d].pc = "load" => drain'[d].on \in H!Session
                             /\ drain'[d].pc = "cancel" => drain'[d].on \in H!Save
                             /\ H!Writing(d)' => drain'[d].pc = "write"
      BY <1>1, <1>3, <1>4 DEF HistoryInv, HistoryShape
    <2>3. drain'[Flush] = drain[Flush]
      BY <1>2, <1>3
    <2> QED
      BY <1>1, <1>4, <2>1, <2>2, <2>3 DEF HistoryInv, HistoryShape
  <1>8. ASSUME Waited' PROVE LoadsFit' /\ ~ H!Loading
    <2>1. LoadsFit
      BY <1>1, <1>8, MarksStay
    <2>2. \A s \in H!Session : ~ H!Pending(s)
      BY <1>1, <1>2, <2>1 DEF LoadsFit, Busy
    <2> QED
      BY <1>1, <1>4, <2>1, <2>2 DEF LoadsFit, H!Loading
  <1>9. ASSUME Unspoiled' PROVE ClearsFit'
    <2>1. ClearsFit /\ Waited'
      BY <1>1, <1>9, MarksStay
    <2>2. ~ H!Loading /\ ~ Blank
      BY <1>1, <1>2, <1>8, <2>1 DEF Blank, Busy
    <2>3. /\ drain[c].at \subseteq cut /\ memory \cap drain[c].at = {}
          /\ \A j \in DOMAIN writes : Without(writes[j].what, drain[c].at)
          /\ Without(disk, drain[c].at)
      BY <1>1, <2>1 DEF ClearsFit, ClearFits
    <2>4. /\ gone' \subseteq cut /\ memory \cap gone' = {} /\ Without(disk, gone')
          /\ \A j \in DOMAIN writes : Without(writes[j].what, gone')
      BY <1>1, <2>1, <2>2, <2>3 DEF ClearsFit, Without
    <2>5. \A s \in H!Session : load[s].pc # "read"
      BY <2>2 DEF H!Loading, H!Pending
    <2>6. ASSUME NEW d \in Clear PROVE ClearFits(d)'
      <3>1. ClearFits(d) /\ d \in H!Drain
        BY <2>1, HistoryConstants DEF ClearsFit
      <3>2. CASE d = c
        BY <1>3, <3>2 DEF ClearFits
      <3>3. CASE d # c
        BY <1>1, <1>3, <1>4, <3>1, <3>3 DEF ClearFits, Without
      <3> QED
        BY <3>2, <3>3
    <2> QED
      BY <1>1, <2>4, <2>5, <2>6 DEF ClearsFit, Without
  <1>10. ASSUME excuses' = {} PROVE FlushFits'
    <2>1. FlushFits
      BY <1>1, <1>10, MarksStay
    <2>2. drain'[Flush] = drain[Flush]
      BY <1>2, <1>3
    <2> QED
      BY <1>1, <1>4, <2>1, <2>2 DEF FlushFits, Active, Owed, Last
  <1> QED
    BY <1>6, <1>7, <1>8, <1>9, <1>10 DEF HistoryInv

LEMMA FlushEndKeeps ==
    ASSUME HistoryInv, H!FlushEnd
    PROVE  HistoryInv'
  <1> DEFINE over == [pc |-> "done", on |-> 0, at |-> {}]
  <1>1. /\ drain[Flush].pc = "write" /\ ~ H!Writing(Flush)
        /\ drain' = [drain EXCEPT ![Flush] = over]
        /\ UNCHANGED <<session, listening, cut, disk, writes, load, loadKey, save, saveKey,
                       fetching, happened, aged, promised, gone, excuses>>
    BY DoneDrain DEF H!FlushEnd, H!env
  <1>2. \/ phase = "unloading" /\ phase' = "off" /\ loaded' = FALSE /\ memory' = {}
        \/ phase # "unloading" /\ phase' = "stopped" /\ UNCHANGED <<loaded, memory>>
    BY DEF H!FlushEnd
  <1>3. Flush \in H!Drain /\ \A d \in Clear : d \in H!Drain \ {Flush}
    BY HistoryConstants
  <1>4. /\ drain'[Flush] = over /\ \A d \in H!Drain \ {Flush} : drain'[d] = drain[d]
        /\ over \in [pc : {"idle", "load", "cancel", "write", "done"},
                     on : 0 .. MaxSessions + MaxSaves, at : SUBSET Event]
    BY <1>1, <1>3, HistoryConstants DEF HistoryInv, H!TypeOK
  <1>5. /\ \A s \in H!Session : H!Pending(s)' = H!Pending(s)
        /\ H!Loading' = H!Loading /\ \A who : H!Writing(who)' = H!Writing(who)
    BY <1>1 DEF H!Pending, H!Loading, H!Writing
  <1>6. H!TypeOK'
    <2>1. drain' \in [H!Drain -> [pc : {"idle", "load", "cancel", "write", "done"},
                                  on : 0 .. MaxSessions + MaxSaves, at : SUBSET Event]]
      BY <1>1, <1>4 DEF HistoryInv, H!TypeOK
    <2> HIDE DEF over
    <2>2. phase' \in {"off", "on", "unloading", "stopping", "stopped"} /\ memory' \subseteq Event
          /\ loaded' \in BOOLEAN
      BY <1>2 DEF HistoryInv, H!TypeOK
    <2> QED
      BY <1>1, <2>1, <2>2 DEF HistoryInv, H!TypeOK
  <1>7. HistoryShape'
    <2>1. \A d \in H!Drain : drain'[d].at \subseteq happened'
      BY <1>1, <1>4 DEF HistoryInv, HistoryShape
    <2>2. \A d \in H!Drain : /\ drain'[d].pc = "load" => drain'[d].on \in H!Session
                             /\ drain'[d].pc = "cancel" => drain'[d].on \in H!Save
                             /\ H!Writing(d)' => drain'[d].pc = "write"
      BY <1>1, <1>4, <1>5 DEF HistoryInv, HistoryShape
    <2>3. drain'[Flush].pc = "done" /\ phase' \in {"off", "stopped"}
      BY <1>2, <1>4
    <2>4. ~ loaded' => memory' = {}
      BY <1>2 DEF HistoryInv, HistoryShape
    <2> QED
      BY <1>1, <1>5, <2>1, <2>2, <2>3, <2>4 DEF HistoryInv, HistoryShape, Reports
  <1>8. ASSUME Waited' PROVE LoadsFit' /\ ~ H!Loading
    <2>1. LoadsFit
      BY <1>1, <1>8, MarksStay
    <2>2. \A s \in H!Session : ~ H!Pending(s)
      BY <1>1, <1>3, <2>1 DEF LoadsFit, Busy
    <2> QED
      BY <1>2, <1>5, <2>1, <2>2 DEF LoadsFit, H!Loading
  <1>9. ASSUME Unspoiled' PROVE ClearsFit'
    <2>1. ClearsFit /\ Waited'
      BY <1>1, <1>9, MarksStay
    <2>2. ~ H!Loading /\ ~ Blank
      BY <1>1, <1>3, <1>8, <2>1 DEF Blank, Busy
    <2>3. gone \subseteq cut /\ memory' \subseteq memory /\ memory \cap gone = {}
      BY <1>2, <2>1, <2>2 DEF ClearsFit
    <2>4. \A c \in Clear : ClearFits(c)'
      <3>1. ASSUME NEW c \in Clear PROVE ClearFits(c)'
        <4>1. ClearFits(c) /\ drain'[c] = drain[c]
          BY <1>3, <1>4, <2>1 DEF ClearsFit
        <4> QED
          BY <1>1, <1>5, <2>3, <4>1 DEF ClearFits, Without
      <3> QED
        BY <3>1
    <2> QED
      BY <1>1, <1>5, <2>1, <2>3, <2>4 DEF ClearsFit, Without
  <1>10. ASSUME excuses' = {} PROVE FlushFits'
    <2>1. FlushFits
      BY <1>1, <1>10, MarksStay
    <2>2. \A t \in H!Save : ~ Active(t)
      BY <1>1, <2>1 DEF FlushFits
    <2>3. writes = <<>> /\ Owed \subseteq disk.events
      <3>1. writes # <<>> => Len(writes) \in DOMAIN writes
        <4>1. writes \in Seq(Written)
          BY DEF HistoryInv, H!TypeOK, Written
        <4> QED
          BY <4>1, EmptySeq
      <3>2. ~ (writes # <<>> /\ Last.by = Flush)
        BY <1>1, <3>1 DEF H!Writing, Last
      <3> QED
        BY <1>1, <2>1, <3>2 DEF FlushFits
    <2>4. drain'[Flush].pc = "done" /\ phase' \in {"off", "stopped"}
      BY <1>2, <1>4
    <2> QED
      BY <1>1, <2>2, <2>3, <2>4 DEF FlushFits, Active, Owed, Reports
  <1> QED
    BY <1>6, <1>7, <1>8, <1>9, <1>10 DEF HistoryInv

LEMMA CrashKeeps ==
    ASSUME HistoryInv, H!Crash
    PROVE  HistoryInv'
  <1>1. /\ phase' = "off" /\ loaded' = FALSE /\ listening' = FALSE
        /\ memory' = {} /\ cut' = {} /\ writes' = <<>>
        /\ loadKey' = 0 /\ saveKey' = 0 /\ fetching' = FALSE
        /\ promised' = promised \cap disk.events
        /\ save' = [t \in H!Save |-> IF save[t] = "new" THEN "new" ELSE "done"]
        /\ UNCHANGED <<session, disk, happened, aged, gone, excuses>>
    BY DEF H!Crash
  <1>2. \A s \in H!Session :
           /\ \E pc : load'[s] = [pc |-> pc, existing |-> {}, got |-> [events |-> {}, cut |-> {}]]
           /\ load'[s].pc = IF H!Pending(s) THEN "done" ELSE load[s].pc
    <2>1. \A s \in H!Session :
             load'[s] = [H!NoLoad EXCEPT !.pc = IF H!Pending(s) THEN "done" ELSE load[s].pc]
      BY DEF H!Crash
    <2>2. \A pc : [H!NoLoad EXCEPT !.pc = pc] =
                     [pc |-> pc, existing |-> {}, got |-> [events |-> {}, cut |-> {}]]
      BY DEF H!NoLoad
    <2> QED
      BY <2>1, <2>2
  <1>3. \A d \in H!Drain : \/ drain'[d] = [pc |-> "idle", on |-> 0, at |-> {}]
                           \/ drain'[d] = [pc |-> "done", on |-> 0, at |-> {}]
    <2>1. \A d \in H!Drain : drain'[d] = IF drain[d].pc = "idle" THEN H!NoDrain
                                         ELSE [H!NoDrain EXCEPT !.pc = "done"]
      BY DEF H!Crash
    <2> QED
      BY <2>1, DoneDrain DEF H!NoDrain
  <1>4. /\ load' = [s \in H!Session |-> load'[s]] /\ drain' = [d \in H!Drain |-> drain'[d]]
    BY DEF H!Crash
  <1>5. Flush \in H!Drain /\ \A d \in Clear : d \in H!Drain
    BY HistoryConstants
  <1>6. /\ \A s \in H!Session : ~ H!Pending(s)'
        /\ ~ H!Loading'
        /\ \A d \in H!Drain : ~ Busy(d)' /\ ~ H!Writing(d)'
    <2>1. \A s \in H!Session : ~ H!Pending(s)'
      BY <1>2 DEF H!Pending
    <2>2. \A d \in H!Drain : ~ Busy(d)'
      BY <1>3 DEF Busy
    <2> QED
      BY <1>1, <2>1, <2>2 DEF H!Loading, H!Writing
  <1>7. H!TypeOK'
    <2>1. \A s \in H!Session : load'[s] \in [pc : {"none", "reading", "read", "done"},
                                             existing : SUBSET Event, got : H!Stored]
      <3>1. \A s \in H!Session : load'[s].pc \in {"none", "reading", "read", "done"}
        BY <1>2 DEF HistoryInv, H!TypeOK
      <3>2. [events |-> {}, cut |-> {}] \in H!Stored
        BY DEF H!Stored
      <3> SUFFICES ASSUME NEW s \in H!Session
                   PROVE  load'[s] \in [pc : {"none", "reading", "read", "done"},
                                       existing : SUBSET Event, got : H!Stored]
        OBVIOUS
      <3>3. PICK pc : load'[s] = [pc |-> pc, existing |-> {}, got |-> [events |-> {}, cut |-> {}]]
        BY <1>2
      <3> QED
        BY <3>1, <3>2, <3>3
    <2>2. \A d \in H!Drain : drain'[d] \in [pc : {"idle", "load", "cancel", "write", "done"},
                                            on : 0 .. MaxSessions + MaxSaves, at : SUBSET Event]
      BY <1>3, HistoryConstants
    <2>3. save' \in [H!Save -> {"new", "sleep", "write", "cancelled", "done"}]
      BY <1>1
    <2>4. /\ load' \in [H!Session -> [pc : {"none", "reading", "read", "done"},
                                      existing : SUBSET Event, got : H!Stored]]
          /\ drain' \in [H!Drain -> [pc : {"idle", "load", "cancel", "write", "done"},
                                     on : 0 .. MaxSessions + MaxSaves, at : SUBSET Event]]
      BY <1>4, <2>1, <2>2
    <2>5. writes' \in Seq([by : H!Drain \cup H!Save, what : H!Stored])
      BY <1>1, EmptySeq
    <2>6. promised' \subseteq Event /\ cut' \subseteq happened'
      BY <1>1 DEF HistoryInv, H!TypeOK
    <2> QED
      BY <1>1, <2>3, <2>4, <2>5, <2>6 DEF HistoryInv, H!TypeOK
  <1>8. HistoryShape'
    <2>1. ASSUME NEW s \in H!Session PROVE load'[s].got.cut = {}
      <3>1. PICK pc : load'[s] = [pc |-> pc, existing |-> {}, got |-> [events |-> {}, cut |-> {}]]
        BY <1>2
      <3> QED
        BY <3>1
    <2>2. \A d \in H!Drain : drain'[d].at = {} /\ drain'[d].pc \in {"idle", "done"}
      BY <1>3
    <2> QED
      BY <1>1, <1>5, <1>6, <2>1, <2>2 DEF HistoryInv, HistoryShape, Reports
  <1>9. LoadsFit'
    BY <1>1, <1>6 DEF LoadsFit
  <1>10. Unspoiled' => ClearsFit'
    <2>1. Blank' /\ \A c \in Clear : ClearFits(c)'
      BY <1>1, <1>3, <1>5, <1>6 DEF Blank, ClearFits, Busy
    <2>2. \A s \in H!Session : load'[s].pc # "read"
      BY <1>6 DEF H!Pending
    <2>3. Unspoiled' => Without(disk, gone)
      BY <1>1, MarksStay DEF ClearsFit
    <2> QED
      BY <1>1, <1>6, <2>1, <2>2, <2>3 DEF ClearsFit, Without
  <1>11. FlushFits'
    <2>1. Owed' \subseteq disk'.events
      BY <1>1 DEF Owed
    <2>2. \A t \in H!Save : ~ Active(t)'
      BY <1>1 DEF Active
    <2>3. drain'[Flush].pc \in {"idle", "done"}
      BY <1>3, <1>5
    <2> QED
      BY <1>1, <2>1, <2>2, <2>3 DEF FlushFits, Reports
  <1> QED
    BY <1>7, <1>8, <1>9, <1>10, <1>11 DEF HistoryInv

-----------------------------------------------------------------------------
(* The clear command and the flush at work: each turn of theirs waits for  *)
(* the load, cancels the save, or does the work.                           *)

Turn(d) ==
    /\ UNCHANGED <<session, loaded, disk, load, fetching, happened, aged, gone>>
    /\ excuses \subseteq excuses' /\ excuses' \subseteq H!Marks
    /\ listening' \in BOOLEAN /\ loadKey' \in {0, loadKey}
    /\ drain[d].pc \in {"idle", "load", "cancel"}
    /\ \/ d # Flush /\ phase' = phase /\ (Waited' => phase = "on")
       \/ d = Flush /\ phase \in Reports /\ phase' \in {"unloading", "stopping"}
Waits(d) ==
    /\ phase = "on" /\ loadKey' = 0 /\ loadKey \in H!Session /\ H!Pending(loadKey)
    /\ drain' = [drain EXCEPT ![d].pc = "load", ![d].on = loadKey]
    /\ UNCHANGED <<memory, cut, writes, promised, save, saveKey>>
Cancels(d) ==
    /\ Waited' => ~ H!Loading
    /\ saveKey \in H!Save /\ save' = [save EXCEPT ![saveKey] = "cancelled"] /\ saveKey' = 0
    /\ drain' = [drain EXCEPT ![d].pc = "cancel", ![d].on = saveKey]
    /\ UNCHANGED <<memory, cut, writes, promised>>
Works(d) ==
    /\ Waited' => ~ H!Loading
    /\ \/ UNCHANGED save /\ saveKey' = 0 /\ (saveKey = 0 \/ save[saveKey] = "done")
       \/ UNCHANGED <<save, saveKey>> /\ drain[d].pc = "cancel"
    /\ H!Work(d)

LEMMA SaveTaken ==
    ASSUME HistoryInv, NEW d \in H!Drain, H!TakeSave(d), Waited' => ~ H!Loading
    PROVE  Cancels(d) \/ Works(d)
  <1>1. saveKey \in H!Save \cup {0}
    BY DEF HistoryInv, H!TypeOK
  <1>2. CASE saveKey # 0 /\ save[saveKey] # "done"
    BY <1>1, <1>2 DEF H!TakeSave, H!Wait, Cancels
  <1>3. CASE ~ (saveKey # 0 /\ save[saveKey] # "done")
    BY <1>3 DEF H!TakeSave, Works
  <1> QED
    BY <1>2, <1>3

LEMMA LoadTaken ==
    ASSUME HistoryInv, NEW d \in H!Drain, H!TakeLoad(d), H!Unwaited, phase = "on"
    PROVE  /\ Waits(d) \/ Cancels(d) \/ Works(d)
           /\ excuses \subseteq excuses' /\ excuses' \subseteq H!Marks /\ loadKey' = 0
  <1>1. /\ excuses' = IF \E s \in H!Session : H!Pending(s) /\ s # loadKey
                      THEN excuses \cup {"unwaited"} ELSE excuses
        /\ loadKey' = 0
    BY DEF H!Unwaited, H!MarkIf, H!TakeLoad
  <1>2. excuses \subseteq excuses' /\ excuses' \subseteq H!Marks
    BY <1>1 DEF HistoryInv, H!TypeOK, H!Marks
  <1>3. loadKey \in H!Session \cup {0} /\ 0 \notin H!Session
    BY HistoryConstants DEF HistoryInv, H!TypeOK
  <1>4. CASE loadKey # 0 /\ H!Pending(loadKey)
    BY <1>1, <1>2, <1>3, <1>4 DEF H!TakeLoad, H!Wait, Waits
  <1>5. CASE ~ (loadKey # 0 /\ H!Pending(loadKey))
    <2>1. Waited' => ~ H!Loading
      BY <1>1, <1>3, <1>5 DEF Waited, H!Loading
    <2>2. H!TakeSave(d)
      BY <1>5 DEF H!TakeLoad
    <2> QED
      BY <1>1, <1>2, <2>1, <2>2, SaveTaken
  <1> QED
    BY <1>4, <1>5

LEMMA DrainTurns ==
    ASSUME HistoryInv, NEW d \in H!Drain,
           \/ d \in Clear /\ H!ClearStart(d)
           \/ d = Flush /\ \E why \in {"unloading", "stopping"} : H!FlushStart(why)
           \/ H!AfterLoad(d) \/ H!AfterCancel(d)
    PROVE  Turn(d) /\ (Waits(d) \/ Cancels(d) \/ Works(d))
  <1>1. CASE d \in Clear /\ H!ClearStart(d)
    <2>1. /\ phase = "on" /\ drain[d].pc = "idle" /\ H!TakeLoad(d) /\ H!Unwaited
          /\ UNCHANGED <<phase, session, listening, loaded, disk, load, fetching, happened, aged,
                         gone>>
      BY <1>1 DEF H!ClearStart, H!env
    <2>2. d # Flush /\ listening \in BOOLEAN
      BY <1>1, HistoryConstants DEF HistoryInv, H!TypeOK
    <2> QED
      BY <2>1, <2>2, LoadTaken DEF Turn
  <1>2. CASE d = Flush /\ \E why \in {"unloading", "stopping"} : H!FlushStart(why)
    <2>1. PICK why \in {"unloading", "stopping"} : H!FlushStart(why)
      BY <1>2
    <2>2. /\ phase = "on" /\ phase' = why /\ listening' = FALSE /\ H!TakeLoad(Flush) /\ H!Unwaited
          /\ UNCHANGED <<session, loaded, disk, load, fetching, happened, aged, gone>>
      BY <2>1 DEF H!FlushStart, H!env
    <2>3. drain[Flush].pc = "idle"
      BY <2>2 DEF HistoryInv, HistoryShape
    <2> QED
      BY <1>2, <2>2, <2>3, LoadTaken DEF Turn, Reports
  <1>3. CASE H!AfterLoad(d) \/ H!AfterCancel(d)
    <2>1. /\ drain[d].pc \in {"load", "cancel"} /\ H!Unloaded(d)
          /\ UNCHANGED <<phase, session, listening, loaded, disk, load, loadKey, fetching,
                         happened, aged, gone>>
      BY <1>3 DEF H!AfterLoad, H!AfterCancel, H!env
    <2>2. excuses' = IF d \in Clear /\ phase # "on" THEN excuses \cup {"unloaded"} ELSE excuses
      BY <2>1 DEF H!Unloaded, H!MarkIf
    <2>3. /\ excuses \subseteq excuses' /\ excuses' \subseteq H!Marks
          /\ d \in Clear /\ Waited' => phase = "on"
      BY <2>2 DEF HistoryInv, H!TypeOK, H!Marks, Waited
    <2>4. d = Flush => phase \in {"unloading", "stopping"}
      BY <2>1 DEF HistoryInv, HistoryShape, H!TypeOK
    <2>5. Waited' => ~ H!Loading
      <3>1. ASSUME Waited', NEW s \in H!Session, H!Pending(s) PROVE FALSE
        <4>1. drain[d].pc = "load" /\ drain[d].on = s
          BY <2>1, <2>3, <3>1, MarksStay DEF LoadsFit, Busy
        <4> QED
          BY <1>3, <3>1, <4>1 DEF H!AfterLoad, H!AfterCancel
      <3> QED
        BY <3>1 DEF H!Loading
    <2>6. Cancels(d) \/ Works(d)
      <3>1. CASE H!AfterLoad(d)
        BY <2>5, <3>1, SaveTaken DEF H!AfterLoad
      <3>2. CASE H!AfterCancel(d)
        BY <2>5, <3>2 DEF H!AfterCancel, Works
      <3> QED
        BY <1>3, <3>1, <3>2
    <2>7. listening \in BOOLEAN /\ H!Drain = Clear \cup {Flush}
      BY HistoryConstants DEF HistoryInv, H!TypeOK
    <2> QED
      BY <2>1, <2>3, <2>4, <2>6, <2>7 DEF Turn, Reports
  <1> QED
    BY <1>1, <1>2, <1>3

\* What every turn leaves as it is.
LEMMA TurnKeeps ==
    ASSUME HistoryInv, NEW d \in H!Drain, Turn(d)
    PROVE  /\ ~ H!Writing(d)
           /\ \A s \in H!Session : H!Pending(s)' = H!Pending(s)
           /\ H!Loading' = H!Loading
           /\ phase' \in {"off", "on", "unloading", "stopping", "stopped"}
           /\ loadKey' \in H!Session \cup {0}
           /\ Waited' =>
                 /\ phase \in Reports /\ phase' \in Reports /\ loaded
                 /\ LoadsFit /\ ~ Blank
  <1>1. ~ H!Writing(d)
    BY DEF HistoryInv, HistoryShape, Turn
  <1>2. /\ \A s \in H!Session : H!Pending(s)' = H!Pending(s)
        /\ H!Loading' = H!Loading
    BY DEF Turn, H!Pending, H!Loading
  <1>3. /\ phase' \in {"off", "on", "unloading", "stopping", "stopped"}
        /\ loadKey' \in H!Session \cup {0}
    BY DEF HistoryInv, H!TypeOK, Turn
  <1>4. Waited' =>
           /\ phase \in Reports /\ phase' \in Reports /\ loaded
           /\ LoadsFit /\ ~ Blank
    BY MarksStay DEF HistoryInv, HistoryShape, Turn, Reports, Blank
  <1> QED
    BY <1>1, <1>2, <1>3, <1>4

\* A turn that waits, for the load or for the save.
LEMMA WaitTyped ==
    ASSUME HistoryInv, NEW d \in H!Drain, NEW pc \in {"load", "cancel"}, NEW on,
           pc = "load" => on \in H!Session, pc = "cancel" => on \in H!Save,
           drain' = [drain EXCEPT ![d].pc = pc, ![d].on = on]
    PROVE  /\ drain' \in [H!Drain -> [pc : {"idle", "load", "cancel", "write", "done"},
                                      on : 0 .. MaxSessions + MaxSaves, at : SUBSET Event]]
           /\ drain'[d].pc = pc /\ drain'[d].on = on /\ drain'[d].at = drain[d].at
           /\ \A e \in H!Drain \ {d} : drain'[e] = drain[e]
  <1>1. drain \in [H!Drain -> [pc : {"idle", "load", "cancel", "write", "done"},
                               on : 0 .. MaxSessions + MaxSaves, at : SUBSET Event]]
    BY DEF HistoryInv, H!TypeOK
  <1>2. on \in 0 .. MaxSessions + MaxSaves
    BY HistoryConstants
  <1>3. /\ drain'[d] = [drain[d] EXCEPT !.pc = pc, !.on = on]
        /\ \A e \in H!Drain \ {d} : drain'[e] = drain[e]
        /\ DOMAIN drain' = H!Drain /\ drain' = [e \in H!Drain |-> drain'[e]]
    BY <1>1
  <1>4. drain[d] \in [pc : {"idle", "load", "cancel", "write", "done"},
                      on : 0 .. MaxSessions + MaxSaves, at : SUBSET Event]
    BY <1>1
  <1>5. /\ drain'[d].pc = pc /\ drain'[d].on = on /\ drain'[d].at = drain[d].at
        /\ drain'[d] \in [pc : {"idle", "load", "cancel", "write", "done"},
                          on : 0 .. MaxSessions + MaxSaves, at : SUBSET Event]
    BY <1>2, <1>3, <1>4
  <1>6. \A e \in H!Drain : drain'[e] \in [pc : {"idle", "load", "cancel", "write", "done"},
                                          on : 0 .. MaxSessions + MaxSaves, at : SUBSET Event]
    BY <1>1, <1>3, <1>5
  <1> QED
    BY <1>3, <1>5, <1>6

\* The shape after a turn.
LEMMA TurnShape ==
    ASSUME HistoryInv, NEW d \in H!Drain, Turn(d),
           \A e \in H!Drain \ {d} : drain'[e] = drain[e] /\ H!Writing(e)' = H!Writing(e),
           drain'[d].pc \in {"load", "cancel", "write"}, drain'[d].at \subseteq happened,
           drain'[d].pc = "load" => drain'[d].on \in H!Session,
           drain'[d].pc = "cancel" => drain'[d].on \in H!Save,
           drain'[d].pc # "write" => H!Writing(d)' = H!Writing(d),
           \A i \in DOMAIN writes' : writes'[i].what.cut \subseteq happened,
           memory' \subseteq memory
    PROVE  HistoryShape'
  <1>1. /\ UNCHANGED <<loaded, disk, load, happened>>
        /\ \/ d # Flush /\ phase' = phase
           \/ d = Flush /\ phase \in Reports /\ phase' \in {"unloading", "stopping"}
    BY DEF Turn
  <1>2. /\ \A s \in H!Session : H!Pending(s)' = H!Pending(s)
        /\ ~ H!Writing(d) /\ Flush \in H!Drain
    BY TurnKeeps, HistoryConstants
  <1>3. \A e \in H!Drain : /\ drain'[e].pc = "load" => drain'[e].on \in H!Session
                           /\ drain'[e].pc = "cancel" => drain'[e].on \in H!Save
                           /\ H!Writing(e)' => drain'[e].pc = "write"
                           /\ drain'[e].at \subseteq happened'
    <2>1. ASSUME NEW e \in H!Drain, e # d
          PROVE  /\ drain'[e].pc = "load" => drain'[e].on \in H!Session
                 /\ drain'[e].pc = "cancel" => drain'[e].on \in H!Save
                 /\ H!Writing(e)' => drain'[e].pc = "write"
                 /\ drain'[e].at \subseteq happened'
      BY <1>1, <2>1 DEF HistoryInv, HistoryShape
    <2>2. /\ H!Writing(d)' => drain'[d].pc = "write"
          /\ drain'[d].at \subseteq happened'
      BY <1>1, <1>2
    <2> QED
      BY <2>1, <2>2
  <1>4. /\ phase' = "on" => drain'[Flush].pc = "idle"
        /\ phase' \in {"unloading", "stopping"} => drain'[Flush].pc \in {"load", "cancel", "write"}
        /\ phase' = "off" => drain'[Flush].pc \in {"idle", "done"}
        /\ phase' = "stopped" => drain'[Flush].pc = "done"
    <2>1. CASE d = Flush
      BY <1>1, <2>1, HistoryConstants
    <2>2. CASE d # Flush
      <3>1. phase' = phase /\ drain'[Flush] = drain[Flush]
        BY <1>1, <1>2, <2>2
      <3> QED
        BY <3>1 DEF HistoryInv, HistoryShape
    <2> QED
      BY <2>1, <2>2
  <1>5. /\ phase' \in Reports => loaded'
        /\ ~ loaded' => memory' = {}
    BY <1>1 DEF HistoryInv, HistoryShape, Reports
  <1>6. /\ disk'.cut \subseteq happened'
        /\ \A s \in H!Session : load'[s].got.cut \subseteq happened'
        /\ \A s \in H!Session : H!Pending(s)' => load'[s].existing = {}
    BY <1>1, <1>2 DEF HistoryInv, HistoryShape
  <1> QED
    BY <1>1, <1>3, <1>4, <1>5, <1>6 DEF HistoryShape

LEMMA WaitsKeep ==
    ASSUME HistoryInv, NEW d \in H!Drain, Turn(d), Waits(d)
    PROVE  HistoryInv'
  <1>1. /\ phase = "on" /\ loadKey' = 0 /\ loadKey \in H!Session /\ H!Pending(loadKey)
        /\ drain' = [drain EXCEPT ![d].pc = "load", ![d].on = loadKey]
        /\ UNCHANGED <<session, loaded, disk, load, fetching, happened, aged, gone, memory, cut,
                       writes, promised, save, saveKey>>
        /\ excuses \subseteq excuses' /\ excuses' \subseteq H!Marks /\ listening' \in BOOLEAN
    BY DEF Turn, Waits
  <1>2. /\ drain' \in [H!Drain -> [pc : {"idle", "load", "cancel", "write", "done"},
                                   on : 0 .. MaxSessions + MaxSaves, at : SUBSET Event]]
        /\ drain'[d].pc = "load" /\ drain'[d].on = loadKey /\ drain'[d].at = drain[d].at
        /\ \A e \in H!Drain \ {d} : drain'[e] = drain[e]
    <2>1. "load" \in {"load", "cancel"}
      OBVIOUS
    <2> QED
      BY <1>1, <2>1, WaitTyped
  <1>3. \A who : H!Writing(who)' = H!Writing(who)
    BY <1>1 DEF H!Writing
  <1>4. H!TypeOK'
    BY <1>1, <1>2, TurnKeeps DEF HistoryInv, H!TypeOK
  <1>5. HistoryShape'
    <2>1. drain[d].at \subseteq happened /\ \A i \in DOMAIN writes' : writes'[i].what.cut \subseteq happened
      BY <1>1 DEF HistoryInv, HistoryShape
    <2> QED
      BY <1>1, <1>2, <1>3, <2>1, TurnShape
  <1>6. Waited' => LoadsFit'
    <2>1. ASSUME Waited' PROVE LoadsFit'
      <3>1. LoadsFit /\ phase' \in Reports /\ \A s \in H!Session : H!Pending(s)' = H!Pending(s)
        BY <2>1, TurnKeeps
      <3>2. session = loadKey /\ \A e \in H!Drain : ~ Busy(e)
        BY <1>1, <3>1 DEF LoadsFit
      <3>3. \A e \in H!Drain : Busy(e)' => drain'[e].pc = "load" /\ drain'[e].on = loadKey
        BY <1>2, <3>2 DEF Busy
      <3>4. phase' # "off" /\ 0 \notin H!Session
        BY <3>1, HistoryConstants DEF Reports
      <3> QED
        BY <1>1, <3>1, <3>2, <3>3, <3>4 DEF LoadsFit
    <2> QED
      BY <2>1
  <1>7. ASSUME Unspoiled' PROVE ClearsFit'
    <2>1. ClearsFit /\ Waited' /\ ~ Blank /\ H!Loading' = H!Loading
      BY <1>1, <1>7, MarksStay, TurnKeeps
    <2>2. ASSUME NEW c \in Clear PROVE ClearFits(c)'
      <3>1. ClearFits(c) /\ c \in H!Drain
        BY <2>1, HistoryConstants DEF ClearsFit
      <3>2. CASE c = d
        BY <1>2, <3>2 DEF ClearFits
      <3>3. CASE c # d
        BY <1>1, <1>2, <1>3, <3>1, <3>3 DEF ClearFits, Without
      <3> QED
        BY <3>2, <3>3
    <2> QED
      BY <1>1, <2>1, <2>2 DEF ClearsFit, Without
  <1>8. ASSUME excuses' = {} PROVE FlushFits'
    <2>1. FlushFits /\ Waited' /\ phase' \in Reports /\ H!Loading' = H!Loading
      BY <1>1, <1>8, MarksStay, TurnKeeps
    <2>2. drain[Flush].pc = "idle" /\ Flush \in H!Drain
      BY <1>1, HistoryConstants DEF HistoryInv, HistoryShape
    <2>3. drain'[Flush].pc \in {"idle", "load"}
      BY <1>2, <2>2
    <2> QED
      BY <1>1, <2>1, <2>2, <2>3 DEF FlushFits, Active, Owed, Reports
  <1> QED
    BY <1>4, <1>5, <1>6, <1>7, <1>8 DEF HistoryInv

LEMMA CancelsKeep ==
    ASSUME HistoryInv, NEW d \in H!Drain, Turn(d), Cancels(d)
    PROVE  HistoryInv'
  <1>1. /\ saveKey \in H!Save /\ save' = [save EXCEPT ![saveKey] = "cancelled"] /\ saveKey' = 0
        /\ drain' = [drain EXCEPT ![d].pc = "cancel", ![d].on = saveKey]
        /\ UNCHANGED <<session, loaded, disk, load, fetching, happened, aged, gone, memory, cut,
                       writes, promised>>
        /\ excuses \subseteq excuses' /\ excuses' \subseteq H!Marks /\ listening' \in BOOLEAN
        /\ Waited' => ~ H!Loading
    BY DEF Turn, Cancels
  <1>2. /\ drain' \in [H!Drain -> [pc : {"idle", "load", "cancel", "write", "done"},
                                   on : 0 .. MaxSessions + MaxSaves, at : SUBSET Event]]
        /\ drain'[d].pc = "cancel" /\ drain'[d].on = saveKey /\ drain'[d].at = drain[d].at
        /\ \A e \in H!Drain \ {d} : drain'[e] = drain[e]
    <2>1. "cancel" \in {"load", "cancel"}
      OBVIOUS
    <2> QED
      BY <1>1, <2>1, WaitTyped
  <1>3. \A who : H!Writing(who)' = H!Writing(who)
    BY <1>1 DEF H!Writing
  <1>4. /\ save' \in [H!Save -> {"new", "sleep", "write", "cancelled", "done"}]
        /\ save'[saveKey] = "cancelled" /\ \A t \in H!Save \ {saveKey} : save'[t] = save[t]
    BY <1>1 DEF HistoryInv, H!TypeOK
  <1>5. H!TypeOK'
    BY <1>1, <1>2, <1>4, TurnKeeps DEF HistoryInv, H!TypeOK
  <1>6. HistoryShape'
    <2>1. drain[d].at \subseteq happened /\ \A i \in DOMAIN writes' : writes'[i].what.cut \subseteq happened
      BY <1>1 DEF HistoryInv, HistoryShape
    <2> QED
      BY <1>1, <1>2, <1>3, <2>1, TurnShape
  <1>7. Waited' => LoadsFit'
    <2>1. Waited' => /\ phase' \in Reports /\ \A s \in H!Session : ~ H!Pending(s)'
      BY <1>1, TurnKeeps DEF H!Loading
    <2> QED
      BY <2>1 DEF LoadsFit, Reports
  <1>8. ASSUME Unspoiled' PROVE ClearsFit'
    <2>1. ClearsFit /\ Waited' /\ ~ Blank /\ H!Loading' = H!Loading
      BY <1>1, <1>8, MarksStay, TurnKeeps
    <2>2. ASSUME NEW c \in Clear PROVE ClearFits(c)'
      <3>1. ClearFits(c) /\ c \in H!Drain
        BY <2>1, HistoryConstants DEF ClearsFit
      <3>2. CASE c = d
        BY <1>2, <3>2 DEF ClearFits
      <3>3. CASE c # d
        BY <1>1, <1>2, <1>3, <3>1, <3>3 DEF ClearFits, Without
      <3> QED
        BY <3>2, <3>3
    <2> QED
      BY <1>1, <2>1, <2>2 DEF ClearsFit, Without
  <1>9. ASSUME excuses' = {} PROVE FlushFits'
    <2>1. /\ FlushFits /\ phase \in Reports /\ phase' \in Reports
          /\ ~ H!Loading /\ H!Loading' = H!Loading
      BY <1>1, <1>9, MarksStay, TurnKeeps
    <2>2. \A t \in H!Save : ~ Active(t)'
      BY <1>4, <2>1 DEF FlushFits, Active
    <2>3. drain[Flush].pc # "write" /\ drain'[Flush].pc # "write"
      <3>1. CASE d = Flush
        BY <1>2, <3>1 DEF Turn
      <3>2. CASE d # Flush
        BY <1>1, <1>2, <1>9, <3>2, MarksStay, HistoryConstants DEF Turn, HistoryInv, HistoryShape
      <3> QED
        BY <3>1, <3>2
    <2>4. Owed \subseteq memory
      BY <2>1, <2>3 DEF FlushFits
    <2>5. \A s \in H!Session : load'[s].pc \notin {"reading", "read"}
      BY <1>1, <2>1 DEF H!Loading, H!Pending
    <2>6. phase' \notin {"off", "stopped"}
      BY <2>1 DEF Reports
    <2> QED
      BY <1>1, <2>2, <2>3, <2>4, <2>5, <2>6 DEF FlushFits, Owed
  <1> QED
    BY <1>5, <1>6, <1>7, <1>8, <1>9 DEF HistoryInv

\* A turn that does the work: what is written, and the queue after it.
Draft(d) ==
    IF d = Flush THEN [events |-> memory \ aged, cut |-> cut]
    ELSE [events |-> {}, cut |-> happened]

LEMMA WorkEffects ==
    ASSUME HistoryInv, NEW d \in H!Drain, Turn(d), Works(d)
    PROVE  /\ drain' \in [H!Drain -> [pc : {"idle", "load", "cancel", "write", "done"},
                                      on : 0 .. MaxSessions + MaxSaves, at : SUBSET Event]]
           /\ drain'[d].pc = "write" /\ drain'[d].at = IF d = Flush THEN {} ELSE happened
           /\ \A e \in H!Drain \ {d} : drain'[e] = drain[e]
           /\ IF d = Flush
              THEN /\ memory' = IF loaded THEN memory \ aged ELSE memory
                   /\ cut' = cut /\ promised' = promised
              ELSE memory' = {} /\ cut' = happened /\ promised' = {}
           /\ IF loaded THEN H!Submit(d, Draft(d)) ELSE writes' = writes
           /\ Draft(d) \in H!Stored /\ Draft(d).cut \subseteq happened
           /\ Draft(d).cut = cut'
           /\ loaded => Draft(d).events = memory'
  <1> DEFINE new == [pc |-> "write", on |-> 0, at |-> IF d = Flush THEN {} ELSE happened]
  <1>1. /\ drain' = [drain EXCEPT ![d] = new]
        /\ IF d = Flush
           THEN /\ memory' = IF loaded THEN memory \ aged ELSE memory
                /\ IF loaded THEN H!Submit(d, [events |-> memory \ aged, cut |-> cut])
                   ELSE writes' = writes
                /\ cut' = cut /\ promised' = promised
           ELSE /\ memory' = {} /\ cut' = happened /\ promised' = {}
                /\ IF loaded THEN H!Submit(d, [events |-> {}, cut |-> happened])
                   ELSE writes' = writes
    BY DEF Works, H!Work, H!Kept, H!Payload
  <1>2. /\ drain \in [H!Drain -> [pc : {"idle", "load", "cancel", "write", "done"},
                                  on : 0 .. MaxSessions + MaxSaves, at : SUBSET Event]]
        /\ memory \subseteq Event /\ cut \subseteq happened /\ happened \subseteq Event
    BY DEF HistoryInv, H!TypeOK
  <1>3. new \in [pc : {"idle", "load", "cancel", "write", "done"},
                 on : 0 .. MaxSessions + MaxSaves, at : SUBSET Event]
    BY <1>2, HistoryConstants
  <1>4. new.pc = "write" /\ new.at = IF d = Flush THEN {} ELSE happened
    OBVIOUS
  <1> HIDE DEF new
  <1>5. /\ drain' \in [H!Drain -> [pc : {"idle", "load", "cancel", "write", "done"},
                                   on : 0 .. MaxSessions + MaxSaves, at : SUBSET Event]]
        /\ drain'[d] = new /\ \A e \in H!Drain \ {d} : drain'[e] = drain[e]
    BY <1>1, <1>2, <1>3
  <1>6. CASE d = Flush
    BY <1>1, <1>2, <1>4, <1>5, <1>6 DEF Draft, H!Stored
  <1>7. CASE d # Flush
    BY <1>1, <1>2, <1>4, <1>5, <1>7 DEF Draft, H!Stored
  <1> QED
    BY <1>6, <1>7

LEMMA WorkQueues ==
    ASSUME HistoryInv, NEW d \in H!Drain, Turn(d), Works(d)
    PROVE  /\ writes' \in Seq(Written) /\ Len(writes) \in Nat
           /\ DOMAIN writes = 1 .. Len(writes) /\ DOMAIN writes' = 1 .. Len(writes')
           /\ \A j \in DOMAIN writes : j \in DOMAIN writes' /\ writes'[j] = writes[j]
           /\ \A j \in DOMAIN writes' :
                 \/ j \in DOMAIN writes /\ writes'[j] = writes[j]
                 \/ j = Len(writes') /\ writes'[j] = [by |-> d, what |-> Draft(d)]
           /\ \A e \in H!Drain \ {d} : H!Writing(e)' = H!Writing(e)
           /\ loaded =>
                 /\ Len(writes') = Len(writes) + 1 /\ writes' # <<>> /\ H!Writing(d)'
                 /\ writes'[Len(writes')] = [by |-> d, what |-> Draft(d)]
  <1>1. CASE loaded
    <2>1. H!Submit(d, Draft(d)) /\ Draft(d) \in H!Stored
      BY <1>1, WorkEffects
    <2>2. /\ writes' \in Seq(Written) /\ Len(writes) \in Nat /\ Len(writes') = Len(writes) + 1
          /\ DOMAIN writes = 1 .. Len(writes) /\ DOMAIN writes' = 1 .. Len(writes')
          /\ \A j \in DOMAIN writes : writes'[j] = writes[j]
          /\ writes'[Len(writes')] = [by |-> d, what |-> Draft(d)] /\ writes' # <<>>
      BY <2>1, WriteSubmitted DEF HistoryInv
    <2>3. \A j \in DOMAIN writes' :
             \/ j \in DOMAIN writes /\ writes'[j] = writes[j]
             \/ j = Len(writes') /\ writes'[j] = [by |-> d, what |-> Draft(d)]
      BY <2>2
    <2>4. \A j \in DOMAIN writes : j \in DOMAIN writes'
      BY <2>2
    <2>5. Len(writes') \in DOMAIN writes' /\ [by |-> d, what |-> Draft(d)].by = d
      BY <2>2
    <2>6. H!Writing(d)'
      BY <2>2, <2>5 DEF H!Writing
    <2>7. \A e \in H!Drain \ {d} : H!Writing(e)' = H!Writing(e)
      BY <2>2, <2>3, <2>4, <2>5 DEF H!Writing
    <2> QED
      BY <2>2, <2>3, <2>4, <2>6, <2>7
  <1>2. CASE ~ loaded
    <2>1. writes' = writes
      BY <1>2, WorkEffects
    <2>2. writes \in Seq(Written)
      BY DEF HistoryInv, H!TypeOK, Written
    <2>3. Len(writes) \in Nat /\ DOMAIN writes = 1 .. Len(writes)
      BY <2>2
    <2> QED
      BY <1>2, <2>1, <2>2, <2>3 DEF H!Writing
  <1> QED
    BY <1>1, <1>2

LEMMA WorksKeep ==
    ASSUME HistoryInv, NEW d \in H!Drain, Turn(d), Works(d)
    PROVE  HistoryInv'
  <1> DEFINE what == Draft(d)
  <1>1. /\ UNCHANGED <<session, loaded, disk, load, fetching, happened, aged, gone>>
        /\ excuses \subseteq excuses' /\ excuses' \subseteq H!Marks /\ listening' \in BOOLEAN
        /\ Waited' => ~ H!Loading
        /\ drain[d].pc \in {"idle", "load", "cancel"}
    BY DEF Turn, Works
  <1>2. /\ drain' \in [H!Drain -> [pc : {"idle", "load", "cancel", "write", "done"},
                                   on : 0 .. MaxSessions + MaxSaves, at : SUBSET Event]]
        /\ drain'[d].pc = "write" /\ drain'[d].at = IF d = Flush THEN {} ELSE happened
        /\ \A e \in H!Drain \ {d} : drain'[e] = drain[e]
        /\ IF d = Flush
           THEN /\ memory' = IF loaded THEN memory \ aged ELSE memory
                /\ cut' = cut /\ promised' = promised
           ELSE memory' = {} /\ cut' = happened /\ promised' = {}
        /\ what \in H!Stored /\ what.cut \subseteq happened /\ what.cut = cut'
        /\ loaded => what.events = memory'
    BY WorkEffects
  <1>3. /\ writes' \in Seq(Written) /\ Len(writes) \in Nat
        /\ DOMAIN writes = 1 .. Len(writes) /\ DOMAIN writes' = 1 .. Len(writes')
        /\ \A j \in DOMAIN writes : j \in DOMAIN writes' /\ writes'[j] = writes[j]
        /\ \A j \in DOMAIN writes' :
              \/ j \in DOMAIN writes /\ writes'[j] = writes[j]
              \/ j = Len(writes') /\ writes'[j] = [by |-> d, what |-> what]
        /\ \A e \in H!Drain \ {d} : H!Writing(e)' = H!Writing(e)
        /\ loaded =>
              /\ Len(writes') = Len(writes) + 1 /\ writes' # <<>> /\ H!Writing(d)'
              /\ writes'[Len(writes')] = [by |-> d, what |-> what]
    BY WorkQueues
  <1>4. [by |-> d, what |-> what].what = what /\ [by |-> d, what |-> what].by = d
    OBVIOUS
  <1>5. save' \in [H!Save -> {"new", "sleep", "write", "cancelled", "done"}]
        /\ saveKey' \in H!Save \cup {0} /\ save' = save
    BY DEF HistoryInv, H!TypeOK, Works
  <1>6. memory' \subseteq memory /\ promised' \subseteq promised /\ cut \subseteq cut'
    BY <1>2 DEF HistoryInv, H!TypeOK
  <1> HIDE DEF what
  <1>7. H!TypeOK'
    <2>1. /\ memory' \subseteq Event /\ promised' \subseteq Event /\ cut' \subseteq happened'
      BY <1>1, <1>2, <1>6 DEF HistoryInv, H!TypeOK
    <2> QED
      BY <1>1, <1>2, <1>3, <1>5, <2>1, TurnKeeps DEF HistoryInv, H!TypeOK, Written
  <1>8. HistoryShape'
    <2>1. drain'[d].at \subseteq happened
      BY <1>2
    <2>2. \A j \in DOMAIN writes' : writes'[j].what.cut \subseteq happened
      BY <1>2, <1>3, <1>4 DEF HistoryInv, HistoryShape
    <2>3. /\ drain'[d].pc \in {"load", "cancel", "write"}
          /\ drain'[d].pc = "load" => drain'[d].on \in H!Session
          /\ drain'[d].pc = "cancel" => drain'[d].on \in H!Save
          /\ drain'[d].pc # "write" => H!Writing(d)' = H!Writing(d)
      BY <1>2
    <2> QED
      BY <1>2, <1>3, <1>6, <2>1, <2>2, <2>3, TurnShape
  <1>9. Waited' => LoadsFit'
    <2>1. Waited' => /\ phase' \in Reports /\ \A s \in H!Session : ~ H!Pending(s)'
      BY <1>1, TurnKeeps DEF H!Loading
    <2> QED
      BY <2>1 DEF LoadsFit, Reports
  <1>10. ASSUME Unspoiled' PROVE ClearsFit'
    <2>1. ClearsFit /\ Waited' /\ ~ Blank /\ H!Loading' = H!Loading /\ ~ H!Loading /\ loaded
      BY <1>1, <1>10, MarksStay, TurnKeeps
    <2>2. gone \subseteq cut' /\ memory' \cap gone = {}
      BY <1>6, <2>1 DEF ClearsFit
    <2>3. Without(what, gone)
      BY <1>2, <2>1, <2>2 DEF Without
    <2>4. \A j \in DOMAIN writes' : Without(writes'[j].what, gone)
      BY <1>3, <1>4, <2>1, <2>3 DEF ClearsFit
    <2>5. ASSUME NEW c \in Clear, c # d, drain[c].pc = "write" PROVE ClearFits(c)'
      <3>1. ClearFits(c) /\ c \in H!Drain
        BY <2>1, HistoryConstants DEF ClearsFit
      <3>2. drain[c].at \subseteq cut' /\ memory' \cap drain[c].at = {}
        BY <1>6, <2>5, <3>1 DEF ClearFits
      <3>3. Without(what, drain[c].at)
        BY <1>2, <2>1, <3>2 DEF Without
      <3>4. drain'[c] = drain[c] /\ H!Writing(c)' = H!Writing(c)
        BY <1>2, <1>3, <2>5, <3>1
      <3>5. ASSUME NEW j \in DOMAIN writes',
                   ~ H!Writing(c) \/ (\E i \in 1 .. j : writes'[i].by = c)
            PROVE  Without(writes'[j].what, drain[c].at)
        <4>1. CASE j \in DOMAIN writes /\ writes'[j] = writes[j]
          <5>1. \A i \in 1 .. j : writes'[i] = writes[i]
            <6>1. j \in 1 .. Len(writes) /\ Len(writes) \in Nat
              BY <1>3, <4>1
            <6>2. \A i \in 1 .. j : i \in 1 .. Len(writes)
              BY <6>1
            <6> QED
              BY <1>3, <6>2
          <5> QED
            BY <2>5, <3>1, <3>5, <4>1, <5>1 DEF ClearFits
        <4> QED
          BY <1>3, <1>4, <3>3, <4>1
      <3> QED
        BY <1>1, <2>5, <3>1, <3>2, <3>4, <3>5 DEF ClearFits, Without
    <2>6. ASSUME NEW c \in Clear, c = d PROVE ClearFits(c)'
      <3>1. /\ drain'[c].at = happened /\ cut' = happened /\ memory' = {}
            /\ what.cut = happened /\ what.events = {}
        BY <1>2, <2>1, <2>6, HistoryConstants
      <3>2. Without(what, happened)
        BY <3>1 DEF Without
      <3>3. ~ H!Writing(d) /\ H!Writing(c)'
        BY <1>3, <2>1, <2>6, TurnKeeps
      <3>4. ASSUME NEW j \in DOMAIN writes', \E i \in 1 .. j : writes'[i].by = c
            PROVE  Without(writes'[j].what, drain'[c].at)
        <4>1. CASE j \in DOMAIN writes
          <5>1. \A i \in 1 .. j : i \in DOMAIN writes /\ writes'[i] = writes[i]
            <6>1. j \in 1 .. Len(writes) /\ Len(writes) \in Nat
              BY <1>3, <4>1
            <6>2. \A i \in 1 .. j : i \in 1 .. Len(writes)
              BY <6>1
            <6> QED
              BY <1>3, <6>2
          <5> QED
            BY <2>6, <3>3, <3>4, <5>1 DEF H!Writing
        <4> QED
          BY <1>3, <1>4, <3>1, <3>2, <4>1
      <3> QED
        BY <3>1, <3>3, <3>4 DEF ClearFits
    <2>7. \A c \in Clear : ClearFits(c)'
      <3>1. ASSUME NEW c \in Clear, c # d, drain[c].pc # "write" PROVE ClearFits(c)'
        BY <1>2, <3>1, HistoryConstants DEF ClearFits
      <3> QED
        BY <2>5, <2>6, <3>1
    <2>8. \A s \in H!Session : load'[s].pc # "read"
      BY <1>1, <2>1 DEF H!Loading, H!Pending
    <2> QED
      BY <1>1, <2>1, <2>2, <2>4, <2>7, <2>8 DEF ClearsFit, Without
  <1>11. ASSUME excuses' = {} PROVE FlushFits'
    <2>1. /\ FlushFits /\ Waited' /\ phase \in Reports /\ phase' \in Reports /\ loaded
          /\ ~ H!Loading /\ H!Loading' = H!Loading
      BY <1>1, <1>11, MarksStay, TurnKeeps
    <2>2. \A s \in H!Session : load'[s].pc \notin {"reading", "read"}
      BY <1>1, <2>1 DEF H!Loading, H!Pending
    <2>3. phase' \notin {"off", "stopped"}
      BY <2>1 DEF Reports
    <2>4. CASE d = Flush
      <3>1. Owed \subseteq memory
        BY <1>1, <2>1, <2>4 DEF FlushFits
      <3>2. Owed' \subseteq memory' /\ Last' = [by |-> d, what |-> what]
        BY <1>1, <1>2, <1>3, <2>1, <2>4, <3>1 DEF Owed, Last
      <3>3. Last'.by = Flush /\ Owed' \subseteq Last'.what.events
        BY <1>2, <1>4, <2>1, <2>4, <3>2
      <3>4. \A t \in H!Save : ~ Active(t)
        <4>1. CASE drain[d].pc = "cancel"
          BY <2>1, <2>4, <4>1 DEF FlushFits
        <4>2. CASE saveKey = 0 \/ save[saveKey] = "done"
          BY <2>1, <4>2, HistoryConstants DEF FlushFits, Active
        <4> QED
          BY <4>1, <4>2 DEF Works
      <3>5. \A t \in H!Save : ~ Active(t)'
        BY <1>5, <3>4 DEF Active
      <3> QED
        BY <1>2, <1>3, <2>1, <2>3, <2>4, <3>3, <3>5 DEF FlushFits
    <2>5. CASE d # Flush
      <3>1. phase = "on" /\ phase' = "on" /\ drain[Flush].pc = "idle" /\ Flush \in H!Drain
        BY <2>1, <2>5, HistoryConstants DEF Turn, HistoryInv, HistoryShape
      <3>2. drain'[Flush].pc = "idle" /\ Owed' = {}
        BY <1>2, <2>5, <3>1 DEF Owed
      <3>3. \A t \in H!Save : Active(t)' => saveKey' = t
        BY <1>5, <2>1, HistoryConstants DEF FlushFits, Active, Works
      <3> QED
        BY <2>2, <3>1, <3>2, <3>3 DEF FlushFits
    <2> QED
      BY <2>4, <2>5
  <1> QED
    BY <1>7, <1>8, <1>9, <1>10, <1>11 DEF HistoryInv

-----------------------------------------------------------------------------
(* The history as a whole.                                                 *)

LEMMA HistoryInit ==
    ASSUME H!Init
    PROVE  HistoryInv
  <1>1. /\ phase = "off" /\ session = 0 /\ listening = FALSE /\ loaded = FALSE
        /\ memory = {} /\ cut = {} /\ disk = [events |-> {}, cut |-> {}] /\ writes = <<>>
        /\ load = [s \in H!Session |-> H!NoLoad] /\ loadKey = 0
        /\ save = [t \in H!Save |-> "new"] /\ saveKey = 0
        /\ drain = [d \in H!Drain |-> H!NoDrain]
        /\ fetching = FALSE /\ happened = {} /\ aged = {}
        /\ promised = {} /\ gone = {} /\ excuses = {}
    BY DEF H!Init
  <1>2. \A s \in H!Session :
           /\ load[s].pc = "none" /\ load[s].existing = {} /\ load[s].got.cut = {}
           /\ ~ H!Pending(s)
    BY <1>1 DEF H!NoLoad, H!Pending
  <1>3. \A d \in H!Drain : drain[d].pc = "idle" /\ drain[d].at = {}
    BY <1>1 DEF H!NoDrain
  <1>4. Flush \in H!Drain /\ \A c \in Clear : c \in H!Drain
    BY HistoryConstants
  <1>5. DOMAIN writes = {} /\ ~ H!Loading
    BY <1>1, <1>2 DEF H!Loading
  <1>6. disk.events = {} /\ disk.cut = {}
    BY <1>1
  <1>7. H!TypeOK
    <2>1. /\ H!NoLoad \in [pc : {"none", "reading", "read", "done"}, existing : SUBSET Event,
                           got : H!Stored]
          /\ H!NoDrain \in [pc : {"idle", "load", "cancel", "write", "done"},
                            on : 0 .. MaxSessions + MaxSaves, at : SUBSET Event]
      BY HistoryConstants DEF H!NoLoad, H!NoDrain, H!Stored
    <2>2. /\ load \in [H!Session -> [pc : {"none", "reading", "read", "done"},
                                     existing : SUBSET Event, got : H!Stored]]
          /\ drain \in [H!Drain -> [pc : {"idle", "load", "cancel", "write", "done"},
                                    on : 0 .. MaxSessions + MaxSaves, at : SUBSET Event]]
      BY <1>1, <2>1
    <2>3. disk \in H!Stored /\ writes \in Seq([by : H!Drain \cup H!Save, what : H!Stored])
      BY <1>1 DEF H!Stored
    <2>4. save \in [H!Save -> {"new", "sleep", "write", "cancelled", "done"}]
      BY <1>1
    <2>5. session \in 0 .. MaxSessions
      BY <1>1, HistoryConstants
    <2> QED
      BY <1>1, <2>2, <2>3, <2>4, <2>5 DEF H!TypeOK
  <1>8. HistoryShape
    BY <1>1, <1>2, <1>3, <1>4, <1>5, <1>6 DEF HistoryShape, Reports, H!Writing
  <1>9. LoadsFit
    BY <1>1, <1>2 DEF LoadsFit
  <1>10. ClearsFit
    BY <1>1, <1>2, <1>3, <1>4, <1>5, <1>6 DEF ClearsFit, Blank, Busy, ClearFits, Without
  <1>11. FlushFits
    BY <1>1, <1>2, <1>3, <1>4, <1>5, <1>6 DEF FlushFits, Active, Owed, Reports
  <1> QED
    BY <1>7, <1>8, <1>9, <1>10, <1>11 DEF HistoryInv

LEMMA HistoryStep ==
    ASSUME HistoryInv, [H!Next]_(H!vars)
    PROVE  HistoryInv'
  <1>1. fetching \in BOOLEAN /\ happened \subseteq Event /\ aged \subseteq happened
    BY DEF HistoryInv, H!TypeOK
  <1>2. CASE UNCHANGED H!vars
    BY <1>1, <1>2, QuietKeeps DEF H!vars, H!env
  <1>3. CASE H!Start
    BY <1>3, StartKeeps
  <1>4. CASE H!FetchStart
    BY <1>1, <1>4, QuietKeeps DEF H!FetchStart
  <1>5. CASE H!FlushEnd
    BY <1>5, FlushEndKeeps
  <1>6. CASE H!Crash
    BY <1>6, CrashKeeps
  <1>7. ASSUME NEW s \in H!Session, H!LoadRead(s) \/ H!LoadEnd(s) PROVE HistoryInv'
    BY <1>7, LoadReadKeeps, LoadDoneKeeps
  <1>8. ASSUME NEW e \in Event, H!Record(e) PROVE HistoryInv'
    <2>1. /\ H!Accept({e}) /\ happened' = happened \cup {e}
          /\ UNCHANGED <<phase, session, listening, loaded, cut, disk, writes, load, loadKey,
                         drain, fetching, aged, gone>>
      BY <1>8 DEF H!Record
    <2>2. /\ {e} \in SUBSET Event /\ fetching' \in BOOLEAN
          /\ happened \subseteq happened' /\ happened' \subseteq Event
      BY <1>1, <2>1
    <2> QED
      BY <2>1, <2>2, AcceptKeeps
  <1>9. ASSUME NEW e \in Event, H!Log(e) \/ H!Age(e) PROVE HistoryInv'
    <2>1. /\ happened \subseteq happened' /\ happened' \subseteq Event
          /\ aged \subseteq aged' /\ aged' \subseteq happened'
          /\ UNCHANGED <<phase, session, listening, loaded, memory, cut, disk, writes, load,
                         loadKey, save, saveKey, drain, fetching, promised, gone, excuses>>
      BY <1>1, <1>9 DEF H!Log, H!Age
    <2> QED
      BY <1>1, <2>1, QuietKeeps
  <1>10. ASSUME NEW events \in SUBSET Event, H!FetchEnd(events) PROVE HistoryInv'
    <2>1. /\ H!Accept(events) /\ fetching' = FALSE
          /\ UNCHANGED <<phase, session, listening, loaded, cut, disk, writes, load, loadKey,
                         drain, happened, aged, gone>>
      BY <1>10 DEF H!FetchEnd
    <2>2. /\ fetching' \in BOOLEAN /\ happened \subseteq happened' /\ happened' \subseteq Event
      BY <1>1, <2>1
    <2> QED
      BY <2>1, <2>2, AcceptKeeps
  <1>11. ASSUME NEW t \in H!Save, H!SaveBegin(t) \/ H!SaveEnd(t) PROVE HistoryInv'
    BY <1>11, SaveBeginKeeps, SaveEndKeeps
  <1>12. ASSUME NEW i \in DOMAIN writes, H!WriteLands(i) \/ H!WriteFails(i) PROVE HistoryInv'
    BY <1>12, LandsKeeps, FailsKeeps
  <1>13. ASSUME NEW d \in H!Drain,
                \/ d \in Clear /\ H!ClearStart(d)
                \/ d = Flush /\ \E why \in {"unloading", "stopping"} : H!FlushStart(why)
                \/ H!AfterLoad(d) \/ H!AfterCancel(d)
         PROVE  HistoryInv'
    <2>1. Turn(d) /\ (Waits(d) \/ Cancels(d) \/ Works(d))
      BY <1>13, DrainTurns
    <2> QED
      BY <2>1, WaitsKeep, CancelsKeep, WorksKeep
  <1>14. ASSUME NEW c \in Clear, H!ClearEnd(c) PROVE HistoryInv'
    BY <1>14, ClearEndKeeps
  <1>15. ASSUME NEW why \in {"unloading", "stopping"}, H!FlushStart(why) PROVE HistoryInv'
    BY <1>13, <1>15, HistoryConstants
  <1>16. ASSUME NEW c \in Clear, H!ClearStart(c) PROVE HistoryInv'
    BY <1>13, <1>16, HistoryConstants
  <1>17. ASSUME NEW d \in H!Drain, H!AfterLoad(d) \/ H!AfterCancel(d) PROVE HistoryInv'
    BY <1>13, <1>17
  <1> QED
    BY <1>2, <1>3, <1>4, <1>5, <1>6, <1>7, <1>8, <1>9, <1>10, <1>11, <1>12, <1>14, <1>15,
       <1>16, <1>17 DEF H!Next

LEMMA HistoryMoves ==
    ASSUME [ServiceNext]_service
    PROVE  [H!Next]_(H!vars)
  <1>1. CASE UNCHANGED service
    BY <1>1 DEF service, history, H!vars, H!env
  <1>2. CASE UNCHANGED history
    BY <1>2 DEF history, H!vars, H!env
  <1>3. CASE Part("history", excuses = {} /\ H!Next)
    BY <1>3 DEF Part
  <1> QED
    BY <1>1, <1>2, <1>3 DEF ServiceNext, ServiceRun

LEMMA HistoryAlways ==
    ServiceSpec => []HistoryInv
  <1>1. ServiceInit => HistoryInv
    BY HistoryInit DEF ServiceInit
  <1>2. HistoryInv /\ [ServiceNext]_service => HistoryInv'
    BY HistoryMoves, HistoryStep
  <1> QED
    BY <1>1, <1>2, PTL DEF ServiceSpec

\* ActivityHistory: what a clear removed comes back neither into the history
\* nor into the file, from a save, a load, an NPM log or a restart
\* (activity.py, async_clear_history).
THEOREM ClearedEventsStayAway ==
    ServiceSpec => []ClearedStaysCleared
  <1>1. HistoryInv => ClearedStaysCleared
    BY DEF HistoryInv, Unspoiled, ClearsFit, Without, ClearedStaysCleared, While,
           H!ClearedStaysCleared
  <1> QED
    BY <1>1, HistoryAlways, PTL

\* ActivityHistory: a clean unload or stop leaves every accepted event in the
\* file, unless it was cleared or has aged (activity.py,
\* async_flush_history).
THEOREM FlushLeavesEverything ==
    ServiceSpec => []FlushKeepsHistory
  <1>1. HistoryInv => FlushKeepsHistory
    BY DEF HistoryInv, FlushFits, Owed, FlushKeepsHistory, While, H!FlushKeepsHistory
  <1> QED
    BY <1>1, HistoryAlways, PTL

\* ActivityHistory by itself, also beyond the first event its properties
\* excuse, where ServiceSpec stops: the types, the clear and the flush
\* (activity.py).
THEOREM HistoryByItself ==
    H!Spec => [](H!TypeOK /\ H!ClearedStaysCleared /\ H!FlushKeepsHistory)
  <1>1. HistoryInv => H!TypeOK /\ H!ClearedStaysCleared /\ H!FlushKeepsHistory
    BY DEF HistoryInv, Unspoiled, ClearsFit, Without, FlushFits, Owed,
           H!ClearedStaysCleared, H!FlushKeepsHistory
  <1> QED
    BY <1>1, HistoryInit, HistoryStep, PTL DEF H!Spec

-----------------------------------------------------------------------------
(* The types of all parts.                                                 *)

LEMMA LifeMoves ==
    ASSUME [ServiceNext]_service
    PROVE  [Next]_vars
  <1>1. CASE UNCHANGED service
    BY <1>1 DEF service
  <1>2. ASSUME Run PROVE Next
    BY <1>2 DEF Next
  <1> QED
    BY <1>1, <1>2 DEF ServiceNext, ServiceRun, Part

LEMMA LifeAlways ==
    ServiceSpec => []LifeInv
  <1>1. ServiceInit => LifeInv
    BY LifeInit DEF ServiceInit
  <1>2. LifeInv /\ [ServiceNext]_service => LifeInv'
    BY LifeMoves, LifeStep
  <1> QED
    BY <1>1, <1>2, PTL DEF ServiceSpec

\* The values of all four parts stay in their types: a lock of a generation
\* that set-ups can have made and calls in a phase of their kind, one notice
\* and counts within their bound, the cache and the record of misses within
\* their limits, and queued writes of events that happened.
THEOREM TypesHoldThroughout == ServiceSpec => []ServiceTypeOK
  <1>1. LifeInv => TypeOK
    BY InvTyped DEF LifeInv
  <1>2. HistoryInv => H!TypeOK
    BY DEF HistoryInv
  <1>3. AccessInv => G!TypeOK
    BY DEF AccessInv
  <1>4. LifeInv /\ HistoryInv /\ FP!Inv /\ AccessInv => ServiceTypeOK
    BY <1>1, <1>2, <1>3, LoginTyped DEF ServiceTypeOK, While
  <1> QED
    BY <1>4, LifeAlways, HistoryAlways, LoginAlways, AccessAlways, PTL

-----------------------------------------------------------------------------
(* The parts and the whole.                                                *)

LEMMA LoginStays ==
    ASSUME [ServiceNext]_service
    PROVE  [F!Next]_(F!vars)
  <1>1. CASE UNCHANGED service
    BY <1>1 DEF service, login, F!vars, F!notices
  <1>2. CASE UNCHANGED login
    BY <1>2 DEF login, F!vars, F!notices
  <1>3. CASE Part("login", F!Next)
    BY <1>3 DEF Part
  <1> QED
    BY <1>1, <1>2, <1>3 DEF ServiceNext, ServiceRun

\* The service implements each of its parts: whatever holds of every
\* behaviour of a part (hooks, trusted addresses and bans over reloads among
\* it, Lifecycle_proofs) holds of the service.
THEOREM PartsAreImplemented ==
    ServiceSpec => Spec /\ H!Spec /\ F!Spec /\ G!Spec
  <1>1. ServiceInit => Init /\ H!Init /\ F!Init /\ G!Init
    BY DEF ServiceInit
  <1>2. [ServiceNext]_service =>
          [Next]_vars /\ [H!Next]_(H!vars) /\ [F!Next]_(F!vars) /\ [G!Next]_(G!vars)
    BY LifeMoves, HistoryMoves, LoginStays, AccessMoves
  <1> QED
    BY <1>1, <1>2, PTL DEF ServiceSpec, Spec, H!Spec, F!Spec, G!Spec
=============================================================================
