-------------------------- MODULE LoginFlow_proofs --------------------------
(***************************************************************************)
(* Proofs about LoginFlow, for every set of sources, requests and          *)
(* settings: bans and escalations follow the counts, and the notice that   *)
(* stands is one the owner wants.                                          *)
(***************************************************************************)
EXTENDS LoginFlow, FiniteSetTheorems, TLAPS

PCs == {"idle", "trusted", "regional", "native", "add"}
Marks == {"edited", "reset", "offpath", "frozen", "muted"}
RequestRecord == [pc : PCs, of : Addr, limit : Nat \cup {NoLimit}]

\* TypeOK without the bounds; a regional path has its threshold.
Typed ==
    /\ rules \in Rules
    /\ counter \in [Addr -> Nat] /\ escalated \in [Addr -> Nat]
    /\ banned \subseteq Addr /\ unbanning \subseteq Addr
    /\ request \in [Request -> RequestRecord]
    /\ \A r \in Request : request[r].pc = "regional" => request[r].limit \in Nat
    /\ excused \in [Addr -> SUBSET Marks]
    /\ notice \subseteq Addr /\ silenced \subseteq Addr
    /\ again \in BOOLEAN /\ stale \in BOOLEAN

Clean(a) == excused[a] \cap {"edited", "reset"} = {}

\* A failure in flight took the path the settings in force still call for.
PathFits(r) ==
    LET a == request[r].of
    IN  /\ request[r].pc = "trusted" => Protected(a)
        /\ request[r].pc = "regional" =>
              ~ Protected(a) /\ Regional(a) # NoLimit /\ request[r].limit = Regional(a)
        /\ request[r].pc = "native" => ~ Protected(a) /\ Regional(a) = NoLimit
        /\ request[r].pc = "add" => ~ Protected(a)

PathsFit == \A r \in Request : Clean(request[r].of) => PathFits(r)

\* A source that can be banned is banned, or about to be, if and only if its
\* count has reached its threshold.
BanFits(a) ==
    Clean(a) =>
        /\ ~ Protected(a) =>
              (a \in banned \/ Adding(a) <=> Limit(a) >= 1 /\ counter[a] >= Limit(a))
        /\ a \in banned => counter[a] >= 1

BansFit == \A a \in Addr \ (unbanning \cup Internal) : BanFits(a)

\* Failures of a source that will still be counted.
Uncounted(a) ==
    {r \in Request : request[r].of = a /\ request[r].pc \in {"trusted", "regional", "native"}}

\* The bounds of TypeOK: a failure begins only if its count stays in bounds.
Bounds ==
    /\ edits \in 0 .. MaxEdits
    /\ \A a \in Addr : /\ counter[a] + Cardinality(Uncounted(a)) <= MaxCount[a]
                        /\ escalated[a] <= MaxCount[a] + 1
    /\ banned \cap Internal = {}
    /\ \A r \in Request : request[r].limit \in Limits \cup {NoLimit}
    /\ \A a, b \in notice : a = b

Inv == Typed /\ Bounds /\ PathsFit /\ BansFit /\ EscalatedOnce /\ NoticeWanted

-----------------------------------------------------------------------------
(* Thresholds.                                                             *)

LEMMA RulesTyped ==
    ASSUME LoginAssumption, Typed
    PROVE  /\ rules.allow \subseteq Addr /\ rules.canBan \in BOOLEAN
           /\ rules.auto \in BOOLEAN /\ rules.limit \in Nat
           /\ rules.regional \in Nat \cup {NoLimit}
           /\ rules.notify \in BOOLEAN /\ rules.logins \in BOOLEAN
  BY DEF LoginAssumption, Typed

LEMMA LimitTyped ==
    ASSUME LoginAssumption, Typed, NEW a \in Addr
    PROVE  /\ Regional(a) \in Nat \cup {NoLimit} /\ Live \in Nat /\ Limit(a) \in Nat
           /\ Regional(a) # NoLimit => Limit(a) = Regional(a)
           /\ Regional(a) = NoLimit => Limit(a) = Live
  <1>1. /\ rules.limit \in Nat /\ rules.regional \in Nat \cup {NoLimit}
    BY RulesTyped
  <1>2. Regional(a) \in Nat \cup {NoLimit} /\ Live \in Nat
    BY <1>1 DEF Regional, Live
  <1> QED
    BY <1>2 DEF Limit

\* The set of failures in flight, without the set.
LEMMA Flight ==
    ASSUME NEW a
    PROVE  /\ InFlight(a) = {} <=>
                  \A r \in Request : request[r].of = a => request[r].pc = "idle"
           /\ Adding(a) <=>
                  \E r \in Request : request[r].of = a /\ request[r].pc = "add"
  BY DEF InFlight, Adding

-----------------------------------------------------------------------------
(* Types.                                                                  *)

LEMMA FinishTyped ==
    ASSUME LoginAssumption, Typed, NEW r \in Request, Finish(r)
    PROVE  /\ request' \in [Request -> RequestRecord]
           /\ \A q \in Request : request'[q].pc = "regional" => request'[q].limit \in Nat
           /\ \A q \in Request \ {r} : request'[q] = request[q]
           /\ request'[r].pc = "idle" /\ request'[r].of = request[r].of
  BY DEF Typed, Finish, RequestRecord, PCs

LEMMA CountTyped ==
    ASSUME LoginAssumption, Typed, NEW r \in Request, NEW limit \in Nat, NEW exempt,
           Count(r, limit, exempt)
    PROVE  /\ request' \in [Request -> RequestRecord]
           /\ \A q \in Request : request'[q].pc = "regional" => request'[q].limit \in Nat
           /\ \A q \in Request \ {r} : request'[q] = request[q]
           /\ request'[r].pc \in {"idle", "add"} /\ request'[r].of = request[r].of
           /\ counter' \in [Addr -> Nat]
           /\ excused' \in [Addr -> SUBSET Marks]
           /\ \A a \in Addr : excused[a] \subseteq excused'[a] /\ counter[a] <= counter'[a]
           /\ notice' \subseteq Addr /\ silenced' = silenced
           /\ again' \in BOOLEAN /\ stale' \in BOOLEAN
  <1> DEFINE a == request[r].of
  <1>1. a \in Addr
    BY DEF Typed, RequestRecord
  <1>2. counter' \in [Addr -> Nat] /\ \A b \in Addr : counter[b] <= counter'[b]
    BY <1>1 DEF Typed, Count
  <1>3. /\ excused' \in [Addr -> SUBSET Marks]
        /\ \A b \in Addr : excused[b] \subseteq excused'[b]
    BY <1>1 DEF Typed, Count, Excuse, Marks
  <1>4. /\ notice' \subseteq Addr /\ silenced' = silenced
        /\ again' \in BOOLEAN /\ stale' \in BOOLEAN
    BY <1>1 DEF Typed, Count, Show, Rewrite
  <1>5. \/ request' = [request EXCEPT ![r].pc = "add"]
        \/ request' = [request EXCEPT ![r].pc = "idle"]
    BY DEF Count, Finish
  <1>6. /\ request' \in [Request -> RequestRecord]
        /\ \A q \in Request : request'[q].pc = "regional" => request'[q].limit \in Nat
        /\ \A q \in Request \ {r} : request'[q] = request[q]
        /\ request'[r].pc \in {"idle", "add"} /\ request'[r].of = request[r].of
    BY <1>5 DEF Typed, RequestRecord, PCs
  <1> QED
    BY <1>2, <1>3, <1>4, <1>6

LEMMA ResetTyped ==
    ASSUME LoginAssumption, Typed, NEW a \in Addr, Reset(a)
    PROVE  /\ counter' \in [Addr -> Nat] /\ counter'[a] = 0
           /\ escalated' \in [Addr -> Nat] /\ escalated'[a] = 0
           /\ excused' \in [Addr -> SUBSET Marks]
           /\ \A b \in Addr \ {a} : /\ counter'[b] = counter[b] /\ escalated'[b] = escalated[b]
                                    /\ excused'[b] = excused[b]
           /\ InFlight(a) # {} => excused[a] \subseteq excused'[a]
           /\ Adding(a) \/ a \in banned => "reset" \in excused'[a]
  <1>1. /\ counter' \in [Addr -> Nat] /\ counter'[a] = 0
        /\ escalated' \in [Addr -> Nat] /\ escalated'[a] = 0
        /\ \A b \in Addr \ {a} : counter'[b] = counter[b] /\ escalated'[b] = escalated[b]
    BY DEF Typed, Reset
  <1> DEFINE kept == IF InFlight(a) = {} THEN {} ELSE excused[a]
             added == {m \in {"reset"} : Adding(a) \/ a \in banned}
  <1>2. excused' = [excused EXCEPT ![a] = kept \cup added]
    BY DEF Reset
  <1>3. kept \in SUBSET Marks /\ added \in SUBSET Marks
    BY DEF Typed, Marks
  <1>4. /\ InFlight(a) # {} => kept = excused[a]
        /\ Adding(a) \/ a \in banned => "reset" \in added
    OBVIOUS
  <1> HIDE DEF kept, added
  <1>5. /\ excused' \in [Addr -> SUBSET Marks] /\ excused'[a] = kept \cup added
        /\ \A b \in Addr \ {a} : excused'[b] = excused[b]
    BY <1>2, <1>3 DEF Typed
  <1> QED
    BY <1>1, <1>4, <1>5

\* The two paths that count differ in the limit alone, and it is the one in
\* force unless settings changed on the way.
LEMMA CountedFailure ==
    ASSUME LoginAssumption, Typed, PathsFit, NEW r \in Request,
           RegionalFails(r) \/ NativeFails(r)
    PROVE  \E limit \in Nat, exempt \in SUBSET Internal :
              /\ Count(r, limit, exempt) /\ request[r].pc \in {"regional", "native"}
              /\ Clean(request[r].of) =>
                    ~ Protected(request[r].of) /\ limit = Limit(request[r].of)
              /\ UNCHANGED <<rules, edits, banned, unbanning, escalated>>
  <1>1. request[r].of \in Addr
    BY DEF Typed, RequestRecord
  <1>2. Clean(request[r].of) => PathFits(r)
    BY DEF PathsFit
  <1>3. CASE RegionalFails(r)
    <2>1. request[r].pc = "regional" /\ request[r].limit \in Nat
      BY <1>3 DEF RegionalFails, Typed
    <2>2. Clean(request[r].of) =>
             ~ Protected(request[r].of) /\ request[r].limit = Limit(request[r].of)
      BY <1>1, <1>2, <2>1, LimitTyped DEF PathFits
    <2>3. /\ Count(r, request[r].limit, Internal)
          /\ UNCHANGED <<rules, edits, banned, unbanning, escalated>>
      BY <1>3 DEF RegionalFails
    <2> QED
      BY <2>1, <2>2, <2>3
  <1>4. CASE NativeFails(r)
    <2>1. request[r].pc = "native" /\ Live \in Nat
      BY <1>1, <1>4, LimitTyped DEF NativeFails
    <2>2. Clean(request[r].of) =>
             ~ Protected(request[r].of) /\ Live = Limit(request[r].of)
      BY <1>1, <1>2, <2>1, LimitTyped DEF PathFits
    <2>3. Count(r, Live, {}) /\ UNCHANGED <<rules, edits, banned, unbanning, escalated>>
      BY <1>4 DEF NativeFails
    <2> QED
      BY <2>1, <2>2, <2>3
  <1> QED
    BY <1>3, <1>4

LEMMA FailTyped ==
    ASSUME LoginAssumption, Typed, NEW r \in Request, NEW a \in Addr, Fail(r, a)
    PROVE  /\ request' \in [Request -> RequestRecord]
           /\ \A q \in Request : request'[q].pc = "regional" => request'[q].limit \in Nat
           /\ \A q \in Request \ {r} : request'[q] = request[q]
           /\ request'[r].of = a /\ request'[r].pc # "add"
           /\ Protected(a) => request'[r].pc = "trusted"
           /\ ~ Protected(a) /\ Regional(a) # NoLimit =>
                 request'[r].pc = "regional" /\ request'[r].limit = Regional(a)
           /\ ~ Protected(a) /\ Regional(a) = NoLimit => request'[r].pc = "native"
  <1>1. Regional(a) \in Nat \cup {NoLimit}
    BY LimitTyped
  <1> DEFINE new == [of |-> a, limit |-> IF Protected(a) THEN NoLimit ELSE Regional(a),
                     pc |-> IF Protected(a) THEN "trusted"
                            ELSE IF Regional(a) # NoLimit THEN "regional" ELSE "native"]
  <1>2. request' = [request EXCEPT ![r] = new]
    BY DEF Fail
  <1>3. /\ new \in RequestRecord /\ (new.pc = "regional" => new.limit \in Nat)
        /\ new.of = a /\ new.pc # "add"
        /\ Protected(a) => new.pc = "trusted"
        /\ ~ Protected(a) /\ Regional(a) # NoLimit =>
              new.pc = "regional" /\ new.limit = Regional(a)
        /\ ~ Protected(a) /\ Regional(a) = NoLimit => new.pc = "native"
    BY <1>1 DEF RequestRecord, PCs
  <1> HIDE DEF new
  <1> QED
    BY <1>2, <1>3 DEF Typed

-----------------------------------------------------------------------------
LEMMA InitInv ==
    ASSUME LoginAssumption, Init
    PROVE  Inv
  <1>1. \A r \in Request : request[r].pc = "idle" /\ request[r].of \in Addr
                             /\ request[r].limit = NoLimit
    BY DEF Init, NoRequest, LoginAssumption
  <1>2. Typed
    <2>1. request \in [Request -> RequestRecord]
      BY DEF Init, NoRequest, LoginAssumption, RequestRecord, PCs
    <2>2. silenced \subseteq Addr
      BY DEF Init, LoginAssumption
    <2> QED
      BY <1>1, <2>1, <2>2 DEF Init, Typed
  <1>3. PathsFit
    BY <1>1 DEF PathsFit, PathFits
  <1>4. BansFit
    <2> SUFFICES ASSUME NEW a \in Addr PROVE BanFits(a)
      BY DEF BansFit
    <2>1. ~ Adding(a) /\ a \notin banned /\ counter[a] = 0
      BY <1>1, Flight DEF Init
    <2>2. Limit(a) \in Nat
      BY <1>2, LimitTyped
    <2> QED
      BY <2>1, <2>2 DEF BanFits
  <1>5. EscalatedOnce /\ NoticeWanted
    BY DEF Init, EscalatedOnce, NoticeWanted, LoginAssumption
  <1>6. Bounds
    <2>1. \A a \in Addr : Uncounted(a) = {} /\ counter[a] = 0 /\ escalated[a] = 0
      BY <1>1 DEF Uncounted, Init
    <2>2. MaxEdits \in Nat /\ MaxCount \in [Addr -> Nat] /\ Cardinality({}) = 0
      BY FS_EmptySet DEF LoginAssumption
    <2>3. \A a \in Addr : /\ counter[a] + Cardinality(Uncounted(a)) <= MaxCount[a]
                          /\ escalated[a] <= MaxCount[a] + 1
      BY <2>1, <2>2
    <2>4. \A r \in Request : request[r].limit \in Limits \cup {NoLimit}
      BY <1>1
    <2> QED
      BY <2>2, <2>3, <2>4 DEF Init, Bounds
  <1> QED
    BY <1>2, <1>3, <1>4, <1>5, <1>6 DEF Inv

LEMMA TypedStep ==
    ASSUME LoginAssumption, Typed, PathsFit, Next
    PROVE  Typed'
  <1>1. ASSUME NEW r \in Request, NEW a \in Addr, Fail(r, a) PROVE Typed'
    BY <1>1, FailTyped DEF Typed, Fail, notices
  <1>2. ASSUME NEW r \in Request, TrustedFails(r) PROVE Typed'
    <2>1. request[r].of \in Addr
      BY DEF Typed, RequestRecord
    <2>2. Finish(r)
      BY <1>2 DEF TrustedFails
    <2>3. counter' \in [Addr -> Nat] /\ escalated' \in [Addr -> Nat]
      BY <1>2, <2>1 DEF TrustedFails, Typed
    <2>4. excused' \in [Addr -> SUBSET Marks]
      BY <1>2, <2>1 DEF TrustedFails, Typed, Excuse, Marks
    <2>5. notice' \subseteq Addr /\ stale' \in BOOLEAN
      BY <1>2, <2>1 DEF TrustedFails, Typed, Show
    <2>6. UNCHANGED <<rules, banned, unbanning, silenced, again>>
      BY <1>2 DEF TrustedFails
    <2> QED
      BY <2>2, <2>3, <2>4, <2>5, <2>6, FinishTyped DEF Typed
  <1>3. ASSUME NEW r \in Request, RegionalFails(r) \/ NativeFails(r) PROVE Typed'
    <2>1. PICK limit \in Nat, exempt \in SUBSET Internal :
             /\ Count(r, limit, exempt)
             /\ UNCHANGED <<rules, edits, banned, unbanning, escalated>>
      BY <1>3, CountedFailure
    <2> QED
      BY <2>1, CountTyped DEF Typed
  <1>4. ASSUME NEW r \in Request, AddBan(r) PROVE Typed'
    <2>1. request[r].of \in Addr
      BY DEF Typed, RequestRecord
    <2> QED
      BY <1>4, <2>1, FinishTyped DEF AddBan, Typed, Rewrite
  <1>5. ASSUME NEW a \in Addr, Succeed(a) \/ Unban(a) \/ Unbanned(a) PROVE Typed'
    <2>1. CASE Succeed(a)
      BY <2>1, ResetTyped DEF Succeed, Typed
    <2>2. CASE Unban(a)
      BY <2>2 DEF Unban, Typed, notices
    <2>3. CASE Unbanned(a)
      BY <2>3, ResetTyped DEF Unbanned, Typed, Dismiss
    <2> QED
      BY <1>5, <2>1, <2>2, <2>3
  <1>6. ASSUME NEW a \in UNION {s.allow : s \in Rules}, Silence(a) \/ Unsilence(a)
        PROVE  Typed'
    <2>1. a \in Addr
      BY DEF LoginAssumption
    <2> QED
      BY <1>6, <2>1 DEF Silence, Unsilence, Typed, Dismiss
  <1>7. ASSUME NEW s \in Rules, Edit(s) PROVE Typed'
    <2>1. excused' \in [Addr -> SUBSET Marks]
      BY <1>7 DEF Edit, Typed, Marks
    <2> QED
      BY <1>7, <2>1 DEF Edit, Typed
  <1>8. CASE SilenceAll \/ RewriteAgain
    BY <1>8 DEF SilenceAll, RewriteAgain, Typed, Dismiss, Rewrite
  <1> QED
    BY <1>1, <1>2, <1>3, <1>4, <1>5, <1>6, <1>7, <1>8 DEF Next

-----------------------------------------------------------------------------
(* Bounds.                                                                 *)

LEMMA UncountedFinite ==
    ASSUME LoginAssumption, NEW a
    PROVE  IsFiniteSet(Uncounted(a)) /\ Cardinality(Uncounted(a)) \in Nat
  <1>1. IsFiniteSet(Request) /\ Uncounted(a) \in SUBSET Request
    BY DEF LoginAssumption, Uncounted
  <1>2. IsFiniteSet(Uncounted(a))
    BY <1>1, FS_Subset
  <1> QED
    BY <1>2, FS_CardinalityType

\* A counted failure makes room for the count it adds.
LEMMA OneCounted ==
    ASSUME LoginAssumption, Typed, Bounds, NEW r \in Request,
           request[r].pc \in {"trusted", "regional", "native"},
           request'[r].pc \in {"idle", "add"}, request'[r].of = request[r].of,
           \A q \in Request \ {r} : request'[q] = request[q],
           counter' \in [Addr -> Nat],
           counter'[request[r].of] <= counter[request[r].of] + 1,
           \A b \in Addr \ {request[r].of} : counter'[b] = counter[b]
    PROVE  \A a \in Addr : counter'[a] + Cardinality(Uncounted(a)') <= MaxCount[a]
  <1> SUFFICES ASSUME NEW a \in Addr
               PROVE  counter'[a] + Cardinality(Uncounted(a)') <= MaxCount[a]
    OBVIOUS
  <1>1. /\ counter[a] \in Nat /\ counter'[a] \in Nat /\ MaxCount[a] \in Nat
        /\ Cardinality(Uncounted(a)) \in Nat
        /\ counter[a] + Cardinality(Uncounted(a)) <= MaxCount[a]
    BY UncountedFinite DEF Typed, Bounds, LoginAssumption
  <1>2. CASE a = request[r].of
    <2>1. r \in Uncounted(a) /\ Uncounted(a)' = Uncounted(a) \ {r}
      BY <1>2 DEF Uncounted
    <2>2. Cardinality(Uncounted(a)') = Cardinality(Uncounted(a)) - 1
      BY <2>1, UncountedFinite, FS_RemoveElement
    <2> QED
      BY <1>1, <1>2, <2>2
  <1>3. CASE a # request[r].of
    <2>1. Uncounted(a)' = Uncounted(a)
      BY <1>3 DEF Uncounted
    <2> QED
      BY <1>1, <1>3, <2>1
  <1> QED
    BY <1>2, <1>3

LEMMA BoundsStep ==
    ASSUME LoginAssumption, Typed, PathsFit, Bounds, Next
    PROVE  Bounds'
  <1> DEFINE kept == /\ edits' = edits /\ escalated' = escalated
             fits == \A a \in Addr : counter'[a] + Cardinality(Uncounted(a)') <= MaxCount[a]
             limits == \A r \in Request : request'[r].limit \in Limits \cup {NoLimit}
             one == \A a, b \in notice' : a = b
  <1>1. ASSUME NEW r \in Request, NEW a \in Addr, Fail(r, a) PROVE Bounds'
    <2>1. /\ UNCHANGED <<edits, counter, escalated, banned, notice>>
          /\ counter[a] + Cardinality(InFlight(a)) < MaxCount[a] /\ request[r].pc = "idle"
          /\ request'[r].limit \in Limits \cup {NoLimit}
      BY <1>1 DEF Fail, notices, Typed, Regional, Limits
    <2>2. /\ request'[r].of = a /\ \A q \in Request \ {r} : request'[q] = request[q]
          /\ request'[r].pc \in {"trusted", "regional", "native"}
      BY <1>1, FailTyped DEF Fail, Typed
    <2>3. limits
      BY <2>1, <2>2 DEF Bounds
    <2>4. ASSUME NEW b \in Addr PROVE counter'[b] + Cardinality(Uncounted(b)') <= MaxCount[b]
      <3>1. CASE b # a
        <4>1. Uncounted(b)' = Uncounted(b)
          BY <2>1, <2>2, <3>1 DEF Uncounted
        <4> QED
          BY <2>1, <4>1 DEF Bounds
      <3>2. CASE b = a
        <4>1. /\ Uncounted(a)' = Uncounted(a) \cup {r} /\ r \notin Uncounted(a)
              /\ Uncounted(a) \in SUBSET InFlight(a)
          BY <2>1, <2>2 DEF Uncounted, InFlight
        <4>2. Cardinality(Uncounted(a)') = Cardinality(Uncounted(a)) + 1
          BY <4>1, UncountedFinite, FS_AddElement
        <4>3. IsFiniteSet(InFlight(a))
          <5>1. InFlight(a) \in SUBSET Request /\ IsFiniteSet(Request)
            BY DEF InFlight, LoginAssumption
          <5> QED
            BY <5>1, FS_Subset
        <4>4. /\ Cardinality(Uncounted(a)) <= Cardinality(InFlight(a))
              /\ Cardinality(InFlight(a)) \in Nat
          BY <4>1, <4>3, FS_Subset, FS_CardinalityType
        <4>5. counter[a] \in Nat /\ MaxCount[a] \in Nat /\ Cardinality(Uncounted(a)) \in Nat
          BY UncountedFinite DEF Typed, LoginAssumption
        <4> QED
          BY <2>1, <3>2, <4>2, <4>4, <4>5
      <3> QED
        BY <3>1, <3>2
    <2> QED
      BY <2>1, <2>3, <2>4 DEF Bounds
  <1>2. ASSUME NEW r \in Request, TrustedFails(r) PROVE Bounds'
    <2> DEFINE a == request[r].of
    <2>1. a \in Addr /\ counter[a] \in Nat /\ escalated[a] \in Nat /\ MaxCount[a] \in Nat
      BY DEF Typed, RequestRecord, LoginAssumption
    <2>2. /\ counter' \in [Addr -> Nat] /\ counter'[a] <= counter[a] + 1
          /\ \A b \in Addr \ {a} : counter'[b] = counter[b]
      BY <1>2, <2>1 DEF TrustedFails, Typed
    <2>3. Finish(r) /\ request[r].pc = "trusted"
      BY <1>2 DEF TrustedFails
    <2>4. fits
      BY <2>2, <2>3, FinishTyped, OneCounted
    <2>5. \A b \in Addr : escalated'[b] <= MaxCount[b] + 1
      BY <1>2, <2>1 DEF TrustedFails, Bounds, Typed
    <2>6. limits
      BY <2>3 DEF Finish, Bounds, Typed, RequestRecord
    <2>7. UNCHANGED <<edits, banned>> /\ one
      BY <1>2 DEF TrustedFails, Show, Bounds
    <2> QED
      BY <2>4, <2>5, <2>6, <2>7 DEF Bounds
  <1>3. ASSUME NEW r \in Request, RegionalFails(r) \/ NativeFails(r) PROVE Bounds'
    <2> DEFINE a == request[r].of
    <2>1. PICK limit \in Nat, exempt \in SUBSET Internal :
             /\ Count(r, limit, exempt) /\ request[r].pc \in {"regional", "native"}
             /\ UNCHANGED <<rules, edits, banned, unbanning, escalated>>
      BY <1>3, CountedFailure
    <2>2. a \in Addr
      BY DEF Typed, RequestRecord
    <2>3. counter'[a] <= counter[a] + 1 /\ \A b \in Addr \ {a} : counter'[b] = counter[b]
      BY <2>1, <2>2 DEF Count, Typed
    <2>4. fits
      BY <2>1, <2>3, CountTyped, OneCounted
    <2>5. limits
      <3>1. \/ request' = [request EXCEPT ![r].pc = "add"]
            \/ request' = [request EXCEPT ![r].pc = "idle"]
        BY <2>1 DEF Count, Finish
      <3>2. \A q \in Request : request'[q].limit = request[q].limit
        BY <3>1 DEF Typed, RequestRecord
      <3> QED
        BY <3>2 DEF Bounds
    <2>6. one
      BY <2>1 DEF Count, Show, Rewrite
    <2> QED
      BY <2>1, <2>4, <2>5, <2>6 DEF Bounds
  <1>4. ASSUME NEW r \in Request, AddBan(r) PROVE Bounds'
    <2>1. Finish(r) /\ request[r].pc = "add" /\ kept /\ counter' = counter
      BY <1>4 DEF AddBan
    <2>2. \A a \in Addr : Uncounted(a)' = Uncounted(a)
      BY <2>1, FinishTyped DEF Uncounted
    <2>3. limits
      BY <2>1 DEF Finish, Bounds, Typed, RequestRecord
    <2>4. one /\ banned' \cap Internal = {}
      BY <1>4 DEF AddBan, Rewrite, Bounds
    <2> QED
      BY <2>1, <2>2, <2>3, <2>4 DEF Bounds
  <1>5. ASSUME NEW a \in Addr, Reset(a), UNCHANGED <<request, edits>>, banned' = banned,
               notice' \subseteq notice
        PROVE  Bounds'
    <2>1. \A b \in Addr : Uncounted(b)' = Uncounted(b)
      BY <1>5 DEF Uncounted
    <2>2. /\ counter'[a] = 0 /\ escalated'[a] = 0 /\ counter[a] \in Nat
          /\ \A b \in Addr \ {a} : counter'[b] = counter[b] /\ escalated'[b] = escalated[b]
      BY <1>5, ResetTyped DEF Typed
    <2>3. Cardinality(Uncounted(a)) \in Nat /\ MaxCount[a] \in Nat
      BY UncountedFinite DEF LoginAssumption
    <2>4. ASSUME NEW b \in Addr
          PROVE  /\ counter'[b] + Cardinality(Uncounted(b)') <= MaxCount[b]
                 /\ escalated'[b] <= MaxCount[b] + 1
      BY <2>1, <2>2, <2>3, <2>4 DEF Bounds
    <2> QED
      BY <1>5, <2>4 DEF Bounds
  <1>6. ASSUME UNCHANGED <<counter, request, escalated>>, edits' \in 0 .. MaxEdits,
               banned' \subseteq banned, notice' \subseteq notice
        PROVE  Bounds'
    BY <1>6 DEF Bounds, Uncounted
  <1>7. edits \in 0 .. MaxEdits /\ MaxEdits \in Nat
    BY DEF Bounds, LoginAssumption
  <1>8. ASSUME NEW a \in Addr, Succeed(a) \/ Unban(a) \/ Unbanned(a) PROVE Bounds'
    <2>1. CASE Succeed(a)
      BY <1>5, <2>1 DEF Succeed
    <2>2. CASE Unban(a)
      BY <1>6, <1>7, <2>2 DEF Unban, notices
    <2>3. CASE Unbanned(a)
      BY <1>5, <2>3 DEF Unbanned, Dismiss
    <2> QED
      BY <1>8, <2>1, <2>2, <2>3
  <1>9. ASSUME NEW a, Silence(a) \/ Unsilence(a) PROVE Bounds'
    BY <1>6, <1>7, <1>9 DEF Silence, Unsilence, Dismiss
  <1>10. ASSUME NEW s \in Rules, Edit(s) PROVE Bounds'
    BY <1>6, <1>7, <1>10 DEF Edit
  <1>11. CASE SilenceAll
    BY <1>6, <1>7, <1>11 DEF SilenceAll, Dismiss
  <1>12. CASE RewriteAgain
    BY <1>6, <1>7, <1>12 DEF RewriteAgain, Rewrite
  <1> QED
    BY <1>1, <1>2, <1>3, <1>4, <1>8, <1>9, <1>10, <1>11, <1>12 DEF Next

-----------------------------------------------------------------------------
(* The paths in flight.                                                    *)

\* The settings that choose a path are those of `rules' alone.
LEMMA SameRules ==
    ASSUME rules' = rules
    PROVE  /\ \A a \in Addr : (Protected(a))' = Protected(a) /\ Regional(a)' = Regional(a)
                                /\ Limit(a)' = Limit(a)
           /\ Live' = Live
  BY DEF Protected, Regional, Limit, Live

LEMMA QuietRules ==
    ASSUME LoginAssumption, Typed, SilenceAll
    PROVE  \A a \in Addr : (Protected(a))' = Protected(a) /\ Regional(a)' = Regional(a)
                             /\ Limit(a)' = Limit(a)
  <1>1. /\ rules'.allow = rules.allow /\ rules'.canBan = rules.canBan
        /\ rules'.auto = rules.auto /\ rules'.limit = rules.limit
        /\ rules'.regional = rules.regional
    BY DEF SilenceAll, Typed, LoginAssumption
  <1> QED
    BY <1>1 DEF Protected, Regional, Limit, Live

LEMMA PathsStep ==
    ASSUME LoginAssumption, Typed, PathsFit, Next
    PROVE  PathsFit'
  <1> SUFFICES ASSUME NEW q \in Request, Clean(request[q].of)' PROVE PathFits(q)'
    BY DEF PathsFit
  <1> USE DEF Clean
  <1>t. request[q].of \in Addr
    BY DEF Typed, RequestRecord
  \* Nothing that a path depends on changed.
  <1>s. ASSUME rules' = rules, request'[q] = request[q],
               excused[request[q].of] \subseteq excused'[request[q].of]
        PROVE  PathFits(q)'
    <2>1. PathFits(q)
      BY <1>s DEF PathsFit
    <2> QED
      BY <1>s, <1>t, <2>1, SameRules DEF PathFits
  <1>i. ASSUME request'[q].pc = "idle" PROVE PathFits(q)'
    BY <1>i DEF PathFits
  <1>1. ASSUME NEW r \in Request, NEW a \in Addr, Fail(r, a) PROVE PathFits(q)'
    <2>1. rules' = rules /\ excused' = excused
      BY <1>1 DEF Fail
    <2>2. CASE q = r
      BY <1>1, <2>1, <2>2, FailTyped, SameRules DEF PathFits
    <2>3. CASE q # r
      BY <1>1, <1>s, <2>1, <2>3, FailTyped
    <2> QED
      BY <2>2, <2>3
  <1>2. ASSUME NEW r \in Request, TrustedFails(r) PROVE PathFits(q)'
    <2>1. Finish(r) /\ rules' = rules
      BY <1>2 DEF TrustedFails
    <2>2. \A b \in Addr : excused[b] \subseteq excused'[b]
      BY <1>2 DEF TrustedFails, Excuse, Typed
    <2> QED
      BY <1>s, <1>i, <1>t, <2>1, <2>2, FinishTyped
  <1>3. ASSUME NEW r \in Request, RegionalFails(r) \/ NativeFails(r) PROVE PathFits(q)'
    <2>1. PICK limit \in Nat, exempt \in SUBSET Internal :
             /\ Count(r, limit, exempt)
             /\ Clean(request[r].of) => ~ Protected(request[r].of)
             /\ UNCHANGED <<rules, edits, banned, unbanning, escalated>>
      BY <1>3, CountedFailure
    <2>2. \A b \in Addr : excused[b] \subseteq excused'[b]
      BY <2>1, CountTyped
    <2>3. CASE q = r
      <3>1. request'[q].pc \in {"idle", "add"} /\ request'[q].of = request[q].of
        BY <2>1, <2>3, CountTyped
      <3>2. ~ Protected(request[q].of)'
        BY <1>t, <2>1, <2>2, <2>3, <3>1, SameRules
      <3> QED
        BY <3>1, <3>2 DEF PathFits
    <2>4. CASE q # r
      <3>1. request'[q] = request[q]
        BY <2>1, <2>4, CountTyped
      <3> QED
        BY <1>s, <1>t, <2>1, <2>2, <3>1
    <2> QED
      BY <2>3, <2>4
  <1>4. ASSUME NEW r \in Request, AddBan(r) PROVE PathFits(q)'
    <2>1. Finish(r) /\ rules' = rules /\ excused' = excused
      BY <1>4 DEF AddBan
    <2> QED
      BY <1>s, <1>i, <2>1, FinishTyped
  <1>5. ASSUME NEW a \in Addr, Succeed(a) \/ Unban(a) \/ Unbanned(a) PROVE PathFits(q)'
    <2>1. rules' = rules /\ request' = request
      BY <1>5 DEF Succeed, Unban, Unbanned, notices
    <2>2. CASE Unban(a)
      BY <1>s, <2>1, <2>2 DEF Unban
    <2>3. CASE Reset(a)
      <3>1. CASE request[q].of = a /\ InFlight(a) = {}
        BY <1>i, <2>1, <3>1, Flight
      <3>2. CASE ~ (request[q].of = a /\ InFlight(a) = {})
        <4>1. excused[request[q].of] \subseteq excused'[request[q].of]
          BY <1>t, <2>3, <3>2, ResetTyped
        <4> QED
          BY <1>s, <2>1, <4>1
      <3> QED
        BY <3>1, <3>2
    <2> QED
      BY <1>5, <2>2, <2>3 DEF Succeed, Unbanned
  <1>6. ASSUME NEW a \in UNION {s.allow : s \in Rules}, Silence(a) \/ Unsilence(a)
        PROVE  PathFits(q)'
    BY <1>6, <1>s DEF Silence, Unsilence
  <1>7. ASSUME NEW s \in Rules, Edit(s) PROVE PathFits(q)'
    <2>1. request' = request
      BY <1>7 DEF Edit
    <2>2. InFlight(request[q].of) = {}
      BY <1>7, <1>t, <2>1 DEF Edit
    <2> QED
      BY <1>i, <2>1, <2>2, Flight
  <1>8. CASE SilenceAll
    <2>1. request' = request /\ excused' = excused
      BY <1>8 DEF SilenceAll
    <2>2. PathFits(q)
      BY <2>1 DEF PathsFit
    <2> QED
      BY <1>8, <1>t, <2>1, <2>2, QuietRules DEF PathFits
  <1>9. CASE RewriteAgain
    BY <1>9, <1>s DEF RewriteAgain
  <1> QED
    BY <1>1, <1>2, <1>3, <1>4, <1>5, <1>6, <1>7, <1>8, <1>9 DEF Next

-----------------------------------------------------------------------------
(* Bans and counts.                                                        *)

LEMMA BansStep ==
    ASSUME LoginAssumption, Typed, PathsFit, BansFit, Next
    PROVE  BansFit'
  <1> SUFFICES ASSUME NEW a \in Addr, a \notin unbanning', a \notin Internal, Clean(a)'
               PROVE  BanFits(a)'
    BY DEF BansFit, BanFits
  <1>t. Limit(a) \in Nat /\ counter[a] \in Nat
    BY LimitTyped DEF Typed
  \* Nothing changed for this source but that its count may have risen
  \* while it was protected.
  <1>s. ASSUME rules' = rules, a \notin unbanning, Clean(a), Adding(a)' = Adding(a),
               banned' = banned, counter'[a] \in Nat, counter[a] <= counter'[a],
               counter'[a] = counter[a] \/ Protected(a)
        PROVE  BanFits(a)'
    <2>1. BanFits(a)
      BY <1>s DEF BansFit
    <2> QED
      BY <1>s, <1>t, <2>1, SameRules DEF BanFits
  <1>1. ASSUME NEW r \in Request, NEW b \in Addr, Fail(r, b) PROVE BanFits(a)'
    <2>1. Adding(a)' = Adding(a)
      <3>1. request[r].pc = "idle"
        BY <1>1 DEF Fail
      <3> QED
        BY <1>1, <3>1, FailTyped DEF Adding, InFlight
    <2>2. /\ rules' = rules /\ unbanning' = unbanning /\ banned' = banned
          /\ counter' = counter /\ excused' = excused
      BY <1>1 DEF Fail
    <2> QED
      BY <1>s, <1>t, <2>1, <2>2 DEF Clean
  <1>2. ASSUME NEW r \in Request, TrustedFails(r) PROVE BanFits(a)'
    <2>0. request[r].of \in Addr
      BY DEF Typed, RequestRecord
    <2>1. Finish(r) /\ request[r].pc = "trusted"
      BY <1>2 DEF TrustedFails
    <2>2. /\ rules' = rules /\ unbanning' = unbanning /\ banned' = banned
      BY <1>2 DEF TrustedFails
    <2>3. Adding(a)' = Adding(a)
      BY <2>1, FinishTyped DEF Adding, InFlight
    <2>4. excused[a] \subseteq excused'[a]
      BY <1>2 DEF TrustedFails, Excuse, Typed
    <2>5. Clean(a)
      BY <2>4 DEF Clean
    <2>6. counter'[a] \in Nat /\ counter[a] <= counter'[a]
      BY <1>2, <1>t, <2>0 DEF TrustedFails, Typed
    <2>7. CASE request[r].of = a
      <3>1. Protected(a)
        BY <2>1, <2>5, <2>7 DEF PathsFit, PathFits
      <3> QED
        BY <1>s, <2>2, <2>3, <2>5, <2>6, <3>1
    <2>8. CASE request[r].of # a
      <3>1. counter'[a] = counter[a]
        BY <1>2, <2>8, <2>0 DEF TrustedFails, Typed
      <3> QED
        BY <1>s, <2>2, <2>3, <2>5, <2>6, <3>1
    <2> QED
      BY <2>7, <2>8
  <1>3. ASSUME NEW r \in Request, RegionalFails(r) \/ NativeFails(r) PROVE BanFits(a)'
    <2>0. request[r].of \in Addr
      BY DEF Typed, RequestRecord
    <2>1. PICK limit \in Nat, exempt \in SUBSET Internal :
             /\ Count(r, limit, exempt) /\ request[r].pc \in {"regional", "native"}
             /\ Clean(request[r].of) =>
                   ~ Protected(request[r].of) /\ limit = Limit(request[r].of)
             /\ UNCHANGED <<rules, edits, banned, unbanning, escalated>>
      BY <1>3, CountedFailure
    <2>2. /\ excused[a] \subseteq excused'[a] /\ counter[a] <= counter'[a]
          /\ counter'[a] \in Nat
      BY <2>1, CountTyped
    <2>3. Clean(a) /\ a \notin unbanning
      BY <2>1, <2>2 DEF Clean
    <2>4. BanFits(a)
      BY <2>3 DEF BansFit
    <2>5. CASE request[r].of # a
      <3>1. counter'[a] = counter[a]
        BY <2>0, <2>1, <2>5 DEF Count, Typed
      <3>2. Adding(a)' = Adding(a)
        BY <2>1, <2>5, CountTyped DEF Adding, InFlight
      <3> QED
        BY <1>s, <2>1, <2>2, <2>3, <3>1, <3>2
    <2>6. CASE request[r].of = a
      <3> DEFINE attempts == counter[a] + IF limit < 1 THEN 0 ELSE 1
                 ban == limit >= 1 /\ attempts >= limit
      <3>1. counter'[a] = attempts /\ attempts \in Nat
        BY <1>t, <2>0, <2>1, <2>6 DEF Count, Typed
      <3>2. ban => request'[r].pc = "add" /\ request'[r].of = a
        BY <2>1, <2>6 DEF Count, Typed, RequestRecord
      <3>3. ~ ban => Adding(a)' = Adding(a)
        <4>1. ~ ban => Finish(r)
          BY <2>1, <2>6 DEF Count
        <4> QED
          BY <2>1, <4>1, FinishTyped DEF Adding, InFlight
      <3>4. limit = Limit(a) /\ ~ Protected(a)
        BY <2>1, <2>3, <2>6
      <3>5. Limit(a)' = limit /\ banned' = banned
        BY <2>1, <3>4, SameRules
      <3>6. CASE ban
        <4>1. Adding(a)'
          BY <3>2, <3>6 DEF Adding, InFlight
        <4> QED
          BY <1>t, <2>2, <2>3, <2>4, <3>1, <3>5, <3>6, <4>1 DEF BanFits
      <3>7. CASE ~ ban
        <4>1. ~ (limit >= 1 /\ counter[a] >= limit)
          BY <1>t, <3>7
        <4>2. a \notin banned /\ ~ Adding(a)
          BY <2>3, <2>4, <3>4, <4>1 DEF BanFits
        <4> QED
          BY <3>1, <3>3, <3>5, <3>7, <4>2 DEF BanFits
      <3> QED
        BY <3>6, <3>7
    <2> QED
      BY <2>5, <2>6
  <1>4. ASSUME NEW r \in Request, AddBan(r) PROVE BanFits(a)'
    <2>1. /\ Finish(r) /\ rules' = rules /\ unbanning' = unbanning
          /\ counter' = counter /\ excused' = excused /\ request[r].pc = "add"
      BY <1>4 DEF AddBan
    <2>2. Clean(a) /\ BanFits(a)
      BY <2>1 DEF Clean, BansFit
    <2>3. CASE request[r].of # a
      <3>1. Adding(a)' = Adding(a)
        BY <2>1, <2>3, FinishTyped DEF Adding, InFlight
      <3>2. (a \in banned') = (a \in banned)
        BY <1>4, <2>3 DEF AddBan
      <3> QED
        BY <2>1, <2>2, <3>1, <3>2, SameRules DEF BanFits
    <2>4. CASE request[r].of = a
      <3>1. Adding(a) /\ ~ Protected(a)
        BY <2>1, <2>2, <2>4 DEF Adding, InFlight, PathsFit, PathFits
      <3>2. a \in banned'
        BY <1>4, <2>4, <3>1 DEF AddBan
      <3>3. Limit(a) >= 1 /\ counter[a] >= Limit(a)
        BY <2>2, <3>1 DEF BanFits
      <3> QED
        BY <1>t, <2>1, <3>2, <3>3, SameRules DEF BanFits
    <2> QED
      BY <2>3, <2>4
  <1>5. ASSUME NEW b \in Addr, Succeed(b) \/ Unban(b) \/ Unbanned(b) PROVE BanFits(a)'
    <2>1. rules' = rules /\ request' = request
      BY <1>5 DEF Succeed, Unban, Unbanned, notices
    <2>2. Adding(a)' = Adding(a)
      BY <2>1 DEF Adding, InFlight
    <2>3. CASE Unban(b)
      <3>1. a # b
        BY <2>3 DEF Unban
      <3>2. /\ (a \in banned') = (a \in banned) /\ a \notin unbanning
            /\ counter' = counter /\ excused' = excused
        BY <2>3, <3>1 DEF Unban
      <3>3. BanFits(a)
        BY <3>2 DEF BansFit
      <3> QED
        BY <2>1, <2>2, <3>2, <3>3, SameRules DEF BanFits, Clean
    <2>4. CASE Reset(b) /\ banned' = banned /\ (a = b \/ a \notin unbanning)
      <3>1. CASE a = b
        <4>1. counter'[a] = 0 /\ ~ Adding(a) /\ a \notin banned
          BY <2>4, <3>1, ResetTyped DEF Clean
        <4> QED
          BY <1>t, <2>1, <2>2, <2>4, <4>1, SameRules DEF BanFits
      <3>2. CASE a # b
        <4>1. counter'[a] = counter[a] /\ excused'[a] = excused[a]
          BY <2>4, <3>2, ResetTyped
        <4> QED
          BY <1>s, <1>t, <2>1, <2>2, <2>4, <3>2, <4>1 DEF Clean
      <3> QED
        BY <3>1, <3>2
    <2> QED
      BY <1>5, <2>3, <2>4 DEF Succeed, Unbanned
  <1>6. ASSUME NEW b \in UNION {s.allow : s \in Rules}, Silence(b) \/ Unsilence(b)
        PROVE  BanFits(a)'
    <2>1. /\ rules' = rules /\ request' = request /\ banned' = banned
          /\ unbanning' = unbanning /\ counter' = counter /\ excused' = excused
      BY <1>6 DEF Silence, Unsilence
    <2>2. Adding(a)' = Adding(a)
      BY <2>1 DEF Adding, InFlight
    <2> QED
      BY <1>s, <1>t, <2>1, <2>2 DEF Clean
  <1>7. ASSUME NEW s \in Rules, Edit(s) PROVE BanFits(a)'
    <2>1. /\ request' = request /\ banned' = banned
          /\ unbanning' = unbanning /\ counter' = counter
      BY <1>7 DEF Edit
    <2>2. excused'[a] = excused[a] \cup
                        {m \in {"edited"} : counter[a] > 0 \/ InFlight(a) # {}}
      BY <1>7 DEF Edit
    <2>3. counter[a] = 0 /\ InFlight(a) = {} /\ Clean(a)
      BY <1>t, <2>2 DEF Clean
    <2>4. a \notin banned
      BY <2>1, <2>3 DEF BansFit, BanFits
    <2>5. ~ Adding(a)'
      BY <2>1, <2>3, Flight DEF Adding, InFlight
    <2>6. Limit(a)' \in Nat
      <3>1. Typed'
        BY TypedStep
      <3>2. rules' \in Rules
        BY <3>1 DEF Typed
      <3> QED
        BY <3>2 DEF LoginAssumption, Limit, Live, Regional
    <2> QED
      BY <2>1, <2>3, <2>4, <2>5, <2>6 DEF BanFits
  <1>8. CASE SilenceAll
    <2>1. /\ request' = request /\ banned' = banned /\ excused' = excused
          /\ unbanning' = unbanning /\ counter' = counter
      BY <1>8 DEF SilenceAll
    <2>2. Adding(a)' = Adding(a)
      BY <2>1 DEF Adding, InFlight
    <2>3. BanFits(a)
      BY <2>1 DEF BansFit
    <2> QED
      BY <1>8, <2>1, <2>2, <2>3, QuietRules DEF BanFits, Clean
  <1>9. CASE RewriteAgain
    <2>1. /\ rules' = rules /\ request' = request /\ banned' = banned
          /\ unbanning' = unbanning /\ counter' = counter /\ excused' = excused
      BY <1>9 DEF RewriteAgain
    <2>2. Adding(a)' = Adding(a)
      BY <2>1 DEF Adding, InFlight
    <2> QED
      BY <1>s, <1>t, <2>1, <2>2 DEF Clean
  <1> QED
    BY <1>1, <1>2, <1>3, <1>4, <1>5, <1>6, <1>7, <1>8, <1>9 DEF Next

-----------------------------------------------------------------------------
(* Escalations.                                                            *)

LEMMA EscalationStep ==
    ASSUME LoginAssumption, Typed, PathsFit, EscalatedOnce, Next
    PROVE  EscalatedOnce'
  <1> DEFINE Excuses == {"offpath", "frozen", "muted"}
             Once(a) == escalated[a] = IF counter[a] >= EscalateAt THEN 1 ELSE 0
  <1> SUFFICES ASSUME NEW a \in Addr, excused'[a] \cap Excuses = {} PROVE Once(a)'
    BY DEF EscalatedOnce
  <1>e. EscalateAt \in Nat \ {0} /\ counter[a] \in Nat
    BY DEF LoginAssumption, Typed
  <1>s. ASSUME excused[a] \subseteq excused'[a], counter'[a] = counter[a],
               escalated'[a] = escalated[a]
        PROVE  Once(a)'
    BY <1>s DEF EscalatedOnce
  <1>1. ASSUME NEW r \in Request, NEW b \in Addr, Fail(r, b) PROVE Once(a)'
    BY <1>1, <1>s DEF Fail
  <1>2. ASSUME NEW r \in Request, TrustedFails(r) PROVE Once(a)'
    <2>0. request[r].of \in Addr
      BY DEF Typed, RequestRecord
    <2>1. CASE request[r].of # a
      BY <1>2, <1>s, <2>0, <2>1 DEF TrustedFails, Typed, Excuse
    <2>2. CASE request[r].of = a
      <3> DEFINE attempts == counter[a] + IF Limit(a) >= 1 THEN 1 ELSE 0
      <3>1. /\ counter'[a] = attempts /\ attempts \in Nat
            /\ escalated'[a] = IF /\ rules.notify /\ attempts = EscalateAt
                                  /\ escalated[a] <= MaxCount[a]
                               THEN escalated[a] + 1 ELSE escalated[a]
        BY <1>2, <1>e, <2>2 DEF TrustedFails, Escalates, Typed
      <3>2. /\ excused[a] \subseteq excused'[a]
            /\ attempts = EscalateAt /\ Limit(a) = 0 => "frozen" \in excused'[a]
            /\ attempts = EscalateAt /\ ~ rules.notify => "muted" \in excused'[a]
        BY <1>2, <2>2 DEF TrustedFails, Excuse, Typed
      <3>3. Once(a) /\ Limit(a) \in Nat /\ MaxCount[a] \in Nat
        BY <3>2, LimitTyped DEF EscalatedOnce, LoginAssumption
      <3>4. CASE attempts = EscalateAt
        <4>1. Limit(a) # 0 /\ rules.notify
          BY <3>2, <3>4
        <4>2. counter[a] < EscalateAt /\ escalated[a] = 0
          BY <1>e, <3>3, <3>4, <4>1
        <4> QED
          BY <1>e, <3>1, <3>3, <3>4, <4>1, <4>2
      <3>5. CASE attempts # EscalateAt
        BY <1>e, <3>1, <3>3, <3>5
      <3> QED
        BY <3>4, <3>5
    <2> QED
      BY <2>1, <2>2
  <1>3. ASSUME NEW r \in Request, RegionalFails(r) \/ NativeFails(r) PROVE Once(a)'
    <2>0. request[r].of \in Addr
      BY DEF Typed, RequestRecord
    <2>1. PICK limit \in Nat, exempt \in SUBSET Internal :
             /\ Count(r, limit, exempt)
             /\ UNCHANGED <<rules, edits, banned, unbanning, escalated>>
      BY <1>3, CountedFailure
    <2>2. CASE request[r].of # a
      BY <1>s, <2>0, <2>1, <2>2 DEF Count, Typed, Excuse
    <2>3. CASE request[r].of = a
      <3> DEFINE attempts == counter[a] + IF limit < 1 THEN 0 ELSE 1
      <3>1. counter'[a] = attempts /\ escalated' = escalated
        BY <1>e, <2>1, <2>3 DEF Count, Typed
      <3>2. /\ excused[a] \subseteq excused'[a]
            /\ limit >= 1 /\ attempts = EscalateAt => "offpath" \in excused'[a]
        BY <2>1, <2>3 DEF Count, Excuse, Typed
      <3>3. Once(a)
        BY <3>2 DEF EscalatedOnce
      <3> QED
        BY <1>e, <3>1, <3>2, <3>3
    <2> QED
      BY <2>2, <2>3
  <1>4. ASSUME NEW r \in Request, AddBan(r) PROVE Once(a)'
    BY <1>4, <1>s DEF AddBan
  <1>5. ASSUME NEW b \in Addr, Succeed(b) \/ Unban(b) \/ Unbanned(b) PROVE Once(a)'
    <2>1. CASE Unban(b)
      BY <1>s, <2>1 DEF Unban
    <2>2. CASE Reset(b)
      <3>1. CASE a = b
        BY <1>e, <2>2, <3>1, ResetTyped
      <3>2. CASE a # b
        BY <1>s, <2>2, <3>2, ResetTyped
      <3> QED
        BY <3>1, <3>2
    <2> QED
      BY <1>5, <2>1, <2>2 DEF Succeed, Unbanned
  <1>6. ASSUME NEW b \in UNION {s.allow : s \in Rules}, Silence(b) \/ Unsilence(b)
        PROVE  Once(a)'
    BY <1>6, <1>s DEF Silence, Unsilence
  <1>7. ASSUME NEW s \in Rules, Edit(s) PROVE Once(a)'
    BY <1>7, <1>s DEF Edit
  <1>8. CASE SilenceAll \/ RewriteAgain
    BY <1>8, <1>s DEF SilenceAll, RewriteAgain
  <1> QED
    BY <1>1, <1>2, <1>3, <1>4, <1>5, <1>6, <1>7, <1>8 DEF Next

-----------------------------------------------------------------------------
(* The notice.                                                             *)

Wanted(a) ==
    rules.notify /\ (a \in rules.allow =>
        a \notin silenced /\ (counter[a] >= EscalateAt \/ rules.logins))

\* A rewriting leaves a notice the owner wants.
LEMMA RewriteWanted ==
    ASSUME NEW shown, NEW later, rules' = rules, Rewrite(shown, counter', later)
    PROVE  \A a \in notice' : Wanted(a)'
  BY DEF Rewrite, Wanted, Notifies

LEMMA NoticeStep ==
    ASSUME LoginAssumption, Typed, PathsFit, NoticeWanted, Next
    PROVE  NoticeWanted'
  <1> SUFFICES ASSUME (\A a \in Addr : ~ Adding(a))', ~ stale'
               PROVE  \A a \in notice' : Wanted(a)'
    BY DEF NoticeWanted, Wanted
  \* Nothing is added now, so nothing was unless a ban was just added.
  <1>a. ASSUME NEW r \in Request, request[r].pc # "add",
               \A q \in Request \ {r} : request'[q] = request[q]
        PROVE  \A a \in Addr : ~ Adding(a)
    BY <1>a DEF Adding, InFlight
  <1>b. ASSUME request' = request
        PROVE  \A a \in Addr : ~ Adding(a)
    BY <1>b DEF Adding, InFlight
  <1>s. ASSUME \A a \in Addr : ~ Adding(a), ~ stale, rules' = rules,
               notice' \subseteq notice,
               \A a \in notice' : (a \in silenced' => a \in silenced)
                                    /\ counter'[a] \in Nat /\ counter[a] <= counter'[a]
        PROVE  \A a \in notice' : Wanted(a)'
    <2> SUFFICES ASSUME NEW a \in notice' PROVE Wanted(a)'
      OBVIOUS
    <2>1. Wanted(a)
      BY <1>s DEF NoticeWanted, Wanted
    <2>2. counter[a] \in Nat /\ EscalateAt \in Nat
      BY <1>s DEF Typed, LoginAssumption
    <2> QED
      BY <1>s, <2>1, <2>2 DEF Wanted
  <1>1. ASSUME NEW r \in Request, NEW a \in Addr, Fail(r, a)
        PROVE  \A b \in notice' : Wanted(b)'
    <2>1. /\ rules' = rules /\ notice' = notice /\ silenced' = silenced
          /\ counter' = counter /\ stale' = stale /\ request[r].pc = "idle"
      BY <1>1 DEF Fail, notices
    <2>2. \A b \in Addr : ~ Adding(b)
      BY <1>1, <1>a, <2>1, FailTyped
    <2> QED
      BY <1>s, <2>1, <2>2 DEF Typed
  <1>2. ASSUME NEW r \in Request, TrustedFails(r)
        PROVE  \A b \in notice' : Wanted(b)'
    <2> DEFINE a == request[r].of
               attempts == counter[a] + IF Limit(a) >= 1 THEN 1 ELSE 0
    <2>1. a \in Addr /\ counter \in [Addr -> Nat]
      BY DEF Typed, RequestRecord
    <2>2. Finish(r) /\ request[r].pc = "trusted" /\ rules' = rules /\ silenced' = silenced
      BY <1>2 DEF TrustedFails
    <2>3. counter' = [counter EXCEPT ![a] = attempts]
      BY <1>2 DEF TrustedFails
    <2>4. CASE rules.notify /\ Notifies(a, attempts)
      <3>1. notice' = {a}
        BY <1>2, <2>4 DEF TrustedFails, Show
      <3> SUFFICES ASSUME NEW b \in notice' PROVE Wanted(b)'
        OBVIOUS
      <3>2. b \in Addr /\ counter'[b] = attempts
        BY <2>1, <2>3, <3>1
      <3>3. rules.notify /\ Notifies(b, attempts)
        BY <2>4, <3>1
      <3> HIDE DEF attempts
      <3> QED
        BY <2>2, <3>2, <3>3 DEF Wanted, Notifies
    <2>5. CASE ~ (rules.notify /\ Notifies(a, attempts))
      <3>1. notice' = notice /\ stale' = stale
        BY <1>2, <2>5 DEF TrustedFails
      <3>2. \A b \in Addr : counter'[b] \in Nat /\ counter[b] <= counter'[b]
        BY <2>1, <2>3
      <3>3. \A b \in Addr : ~ Adding(b)
        BY <1>a, <2>2, FinishTyped
      <3> QED
        BY <1>s, <2>2, <3>1, <3>2, <3>3 DEF Typed
    <2> QED
      BY <2>4, <2>5
  <1>3. ASSUME NEW r \in Request, RegionalFails(r) \/ NativeFails(r)
        PROVE  \A b \in notice' : Wanted(b)'
    <2>1. PICK limit \in Nat, exempt \in SUBSET Internal :
             /\ Count(r, limit, exempt)
             /\ UNCHANGED <<rules, edits, banned, unbanning, escalated>>
      BY <1>3, CountedFailure
    <2>2. request[r].of \in Addr
      BY DEF Typed, RequestRecord
    <2>3. request'[r].pc # "add"
      BY <2>1, <2>2, CountTyped DEF Adding, InFlight
    <2>4. Rewrite({request[r].of}, counter', TRUE)
      BY <2>1, <2>3 DEF Count, Typed, RequestRecord
    <2> QED
      BY <2>1, <2>4, RewriteWanted
  <1>4. ASSUME NEW r \in Request, AddBan(r)
        PROVE  \A b \in notice' : Wanted(b)'
    <2>1. rules' = rules /\ Rewrite(notice, counter', TRUE)
      BY <1>4 DEF AddBan
    <2> QED
      BY <2>1, RewriteWanted
  <1>5. ASSUME NEW a \in Addr, Succeed(a) \/ Unban(a) \/ Unbanned(a)
        PROVE  \A b \in notice' : Wanted(b)'
    <2>0. /\ rules' = rules /\ request' = request /\ silenced' = silenced
      BY <1>5 DEF Succeed, Unban, Unbanned, notices
    <2>1. \A b \in Addr : ~ Adding(b)
      BY <1>b, <2>0
    <2>2. CASE Unban(a)
      BY <1>s, <2>0, <2>1, <2>2 DEF Unban, notices, Typed
    <2>3. CASE Reset(a) /\ notice' \subseteq notice \ {a} /\ ~ stale
      <3>1. \A b \in notice' : counter'[b] = counter[b] /\ counter[b] \in Nat
        BY <2>3, ResetTyped DEF Typed
      <3> QED
        BY <1>s, <2>0, <2>1, <2>3, <3>1
    <2>4. CASE Succeed(a)
      BY <2>3, <2>4 DEF Succeed
    <2>5. CASE Unbanned(a)
      <3>1. notice' = {} \/ ~ stale
        BY <2>5 DEF Unbanned, Dismiss, Typed
      <3> QED
        BY <2>3, <2>5, <3>1 DEF Unbanned, Dismiss
    <2> QED
      BY <1>5, <2>2, <2>4, <2>5
  <1>6. ASSUME NEW a \in UNION {s.allow : s \in Rules}, Silence(a) \/ Unsilence(a)
        PROVE  \A b \in notice' : Wanted(b)'
    <2>1. /\ rules' = rules /\ request' = request /\ counter' = counter
      BY <1>6 DEF Silence, Unsilence
    <2>2. notice' \subseteq notice /\ \A b \in notice' : b \in silenced' => b \in silenced
      BY <1>6 DEF Silence, Unsilence, Dismiss
    <2>3. notice' = {} \/ ~ stale
      BY <1>6 DEF Silence, Unsilence, Dismiss, Typed
    <2> QED
      BY <1>b, <1>s, <2>1, <2>2, <2>3 DEF Typed
  <1>7. ASSUME NEW s \in Rules, Edit(s)
        PROVE  \A b \in notice' : Wanted(b)'
    BY <1>7 DEF Edit
  <1>8. CASE SilenceAll
    BY <1>8 DEF SilenceAll, Dismiss, Typed
  <1>9. CASE RewriteAgain
    <2>1. rules' = rules /\ Rewrite(notice, counter', FALSE)
      BY <1>9 DEF RewriteAgain
    <2> QED
      BY <2>1, RewriteWanted
  <1> QED
    BY <1>1, <1>2, <1>3, <1>4, <1>5, <1>6, <1>7, <1>8, <1>9 DEF Next

-----------------------------------------------------------------------------
LEMMA StutterInv ==
    ASSUME Inv, UNCHANGED vars
    PROVE  Inv'
  <1> USE DEF vars, notices
  <1>1. Typed' /\ Bounds'
    BY DEF Inv, Typed, Bounds, Uncounted
  <1>2. \A a : (Adding(a))' = Adding(a) /\ (Protected(a))' = Protected(a)
                 /\ Regional(a)' = Regional(a) /\ Limit(a)' = Limit(a)
    BY DEF Adding, InFlight, Protected, Regional, Limit, Live
  <1>3. PathsFit'
    BY <1>2 DEF Inv, PathsFit, PathFits, Clean
  <1>4. BansFit'
    BY <1>2 DEF Inv, BansFit, BanFits, Clean
  <1>5. EscalatedOnce' /\ NoticeWanted'
    BY <1>2 DEF Inv, EscalatedOnce, NoticeWanted
  <1> QED
    BY <1>1, <1>3, <1>4, <1>5 DEF Inv

LEMMA InvAnswers ==
    ASSUME LoginAssumption, Inv
    PROVE  FailuresAnswered
  <1>1. ASSUME NEW a \in Addr \ unbanning, InFlight(a) = {}, Clean(a),
               ~ Protected(a), a \notin Internal
        PROVE  a \in banned <=> Limit(a) >= 1 /\ counter[a] >= Limit(a)
    <2>1. ~ Adding(a)
      BY <1>1 DEF Adding
    <2>2. BanFits(a)
      BY <1>1 DEF Inv, BansFit
    <2> QED
      BY <1>1, <2>1, <2>2 DEF BanFits
  <1>2. CountsMeetBans
    BY <1>1 DEF CountsMeetBans, Clean
  <1> QED
    BY <1>2 DEF FailuresAnswered, Inv

LEMMA InvStep ==
    ASSUME LoginAssumption, Inv, [Next]_vars
    PROVE  Inv'
  <1>1. CASE Next
    BY <1>1, TypedStep, BoundsStep, PathsStep, BansStep, EscalationStep, NoticeStep DEF Inv
  <1>2. CASE UNCHANGED vars
    BY <1>2, StutterInv
  <1> QED
    BY <1>1, <1>2

LEMMA InvTyped ==
    ASSUME LoginAssumption, Inv
    PROVE  TypeOK
  <1>1. \A a \in Addr : counter[a] <= MaxCount[a] /\ escalated[a] <= MaxCount[a] + 1
    <2> SUFFICES ASSUME NEW a \in Addr
                 PROVE  counter[a] <= MaxCount[a] /\ escalated[a] <= MaxCount[a] + 1
      OBVIOUS
    <2>1. Cardinality(Uncounted(a)) \in Nat
      BY UncountedFinite
    <2>2. counter[a] \in Nat /\ MaxCount[a] \in Nat
      BY DEF Inv, Typed, LoginAssumption
    <2> QED
      BY <2>1, <2>2 DEF Inv, Bounds
  <1>2. request \in [Request -> [pc : PCs, of : Addr, limit : Limits \cup {NoLimit}]]
    <2>1. \A r \in Request : /\ request[r] \in RequestRecord
                            /\ request[r].limit \in Limits \cup {NoLimit}
      BY DEF Inv, Typed, Bounds
    <2>2. \A r \in Request : request[r] \in [pc : PCs, of : Addr, limit : Limits \cup {NoLimit}]
      BY <2>1 DEF RequestRecord
    <2> QED
      BY <2>2 DEF Inv, Typed
  <1>3. Cardinality(notice) <= 1
    <2>1. CASE notice = {}
      BY <2>1, FS_EmptySet
    <2>2. CASE notice # {}
      <3>1. PICK a : notice = {a}
        BY <2>2 DEF Inv, Bounds
      <3> QED
        BY <3>1, FS_Singleton
    <2> QED
      BY <2>1, <2>2
  <1> QED
    BY <1>1, <1>2, <1>3 DEF Inv, Typed, Bounds, TypeOK, PCs, Marks

\* The values stay in their types, the bounds among them: no interleaving of
\* failures counts a source beyond its bound, and one notice stands at most
\* (http_patches.py, notifications.py).
THEOREM TypesHold ==
    ASSUME LoginAssumption
    PROVE  Spec => []TypeOK
  <1>1. Init => Inv
    BY InitInv
  <1>2. Inv /\ [Next]_vars => Inv'
    BY InvStep
  <1>3. Inv => TypeOK
    BY InvTyped
  <1> QED
    BY <1>1, <1>2, <1>3, PTL DEF Spec

\* Every failed login has the consequence its count and the settings call
\* for: of two requests that overlap, of a ban whose threshold or trust was
\* decided before the names of the source were looked up, and of a notice
\* that another failure or a silence changed meanwhile (http_patches.py,
\* notifications.py), for any number of sources and of requests.
THEOREM AnswersHold ==
    ASSUME LoginAssumption
    PROVE  Spec => []FailuresAnswered
  <1>1. Init => Inv
    BY InitInv
  <1>2. Inv /\ [Next]_vars => Inv'
    BY InvStep
  <1>3. Inv => FailuresAnswered
    BY InvAnswers
  <1> QED
    BY <1>1, <1>2, <1>3, PTL DEF Spec
=============================================================================
