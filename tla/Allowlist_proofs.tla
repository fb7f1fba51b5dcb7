-------------------------- MODULE Allowlist_proofs --------------------------
(***************************************************************************)
(* Proofs about Allowlist, for every set of networks, names, adapters and  *)
(* commands: no saved list locks the local networks out, the list that is  *)
(* enforced settles on the one that is saved, the proxy hears of it, and   *)
(* the trust an address has through a name expires in time.                *)
(***************************************************************************)
EXTENDS Allowlist, FiniteSetTheorems, SequenceTheorems, TLAPS

Who == Caller \cup {Timer}
CallType == [pc : {"new", "check", "refresh", "done"}, kind : Kinds,
             seen : (SUBSET (Net \cup Name)) \X (SUBSET Net),
             allow : SUBSET (Net \cup Name), block : SUBSET Net]
JobType == [busy : BOOLEAN, names : SUBSET Name, asked : SUBSET Name,
            elapsed : Nat, answers : [Name -> SUBSET Addr]]

\* TypeOK without the bounds.
Typed ==
    /\ stored \subseteq Net \cup Name /\ blocked \subseteq Net
    /\ dns \in [Name -> SUBSET Addr]
    /\ call \in [Caller -> CallType] /\ queue \in Seq(Who) /\ job \in JobType
    /\ raced \in BOOLEAN /\ cutOff \in BOOLEAN /\ owed \in BOOLEAN
    /\ late \in Nat

\* A call in its check changes one list, and set-up only adds to it.
CallFits(c) ==
    call[c].pc = "check" =>
        /\ call[c].kind = "block" => call[c].allow = call[c].seen[1]
        /\ call[c].kind # "block" => call[c].block = call[c].seen[2]
        /\ c = Setup => call[c].kind = "defaults" /\ call[c].seen[1] \subseteq call[c].allow

CallsFit == \A c \in Caller : CallFits(c)

\* What is saved passed the lockout check, and is enforced at once.
SavedIsSafe ==
    /\ raced \/ PathSafe(stored, blocked, deny)
    /\ Parsed(stored) \subseteq live

Settled ==
    /\ live = Parsed(stored) \cup UNION {cache[n] : n \in Hostnames(stored)}
    /\ \A n \in Name : cache[n] # {} => n \in stored

\* The last refresh in turn resolves the saved names, unless it was cut off.
LastRefresh ==
    /\ job.busy => queue # <<>>
    /\ queue = <<>> /\ ~ cutOff => Settled
    /\ job.busy /\ Len(queue) = 1 /\ ~ cutOff => job.names = Hostnames(stored)

Inv == Typed /\ CallsFit /\ SavedIsSafe /\ LastRefresh /\ EdgeHearsOfChanges

-----------------------------------------------------------------------------
(* The bounds, and the time a resolved address may still be trusted.       *)

\* The bounds that TypeOK has and Typed has not.
Bounded ==
    /\ deny \in BOOLEAN /\ live \subseteq Net \cup Addr
    /\ cache \in [Name -> SUBSET Addr] /\ age \in [Name -> 0 .. Stale]
    /\ job.elapsed \in 0 .. Timeout /\ due \in 0 .. Interval

\* Blocked networks are entries that a command named.
BlockedAreEntries ==
    /\ blocked \subseteq Entries \cap Net
    /\ \A c \in Caller : call[c].pc = "check" /\ call[c].kind = "block" =>
                          call[c].block \subseteq Entries \cap Net

\* A command is cancelled once.
CutCalls == {c \in Cancellable : call[c].pc = "done"}
CutsCounted == late <= Cardinality(CutCalls)

\* Only a resolved address is live without a saved network.
LiveIsCached == live \cap Addr \subseteq UNION {cache[n] : n \in Name}

Waits(who) == \E i \in DOMAIN queue : queue[i] = who
Limit(cuts) == Grace + Interval + (1 + cuts) * Timeout
TimeLeft == IF job.busy THEN Timeout - job.elapsed ELSE Timeout

\* What is cached was kept by a refresh within the grace.  Until the timer
\* fires it ages as fast as the timer runs down; from then on the timer waits
\* at the lock, and somebody's refresh ends within the timeout, or within
\* another one for each holder that is cut off.
AgesInTime(n) ==
    cache[n] # {} =>
        /\ Waits(Timer) \/ age[n] + due <= Grace + Interval
        /\ queue = <<>> \/ age[n] + TimeLeft <= Limit(late)

AgeInTime == Started => \A n \in Name : AgesInTime(n)

TimeInv == Bounded /\ BlockedAreEntries /\ CutsCounted /\ LiveIsCached /\ AgeInTime

-----------------------------------------------------------------------------
(* The lockout check.                                                      *)

\* It stays passed when a list that allows grows and one that blocks shrinks.
LEMMA SafeMonotone ==
    ASSUME NEW allow, NEW more, NEW block, NEW less, NEW denied,
           allow \subseteq more, less \subseteq block, PathSafe(allow, block, denied)
    PROVE  PathSafe(more, less, denied)
  <1>1. \A d : Kept(allow, d) => Kept(more, d)
    BY DEF Kept, Parsed
  <1>2. \A d : Overlapping(less, d) => Overlapping(block, d)
    BY DEF Overlapping
  <1> QED
    BY <1>1, <1>2 DEF PathSafe

\* A detected subnet that is kept is accepted whole.
LEMMA KeptIsAccepted ==
    ASSUME Parsed(stored) \subseteq live, NEW d, Kept(stored, d)
    PROVE  \A a \in Covers[d] : ~ Refused(a)
  <1>1. PICK n \in Parsed(stored) : Covers[d] \subseteq Covers[n]
    BY DEF Kept
  <1>2. n \in live \cap Net
    BY DEF Parsed
  <1>3. Covers[n] \subseteq Allowed(live)
    BY <1>2 DEF Allowed
  <1> QED
    BY <1>1, <1>3 DEF Refused, Trusted

LEMMA SafeKeepsPath ==
    ASSUME SavedIsSafe
    PROVE  LocalPathKept
  BY KeptIsAccepted DEF SavedIsSafe, LocalPathKept, PathSafe

-----------------------------------------------------------------------------
LEMMA ResolvingTyped ==
    ASSUME NEW list
    PROVE  /\ Resolving(list) \in JobType
           /\ Resolving(list).names = Hostnames(list) /\ Resolving(list).busy
  BY DEF Resolving, JobType, Hostnames

LEMMA NoJobTyped == NoJob \in JobType /\ ~ NoJob.busy
  BY DEF NoJob, JobType

LEMMA NoCallTyped == NoCall \in CallType
  BY DEF NoCall, CallType, Kinds

\* A refresh joins the queue, and is the holder if it is alone there.
LEMMA Requested ==
    ASSUME Typed, NEW who \in Who, NEW list, RequestRefresh(who, list)
    PROVE  /\ queue' \in Seq(Who) /\ job' \in JobType /\ queue' # <<>>
           /\ queue = <<>> => job'.names = Hostnames(list)
           /\ Len(queue') = 1 => queue = <<>>
  <1>1. /\ queue' \in Seq(Who) /\ Len(queue') = Len(queue) + 1
    BY AppendProperties DEF Typed, RequestRefresh
  <1>2. /\ job' \in JobType
        /\ queue = <<>> => job'.names = Hostnames(list)
    BY ResolvingTyped DEF Typed, RequestRefresh
  <1> DEFINE n == Len(queue)
             m == Len(queue')
  <1>3. n \in Nat /\ m = n + 1 /\ (n = 0 => queue = <<>>) /\ (queue' = <<>> => m = 0)
    BY <1>1, LenProperties, EmptySeq DEF Typed
  <1> HIDE DEF n, m
  <1>4. (m = 1 => queue = <<>>) /\ queue' # <<>>
    BY <1>3
  <1> QED
    BY <1>1, <1>2, <1>4 DEF m

LEMMA InitInv ==
    ASSUME Init
    PROVE  Inv
  <1>1. Typed
    <2>1. /\ stored \subseteq Net \cup Name /\ blocked \subseteq Net
          /\ dns \in [Name -> SUBSET Addr]
      BY AllowlistAssumption DEF Init
    <2>2. call \in [Caller -> CallType]
      BY NoCallTyped DEF Init
    <2>3. queue \in Seq(Who) /\ job \in JobType
      BY EmptySeq, NoJobTyped DEF Init
    <2> QED
      BY <2>1, <2>2, <2>3 DEF Init, Typed
  <1>2. CallsFit
    BY DEF Init, CallsFit, CallFits, NoCall
  <1>3. SavedIsSafe /\ LastRefresh
    BY NoJobTyped DEF Init, SavedIsSafe, LastRefresh, Settled, Hostnames
  <1>4. EdgeHearsOfChanges
    BY DEF Init, EdgeHearsOfChanges, Started, Caller, NoCall
  <1> QED
    BY <1>1, <1>2, <1>3, <1>4 DEF Inv

-----------------------------------------------------------------------------
(* Calls that begin, wait, give up or end without an edit of the allowlist. *)

LEMMA DoneCall ==
    ASSUME Typed, NEW c \in Caller, Done(c)
    PROVE  /\ call' \in [Caller -> CallType] /\ call'[c].pc = "done"
           /\ \A k \in Caller \ {c} : call'[k] = call[k]
  BY NoCallTyped DEF Typed, Done, NoCall, CallType

LEMMA WaitingCall ==
    ASSUME Typed, NEW c \in Caller, NEW kind \in Kinds, NEW allow \in SUBSET (Net \cup Name),
           NEW block \in SUBSET Net, Wait(c, kind, allow, block)
    PROVE  /\ call' \in [Caller -> CallType]
           /\ call'[c].pc = "check" /\ call'[c].kind = kind
           /\ call'[c].seen[1] = stored /\ call'[c].seen[2] = blocked
           /\ call'[c].allow = allow /\ call'[c].block = block
           /\ \A k \in Caller \ {c} : call'[k] = call[k]
  <1> DEFINE new == [pc |-> "check", kind |-> kind, seen |-> <<stored, blocked>>,
                     allow |-> allow, block |-> block]
  <1>1. new \in CallType
    BY DEF Typed, CallType
  <1>2. call' = [call EXCEPT ![c] = new]
    BY DEF Wait
  <1>3. /\ new.pc = "check" /\ new.kind = kind /\ new.allow = allow /\ new.block = block
        /\ new.seen[1] = stored /\ new.seen[2] = blocked
    OBVIOUS
  <1> HIDE DEF new
  <1> QED
    BY <1>1, <1>2, <1>3 DEF Typed

LEMMA CallerIs == /\ Setup \in Caller /\ Command \subseteq Caller
                  /\ \A c \in Command : c # Setup
                  /\ \A c \in Caller : c \in Command \/ c = Setup
  BY AllowlistAssumption DEF Caller

\* What the proxy is owed depends on the calls that wait for their refresh.
LEMMA HearsStill ==
    ASSUME Typed, EdgeHearsOfChanges, NEW c \in Caller, call[c].pc # "refresh",
           \A k \in Caller \ {c} : call'[k] = call[k],
           owed' => owed, late' = late, call'[Setup].pc = "done" => Started
    PROVE  EdgeHearsOfChanges'
  BY CallerIs DEF EdgeHearsOfChanges, Started

LEMMA CallOnly ==
    ASSUME Inv,
           \/ SetupReads
           \/ \E c \in Command : CheckFails(c)
           \/ \E c \in Command, e \in Entries :
                 AddAllowlist(c, e) \/ RemoveAllowlist(c, e) \/ AddBlocked(c, e)
    PROVE  Inv'
  <1>0. Typed /\ CallsFit /\ SavedIsSafe /\ LastRefresh /\ EdgeHearsOfChanges
    BY DEF Inv
  <1>1. UNCHANGED <<stored, blocked, deny, live, cache, dns, queue, job, raced, cutOff,
                    late, owed>>
    BY DEF SetupReads, CheckFails, AddAllowlist, RemoveAllowlist, AddBlocked
  <1>2. \E c \in Caller :
           /\ call[c].pc # "refresh"
           /\ \/ Done(c) /\ c # Setup
              \/ \E kind \in Kinds, allow \in SUBSET (Net \cup Name), block \in SUBSET Net :
                    /\ Wait(c, kind, allow, block)
                    /\ kind = "block" => allow = stored
                    /\ kind # "block" => block = blocked
                    /\ c = Setup => kind = "defaults" /\ stored \subseteq allow
    <2> USE CallerIs
    <2>1. ASSUME SetupReads
          PROVE  /\ call[Setup].pc # "refresh" /\ Wait(Setup, "defaults", Defaults, blocked)
                 /\ "defaults" \in Kinds /\ stored \subseteq Defaults
                 /\ Defaults \in SUBSET (Net \cup Name) /\ blocked \in SUBSET Net
      <3>1. InternalDefaults \subseteq Net
        BY AllowlistAssumption DEF InternalDefaults
      <3> QED
        BY <1>0, <2>1, <3>1 DEF SetupReads, Typed, Defaults, Kinds
    <2>2. ASSUME NEW c \in Command, CheckFails(c)
          PROVE  call[c].pc # "refresh" /\ Done(c) /\ c \in Caller /\ c # Setup
      BY <2>2 DEF CheckFails
    <2>3. ASSUME NEW c \in Command, NEW e \in Entries, AddAllowlist(c, e)
          PROVE  /\ call[c].pc # "refresh" /\ c \in Caller /\ c # Setup
                 /\ Done(c) \/ Wait(c, "allow", stored \cup {e}, blocked)
                 /\ "allow" \in Kinds /\ stored \cup {e} \in SUBSET (Net \cup Name)
                 /\ blocked \in SUBSET Net
      BY <1>0, <2>3, AllowlistAssumption DEF AddAllowlist, Typed, Kinds
    <2>4. ASSUME NEW c \in Command, NEW e \in Entries, RemoveAllowlist(c, e)
          PROVE  /\ call[c].pc # "refresh" /\ c \in Caller /\ c # Setup
                 /\ Done(c) \/ Wait(c, "disallow", stored \ {e}, blocked)
                 /\ "disallow" \in Kinds /\ stored \ {e} \in SUBSET (Net \cup Name)
                 /\ blocked \in SUBSET Net
      BY <1>0, <2>4 DEF RemoveAllowlist, Typed, Kinds
    <2>5. ASSUME NEW c \in Command, NEW e \in Entries, AddBlocked(c, e)
          PROVE  /\ call[c].pc # "refresh" /\ c \in Caller /\ c # Setup
                 /\ Done(c) \/ Wait(c, "block", stored, blocked \cup {e})
                 /\ "block" \in Kinds /\ stored \in SUBSET (Net \cup Name)
                 /\ blocked \cup {e} \in SUBSET Net
      BY <1>0, <2>5 DEF AddBlocked, Typed, Kinds
    <2> QED
      BY <2>1, <2>2, <2>3, <2>4, <2>5
  <1>3. PICK c \in Caller :
           /\ call[c].pc # "refresh"
           /\ \/ Done(c) /\ c # Setup
              \/ \E kind \in Kinds, allow \in SUBSET (Net \cup Name), block \in SUBSET Net :
                    /\ Wait(c, kind, allow, block)
                    /\ kind = "block" => allow = stored
                    /\ kind # "block" => block = blocked
                    /\ c = Setup => kind = "defaults" /\ stored \subseteq allow
    BY <1>2
  <1>4. /\ call' \in [Caller -> CallType] /\ CallFits(c)'
        /\ \A k \in Caller \ {c} : call'[k] = call[k]
        /\ c = Setup => call'[c].pc = "check"
    <2>1. CASE Done(c) /\ c # Setup
      BY <1>0, <2>1, DoneCall DEF CallFits
    <2>2. CASE ~ (Done(c) /\ c # Setup)
      <3>1. PICK kind \in Kinds, allow \in SUBSET (Net \cup Name), block \in SUBSET Net :
               /\ Wait(c, kind, allow, block)
               /\ kind = "block" => allow = stored
               /\ kind # "block" => block = blocked
               /\ c = Setup => kind = "defaults" /\ stored \subseteq allow
        BY <1>3, <2>2
      <3>2. /\ call' \in [Caller -> CallType]
            /\ call'[c].pc = "check" /\ call'[c].kind = kind
            /\ call'[c].seen[1] = stored /\ call'[c].seen[2] = blocked
            /\ call'[c].allow = allow /\ call'[c].block = block
            /\ \A k \in Caller \ {c} : call'[k] = call[k]
        BY <1>0, <3>1, WaitingCall
      <3> QED
        BY <3>1, <3>2 DEF CallFits
    <2> QED
      BY <2>1, <2>2
  <1>5. Typed'
    BY <1>0, <1>1, <1>4 DEF Typed
  <1>6. CallsFit'
    BY <1>0, <1>4 DEF CallsFit, CallFits
  <1>7. SavedIsSafe' /\ LastRefresh'
    BY <1>0, <1>1 DEF SavedIsSafe, LastRefresh, Settled, PathSafe, Detected, Overlapping, Kept
  <1>8. EdgeHearsOfChanges'
    <2>1. call'[Setup].pc = "done" => Started
      BY <1>4, CallerIs DEF Started
    <2> QED
      BY <1>0, <1>1, <1>3, <1>4, <2>1, HearsStill
  <1> QED
    BY <1>5, <1>6, <1>7, <1>8 DEF Inv

-----------------------------------------------------------------------------
(* Edits.                                                                  *)

LEMMA BlockedEdits ==
    ASSUME Inv,
           \/ \E c \in Command : SaveBlocked(c)
           \/ \E c \in Command, e \in Entries : RemoveBlocked(c, e)
    PROVE  Inv'
  <1>0. Typed /\ CallsFit /\ SavedIsSafe /\ LastRefresh /\ EdgeHearsOfChanges
    BY DEF Inv
  <1>1. /\ UNCHANGED <<stored, deny, live, cache, dns, queue, job, cutOff, late>>
        /\ owed' = ~ Started
    BY DEF SaveBlocked, RemoveBlocked
  <1>2. PICK c \in Command : Done(c)
    BY DEF SaveBlocked, RemoveBlocked
  <1>3. /\ call' \in [Caller -> CallType] /\ call'[c].pc = "done"
        /\ \A k \in Caller \ {c} : call'[k] = call[k]
    BY <1>0, <1>2, CallerIs, DoneCall
  <1>4. blocked' \subseteq Net /\ raced' \in BOOLEAN
    BY <1>0, CallerIs DEF SaveBlocked, RemoveBlocked, Typed, CallType
  <1>5. Typed'
    BY <1>0, <1>1, <1>3, <1>4 DEF Typed
  <1>6. CallsFit'
    BY <1>0, <1>3 DEF CallsFit, CallFits
  <1>7. raced' \/ PathSafe(stored, blocked', deny)
    <2>1. ASSUME NEW d \in Command, SaveBlocked(d)
          PROVE  raced' \/ PathSafe(stored, blocked', deny)
      <3> SUFFICES ASSUME ~ raced' PROVE PathSafe(stored, blocked', deny)
        OBVIOUS
      <3>1. /\ call[d].pc = "check" /\ call[d].kind = "block" /\ blocked' = call[d].block
            /\ call[d].seen = <<stored, blocked>>
            /\ PathSafe(call[d].allow, call[d].block, deny)
        BY <2>1 DEF SaveBlocked, Racing, Checked
      <3>2. call[d].allow = stored
        BY <1>0, <3>1, CallerIs DEF CallsFit, CallFits
      <3> QED
        BY <3>1, <3>2
    <2>2. ASSUME NEW d \in Command, NEW e \in Entries, RemoveBlocked(d, e)
          PROVE  raced' \/ PathSafe(stored, blocked', deny)
      BY <1>0, <2>2, SafeMonotone DEF RemoveBlocked, SavedIsSafe
    <2> QED
      BY <2>1, <2>2
  <1>8. SavedIsSafe'
    BY <1>0, <1>1, <1>7 DEF SavedIsSafe, PathSafe, Detected, Overlapping, Kept
  <1>9. LastRefresh'
    BY <1>0, <1>1 DEF LastRefresh, Settled
  <1>10. EdgeHearsOfChanges'
    BY <1>1, <1>3, CallerIs DEF EdgeHearsOfChanges, Started
  <1> QED
    BY <1>5, <1>6, <1>8, <1>9, <1>10 DEF Inv

LEMMA AllowEdits ==
    ASSUME Inv, SetupWrites \/ \E c \in Command : SaveAllowlist(c)
    PROVE  Inv'
  <1>0. Typed /\ CallsFit /\ SavedIsSafe /\ LastRefresh /\ EdgeHearsOfChanges
    BY DEF Inv
  <1>1. PICK c \in Caller :
           /\ call[c].pc = "check" /\ WriteAllow(c, call[c].allow)
           /\ \/ c = Setup
              \/ c \in Command /\ call[c].kind # "block" /\ Checked(c)
    BY CallerIs DEF SetupWrites, SaveAllowlist
  <1>2. /\ stored' = call[c].allow /\ live' = Parsed(stored') /\ RequestRefresh(c, stored')
        /\ call' = [call EXCEPT ![c] = [NoCall EXCEPT !.pc = "refresh"]]
        /\ raced' = (raced \/ Racing(c)) /\ owed' = (owed \/ live' # live)
        /\ UNCHANGED <<blocked, deny, cache, dns, cutOff, late>>
    BY <1>1 DEF WriteAllow
  <1>3. /\ call' \in [Caller -> CallType] /\ call'[c].pc = "refresh"
        /\ \A k \in Caller \ {c} : call'[k] = call[k]
    BY <1>0, <1>2 DEF Typed, NoCall, CallType, Kinds
  <1>4. /\ queue' \in Seq(Who) /\ job' \in JobType /\ queue' # <<>>
        /\ queue = <<>> => job'.names = Hostnames(stored')
        /\ Len(queue') = 1 => queue = <<>>
    <2>1. c \in Who
      BY DEF Who
    <2> QED
      BY <1>0, <1>2, <2>1, Requested
  <1>5. Typed'
    BY <1>0, <1>2, <1>3, <1>4 DEF Typed, CallType
  <1>6. CallsFit'
    BY <1>0, <1>3 DEF CallsFit, CallFits
  <1>7. raced' \/ PathSafe(stored', blocked, deny)
    <2> SUFFICES ASSUME ~ raced' PROVE PathSafe(stored', blocked, deny)
      OBVIOUS
    <2>0. ~ raced /\ call[c].seen = <<stored, blocked>>
      BY <1>2 DEF Racing
    <2>1. ~ raced /\ call[c].seen[1] = stored /\ call[c].seen[2] = blocked
      BY <2>0
    <2>2. CASE c = Setup
      <3>1. stored \subseteq stored'
        BY <1>0, <1>1, <1>2, <2>1, <2>2 DEF CallsFit, CallFits
      <3> QED
        BY <1>0, <2>1, <3>1, SafeMonotone DEF SavedIsSafe
    <2>3. CASE c # Setup
      <3>1. call[c].block = blocked /\ PathSafe(call[c].allow, call[c].block, deny)
        BY <1>0, <1>1, <2>1, <2>3 DEF CallsFit, CallFits, Checked
      <3> QED
        BY <1>2, <3>1
    <2> QED
      BY <2>2, <2>3
  <1>8. SavedIsSafe'
    <2>1. PathSafe(stored, blocked, deny)' <=> PathSafe(stored', blocked, deny)
      BY <1>2 DEF PathSafe, Detected, Overlapping, Kept
    <2> QED
      BY <1>2, <1>7, <2>1 DEF SavedIsSafe
  <1>9. LastRefresh'
    BY <1>4 DEF LastRefresh, Hostnames
  <1>10. EdgeHearsOfChanges'
    <2>1. CASE c = Setup
      BY <1>3, <2>1 DEF EdgeHearsOfChanges, Started
    <2>2. CASE c # Setup
      BY <1>3, <2>2, CallerIs DEF EdgeHearsOfChanges
    <2> QED
      BY <2>1, <2>2
  <1> QED
    BY <1>5, <1>6, <1>8, <1>9, <1>10 DEF Inv

LEMMA SkipsDefaults ==
    ASSUME Inv, SetupSkips
    PROVE  Inv'
  <1>0. Typed /\ CallsFit /\ SavedIsSafe /\ LastRefresh /\ EdgeHearsOfChanges
    BY DEF Inv
  <1>1. /\ call' = [call EXCEPT ![Setup].pc = "refresh"] /\ RequestRefresh(Setup, stored)
        /\ UNCHANGED <<stored, blocked, deny, live, cache, dns, raced, cutOff, late, owed>>
    BY DEF SetupSkips
  <1>2. /\ call' \in [Caller -> CallType] /\ call'[Setup].pc = "refresh"
        /\ \A k \in Caller \ {Setup} : call'[k] = call[k]
    <2>1. [call[Setup] EXCEPT !.pc = "refresh"] \in CallType
      BY <1>0, CallerIs DEF Typed, CallType
    <2>2. [call[Setup] EXCEPT !.pc = "refresh"].pc = "refresh"
      BY <1>0, CallerIs DEF Typed, CallType
    <2>3. call' = [call EXCEPT ![Setup] = [call[Setup] EXCEPT !.pc = "refresh"]]
      BY <1>1
    <2> QED
      BY <1>0, <2>1, <2>2, <2>3, CallerIs DEF Typed
  <1>3. /\ queue' \in Seq(Who) /\ job' \in JobType /\ queue' # <<>>
        /\ queue = <<>> => job'.names = Hostnames(stored)
        /\ Len(queue') = 1 => queue = <<>>
    <2>1. Setup \in Who
      BY CallerIs DEF Who
    <2> QED
      BY <1>0, <1>1, <2>1, Requested
  <1>4. Typed'
    BY <1>0, <1>1, <1>2, <1>3 DEF Typed
  <1>5. CallsFit'
    BY <1>0, <1>2 DEF CallsFit, CallFits
  <1>6. SavedIsSafe'
    BY <1>0, <1>1 DEF SavedIsSafe, PathSafe, Detected, Overlapping, Kept
  <1>7. LastRefresh'
    BY <1>1, <1>3 DEF LastRefresh, Hostnames
  <1>8. EdgeHearsOfChanges'
    BY <1>2 DEF EdgeHearsOfChanges, Started
  <1> QED
    BY <1>4, <1>5, <1>6, <1>7, <1>8 DEF Inv

-----------------------------------------------------------------------------
(* The refresh in turn.                                                    *)

\* The lists, the calls and what the proxy is owed stay as they are.
LEMMA ListsStay ==
    ASSUME Inv, UNCHANGED <<stored, blocked, deny, live, cache, call, raced, cutOff, late, owed>>,
           dns' \in [Name -> SUBSET Addr], queue' \in Seq(Who), job' \in JobType,
           job'.busy => queue' # <<>>,
           queue' = <<>> /\ ~ cutOff => queue = <<>>,
           job'.busy /\ Len(queue') = 1 /\ ~ cutOff => job'.names = Hostnames(stored)
    PROVE  Inv'
  <1>1. Typed'
    BY DEF Inv, Typed
  <1>2. CallsFit' /\ EdgeHearsOfChanges'
    BY DEF Inv, CallsFit, CallFits, EdgeHearsOfChanges, Started
  <1>3. SavedIsSafe'
    BY DEF Inv, SavedIsSafe, PathSafe, Detected, Overlapping, Kept
  <1>4. LastRefresh'
    BY DEF Inv, LastRefresh, Settled, Hostnames
  <1> QED
    BY <1>1, <1>2, <1>3, <1>4 DEF Inv

LEMMA QuietSteps ==
    ASSUME Inv,
           \/ NextHolder \/ ResolveTimeout \/ TimerFires \/ Tick
           \/ \E n \in Name : Resolve(n)
           \/ \E n \in Name, answer \in Answers : DnsChanges(n, answer)
    PROVE  Inv'
  <1>0. Typed /\ LastRefresh
    BY DEF Inv
  <1>t. queue \in Seq(Who) /\ job \in JobType /\ dns \in [Name -> SUBSET Addr]
    BY <1>0 DEF Typed
  <1>1. CASE NextHolder
    BY <1>1, <1>t, ListsStay, ResolvingTyped DEF NextHolder
  <1>2. CASE ResolveTimeout
    <2>1. job' \in JobType /\ job'.busy = job.busy /\ job'.names = job.names
      BY <1>2, <1>t DEF ResolveTimeout, JobType
    <2> QED
      BY <1>0, <1>2, <1>t, <2>1, ListsStay DEF ResolveTimeout, LastRefresh
  <1>3. ASSUME NEW n \in Name, Resolve(n) PROVE Inv'
    <2>1. job' \in JobType /\ job'.busy = job.busy /\ job'.names = job.names
      BY <1>3, <1>t DEF Resolve, JobType
    <2> QED
      BY <1>0, <1>3, <1>t, <2>1, ListsStay DEF Resolve, LastRefresh
  <1>4. CASE TimerFires
    <2>1. CASE UNCHANGED <<queue, job>>
      BY <1>0, <1>4, <1>t, <2>1, ListsStay DEF TimerFires, LastRefresh
    <2>2. CASE RequestRefresh(Timer, stored)
      <3>1. /\ queue' \in Seq(Who) /\ job' \in JobType /\ queue' # <<>>
            /\ queue = <<>> => job'.names = Hostnames(stored)
            /\ Len(queue') = 1 => queue = <<>>
        BY <1>0, <2>2, Requested DEF Who
      <3> QED
        BY <1>4, <1>t, <3>1, ListsStay DEF TimerFires
    <2> QED
      BY <1>4, <2>1, <2>2 DEF TimerFires
  <1>5. CASE Tick
    <2>1. job' \in JobType /\ job'.busy = job.busy /\ job'.names = job.names
      BY <1>5, <1>t DEF Tick, JobType
    <2> QED
      BY <1>0, <1>5, <1>t, <2>1, ListsStay DEF Tick, LastRefresh
  <1>6. ASSUME NEW n \in Name, NEW answer \in Answers, DnsChanges(n, answer) PROVE Inv'
    <2>1. dns' \in [Name -> SUBSET Addr]
      BY <1>6, <1>t, AllowlistAssumption DEF DnsChanges
    <2> QED
      BY <1>0, <1>6, <1>t, <2>1, ListsStay DEF DnsChanges, LastRefresh
  <1> QED
    BY <1>1, <1>2, <1>3, <1>4, <1>5, <1>6

-----------------------------------------------------------------------------
(* The end of a refresh, and a command that is cancelled.                  *)

LEMMA CalledBack ==
    ASSUME Typed, NEW c \in Caller, call' = [call EXCEPT ![c].pc = "done"]
    PROVE  /\ call' \in [Caller -> CallType] /\ call'[c].pc = "done"
           /\ \A k \in Caller \ {c} : call'[k] = call[k]
  <1> DEFINE new == [call[c] EXCEPT !.pc = "done"]
  <1>1. new \in CallType /\ new.pc = "done"
    BY DEF Typed, CallType
  <1>2. call' = [call EXCEPT ![c] = new]
    OBVIOUS
  <1> HIDE DEF new
  <1> QED
    BY <1>1, <1>2 DEF Typed

LEMMA Ends ==
    ASSUME Inv, Apply
    PROVE  Inv'
  <1>0. Typed /\ CallsFit /\ SavedIsSafe /\ LastRefresh /\ EdgeHearsOfChanges
    BY DEF Inv
  <1> DEFINE who == Head(queue)
  <1>1. /\ job.busy /\ queue' = Tail(queue) /\ job' = NoJob
        /\ cache' = [n \in Name |-> CacheAfter(n)]
        /\ live' = Parsed(stored) \cup UNION {cache'[n] : n \in job.names}
        /\ call' = IF who = Timer THEN call ELSE [call EXCEPT ![who].pc = "done"]
        /\ cutOff' = (cutOff /\ job.names # Hostnames(stored))
        /\ owed' = (~ Tells(who) /\ (owed \/ live' # live))
        /\ UNCHANGED <<stored, blocked, deny, dns, raced, late>>
    BY DEF Apply, ApplyNames
  <1>2. queue # <<>> /\ queue \in Seq(Who)
    BY <1>0, <1>1 DEF LastRefresh, Typed
  <1>3. who \in Who /\ Tail(queue) \in Seq(Who) /\ Len(Tail(queue)) = Len(queue) - 1
    BY <1>2, HeadTailProperties
  <1> HIDE DEF who
  <1>4. \/ who = Timer /\ call' = call
        \/ /\ who \in Caller /\ call' \in [Caller -> CallType] /\ call'[who].pc = "done"
           /\ \A k \in Caller \ {who} : call'[k] = call[k]
    <2>1. CASE who = Timer
      BY <1>1, <2>1
    <2>2. CASE who # Timer
      <3>1. who \in Caller /\ call' = [call EXCEPT ![who].pc = "done"]
        BY <1>1, <1>3, <2>2 DEF Who
      <3> QED
        BY <1>0, <3>1, CalledBack
    <2> QED
      BY <2>1, <2>2
  <1>5. Typed'
    <2>1. cutOff' \in BOOLEAN /\ owed' \in BOOLEAN
      BY <1>1
    <2> QED
      BY <1>0, <1>1, <1>3, <1>4, <2>1, NoJobTyped DEF Typed
  <1>6. CallsFit'
    BY <1>0, <1>4 DEF CallsFit, CallFits
  <1>7. SavedIsSafe'
    <2>1. Parsed(stored)' \subseteq live'
      BY <1>1 DEF Parsed
    <2>2. PathSafe(stored, blocked, deny)' <=> PathSafe(stored, blocked, deny)
      BY <1>1 DEF PathSafe, Detected, Overlapping, Kept
    <2> QED
      BY <1>0, <1>1, <2>1, <2>2 DEF SavedIsSafe
  <1>8. LastRefresh'
    <2>1. ASSUME queue' = <<>>, ~ cutOff'
          PROVE  Settled'
      <3>1. Len(queue) = 1
        <4>1. Len(queue') = 0
          BY <2>1, EmptySeq
        <4> QED
          BY <1>1, <1>2, <1>3, <4>1, LenProperties
      <3>2. job.names = Hostnames(stored)
        BY <1>0, <1>1, <2>1, <3>1 DEF LastRefresh
      <3>3. \A n \in Name \ job.names : cache'[n] = {}
        BY <1>1 DEF CacheAfter
      <3>4. Hostnames(stored) = stored \cap Name /\ stored' = stored
        BY <1>1 DEF Hostnames
      <3>5. live' = Parsed(stored) \cup UNION {cache'[n] : n \in Hostnames(stored)}
        BY <1>1, <3>2
      <3> QED
        BY <3>2, <3>3, <3>4, <3>5 DEF Settled, Parsed, Hostnames
    <2> QED
      BY <1>1, <2>1, NoJobTyped DEF LastRefresh
  <1>9. EdgeHearsOfChanges'
    <2> SUFFICES ASSUME Started', owed', late = 0
                 PROVE  \E c \in Command : call'[c].pc = "refresh"
      BY <1>1 DEF EdgeHearsOfChanges
    <2>1. who # Setup /\ ~ Tells(who)
      BY <1>1 DEF Tells
    <2>2. Started
      BY <1>4, <2>1, CallerIs DEF Started
    <2>3. who = Timer /\ live' = live
      BY <2>1, <2>2 DEF Tells
    <2>4. owed /\ call' = call
      BY <1>1, <1>4, <2>3, AllowlistAssumption
    <2> QED
      BY <1>0, <2>2, <2>4 DEF EdgeHearsOfChanges
  <1> QED
    BY <1>5, <1>6, <1>7, <1>8, <1>9 DEF Inv

\* The queue without one of its waiters.
LEMMA WithoutWaiter ==
    ASSUME Typed, NEW i \in DOMAIN queue
    PROVE  /\ Without(i) \in Seq(Who)
           /\ Without(i) = <<>> => queue[i] = Head(queue)
  <1>1. queue \in Seq(Who) /\ Len(queue) \in Nat /\ DOMAIN queue = 1 .. Len(queue)
    BY LenProperties DEF Typed
  <1>2. Len(queue) >= 1 /\ Len(queue) - 1 \in Nat /\ i \in 1 .. Len(queue)
    BY <1>1
  <1>3. \A k \in 1 .. Len(queue) : queue[k] \in Who
    BY <1>1, ElementOfSeq
  <1>4. \A k \in 1 .. Len(queue) - 1 : k \in 1 .. Len(queue) /\ k + 1 \in 1 .. Len(queue)
    BY <1>1
  <1>5. Without(i) \in [1 .. Len(queue) - 1 -> Who]
    BY <1>3, <1>4 DEF Without
  <1>6. Without(i) \in Seq(Who)
    BY <1>2, <1>5, SeqDef
  <1>7. ASSUME Without(i) = <<>> PROVE queue[i] = Head(queue)
    <2>1. 1 .. Len(queue) - 1 = {}
      <3>1. DOMAIN Without(i) = 1 .. Len(queue) - 1
        BY DEF Without
      <3> QED
        BY <1>7, <3>1
    <2>2. Len(queue) = 1
      <3> DEFINE n == Len(queue)
      <3>1. n \in Nat /\ n >= 1 /\ 1 \notin 1 .. n - 1
        BY <1>1, <1>2, <2>1
      <3> HIDE DEF n
      <3>2. n = 1
        BY <3>1
      <3> QED
        BY <3>2 DEF n
    <2>3. i = 1
      BY <1>2, <2>2
    <2> QED
      BY <1>1, <2>2, <2>3
  <1> QED
    BY <1>6, <1>7

LEMMA CancelInv ==
    ASSUME Inv, NEW c \in Cancellable, Cancel(c)
    PROVE  Inv'
  <1>0. Typed /\ CallsFit /\ SavedIsSafe /\ LastRefresh /\ EdgeHearsOfChanges
    BY DEF Inv
  <1>c. c \in Command /\ c \in Caller /\ c # Setup
    BY CallerIs, AllowlistAssumption
  <1>1. /\ Done(c)
        /\ UNCHANGED <<stored, blocked, deny, live, cache, dns, raced, owed>>
    BY DEF Cancel
  <1>2. /\ call' \in [Caller -> CallType] /\ call'[c].pc = "done"
        /\ \A k \in Caller \ {c} : call'[k] = call[k]
    BY <1>0, <1>1, <1>c, DoneCall
  <1>3. CallsFit'
    BY <1>0, <1>2 DEF CallsFit, CallFits
  <1>4. SavedIsSafe'
    BY <1>0, <1>1 DEF SavedIsSafe, PathSafe, Detected, Overlapping, Kept
  <1>5. CASE call[c].pc = "check"
    <2>1. UNCHANGED <<queue, job, cutOff, late>>
      BY <1>5 DEF Cancel
    <2>2. Typed'
      BY <1>0, <1>1, <1>2, <2>1 DEF Typed
    <2>3. LastRefresh'
      BY <1>0, <1>1, <2>1 DEF LastRefresh, Settled
    <2>4. call'[Setup].pc = "done" => Started
      BY <1>2, <1>c, CallerIs DEF Started
    <2>5. EdgeHearsOfChanges'
      BY <1>0, <1>1, <1>2, <1>5, <1>c, <2>1, <2>4, HearsStill
    <2> QED
      BY <1>3, <1>4, <2>2, <2>3, <2>5 DEF Inv
  <1>6. CASE call[c].pc = "refresh"
    <2>1. /\ cutOff' = TRUE /\ late' = late + 1
          /\ job' = IF Head(queue) = c THEN NoJob ELSE job
      BY <1>6 DEF Cancel
    <2>2. PICK i \in DOMAIN queue : queue[i] = c /\ queue' = Without(i)
      BY <1>6 DEF Cancel
    <2>3. queue' \in Seq(Who) /\ (queue' = <<>> => Head(queue) = c)
      BY <1>0, <2>2, WithoutWaiter
    <2>4. Typed'
      BY <1>0, <1>1, <1>2, <2>1, <2>3, NoJobTyped DEF Typed
    <2>5. LastRefresh'
      BY <2>1, <2>3, NoJobTyped DEF LastRefresh
    <2>6. EdgeHearsOfChanges'
      BY <1>0, <2>1 DEF EdgeHearsOfChanges, Typed
    <2> QED
      BY <1>3, <1>4, <2>4, <2>5, <2>6 DEF Inv
  <1> QED
    BY <1>5, <1>6 DEF Cancel

-----------------------------------------------------------------------------
LEMMA StepInv ==
    ASSUME Inv, [Next]_vars
    PROVE  Inv'
  <1>1. CASE Next
    BY <1>1, CallOnly, BlockedEdits, AllowEdits, SkipsDefaults, QuietSteps, Ends, CancelInv
       DEF Next, Step
  <1>2. CASE UNCHANGED vars
    <2>1. /\ UNCHANGED <<stored, blocked, deny, live, cache, call, raced, cutOff, late, owed>>
          /\ UNCHANGED <<dns, queue, job>>
      BY <1>2 DEF vars
    <2> QED
      BY <2>1, ListsStay DEF Inv, Typed, LastRefresh
  <1> QED
    BY <1>1, <1>2

\* The inductive invariant: which list a call in its check may still change,
\* and which names the last refresh in turn resolves.
THEOREM SavedAndEnforced == Spec => []Inv
  BY InitInv, StepInv, PTL DEF Spec

\* Whatever is edited, resolved, timed out or cancelled, a blocked network
\* that overlaps a local subnet refuses none of its addresses, and default
\* deny leaves one local subnet open, unless two edits crossed
\* (network_policy.py).
THEOREM PathStaysOpen == Spec => []LocalPathKept
  <1>1. Inv => LocalPathKept
    BY SafeKeepsPath DEF Inv
  <1> QED
    BY <1>1, SavedAndEnforced, PTL

\* Once no refresh waits, what is enforced is what is saved, however many
\* edits, timers and cancellations met at the lock (dns_allowlist.py).
THEOREM ListSettles == Spec => []SettledAllowlist
  <1>1. Inv => SettledAllowlist
    BY DEF Inv, LastRefresh, Settled, SettledAllowlist
  <1> QED
    BY <1>1, SavedAndEnforced, PTL

\* The proxy is owed no change of the live list, but while the edit that made
\* it still waits for its refresh, or was cancelled there.
THEOREM EdgeHears == Spec => []EdgeHearsOfChanges
  <1>1. Inv => EdgeHearsOfChanges
    BY DEF Inv
  <1> QED
    BY <1>1, SavedAndEnforced, PTL

-----------------------------------------------------------------------------
(* The bounds, and the time a resolved address may still be trusted.       *)

LEMMA Limits ==
    /\ Stale \in Nat
    /\ \A cuts \in Nat : /\ Limit(cuts) \in Nat
                         /\ Limit(cuts + 1) = Limit(cuts) + Timeout
                         /\ Grace + Interval + Timeout <= Limit(cuts)
  <1> DEFINE size == Cardinality(Cancellable)
  <1>1. /\ Interval \in Nat /\ Timeout \in Nat /\ Grace \in Nat
        /\ size \in Nat
    BY FS_CardinalityType, AllowlistAssumption
  <1> HIDE DEF size
  <1>2. \A m \in Nat : /\ m * Timeout \in Nat
                       /\ (1 + m) * Timeout = Timeout + m * Timeout
    BY <1>1
  <1>3. (2 + size) * Timeout \in Nat
    BY <1>1, <1>2
  <1>4. Stale \in Nat
    BY <1>1, <1>3 DEF Stale, size
  <1>5. ASSUME NEW cuts \in Nat
        PROVE  /\ Limit(cuts) \in Nat
               /\ Limit(cuts + 1) = Limit(cuts) + Timeout
               /\ Grace + Interval + Timeout <= Limit(cuts)
    <2>1. (1 + (cuts + 1)) * Timeout = Timeout + (1 + cuts) * Timeout
      BY <1>1, <1>5
    <2>2. (1 + cuts) * Timeout \in Nat /\ (1 + cuts) * Timeout >= Timeout
      BY <1>1, <1>2, <1>5
    <2> QED
      BY <1>1, <2>1, <2>2 DEF Limit
  <1> QED
    BY <1>4, <1>5

LEMMA TimeLeftTyped ==
    ASSUME Typed, Bounded
    PROVE  TimeLeft \in 0 .. Timeout
  BY AllowlistAssumption DEF Bounded, TimeLeft

\* A step that lets no time pass, asks for a refresh or not, and lets no
\* holder go.
LEMMA AgeStays ==
    ASSUME Inv, TimeInv, Started' => Started, UNCHANGED <<cache, age, late>>,
           due' = due \/ (due' \in 0 .. Interval /\ Waits(Timer)'),
           Waits(Timer) => Waits(Timer)',
           queue # <<>> => TimeLeft' <= TimeLeft,
           TimeLeft' \in 0 .. Timeout
    PROVE  AgeInTime'
  <1> SUFFICES ASSUME Started', NEW n \in Name, cache'[n] # {}
               PROVE  /\ Waits(Timer)' \/ age'[n] + due' <= Grace + Interval
                      /\ queue' = <<>> \/ age'[n] + TimeLeft' <= Limit(late')
    BY DEF AgeInTime, AgesInTime
  <1>1. /\ Started /\ cache[n] # {} /\ age'[n] = age[n] /\ late' = late
        /\ Waits(Timer) \/ age[n] + due <= Grace + Interval
        /\ queue = <<>> \/ age[n] + TimeLeft <= Limit(late)
    BY DEF TimeInv, AgeInTime, AgesInTime
  <1>2. /\ age[n] \in Nat /\ due \in Nat /\ late \in Nat
        /\ Interval \in Nat /\ Timeout \in Nat /\ Grace \in Nat
    BY Limits, AllowlistAssumption DEF TimeInv, Bounded, Inv, Typed
  <1>3. TimeLeft \in 0 .. Timeout
    BY TimeLeftTyped DEF Inv, TimeInv
  <1> DEFINE left == TimeLeft
             next == TimeLeft'
             limit == Limit(late)
  <1>6. /\ left \in 0 .. Timeout /\ next \in 0 .. Timeout
        /\ queue # <<>> => next <= left
        /\ limit \in Nat /\ Grace + Interval + Timeout <= limit
        /\ queue = <<>> \/ age[n] + left <= limit
    BY <1>1, <1>2, <1>3, Limits
  <1>7. ASSUME age[n] + next <= limit
        PROVE  queue' = <<>> \/ age'[n] + TimeLeft' <= Limit(late')
    BY <1>1, <1>7
  <1> HIDE DEF left, next, limit
  <1>4. CASE queue = <<>>
    <2>1. ~ Waits(Timer)
      BY <1>4 DEF Waits
    <2>2. age[n] + due <= Grace + Interval
      BY <1>1, <2>1
    <2>3. age[n] + next <= limit
      BY <1>2, <1>6, <2>2
    <2> QED
      BY <1>1, <1>7, <2>2, <2>3
  <1>5. CASE queue # <<>>
    <2>1. age[n] + next <= limit
      BY <1>2, <1>5, <1>6
    <2> QED
      BY <1>1, <1>7, <2>1
  <1> QED
    BY <1>4, <1>5

\* Asking for a refresh keeps whoever waits, and the holder's time.
LEMMA RequestKeepsTime ==
    ASSUME Typed, Bounded, NEW who \in Who, NEW list, RequestRefresh(who, list)
    PROVE  /\ Waits(who)' /\ \A x : Waits(x) => Waits(x)'
           /\ queue # <<>> => job' = job
           /\ job'.elapsed \in 0 .. Timeout
           /\ queue # <<>> => TimeLeft' = TimeLeft
           /\ TimeLeft' \in 0 .. Timeout
  <1> DEFINE n == Len(queue)
             q == Append(queue, who)
  <1>1. /\ n \in Nat /\ DOMAIN queue = 1 .. n /\ q \in Seq(Who)
        /\ Len(q) = n + 1 /\ \A i \in 1 .. n : q[i] = queue[i]
        /\ q[n + 1] = who /\ DOMAIN q = 1 .. Len(q) /\ queue' = q
    <2>1. queue \in Seq(Who) /\ queue' = q
      BY DEF Typed, RequestRefresh
    <2>2. q \in Seq(Who) /\ Len(q) = n + 1
          /\ (\A i \in 1 .. n : q[i] = queue[i]) /\ q[n + 1] = who
      BY <2>1, AppendProperties
    <2> QED
      BY <2>1, <2>2, LenProperties
  <1> HIDE DEF n, q
  <1>2. n + 1 \in 1 .. n + 1 /\ \A i \in 1 .. n : i \in 1 .. n + 1
    BY <1>1
  <1>3. Waits(who)' /\ \A x : Waits(x) => Waits(x)'
    BY <1>1, <1>2 DEF Waits
  <1>4. /\ queue # <<>> => job' = job
        /\ job'.elapsed \in 0 .. Timeout /\ TimeLeft' \in 0 .. Timeout
    BY TimeLeftTyped, AllowlistAssumption
       DEF RequestRefresh, Resolving, Bounded, TimeLeft
  <1> QED
    BY <1>3, <1>4 DEF TimeLeft

\* Calls that have ended stay ended, and each is counted at most once.
LEMMA CutsStay ==
    ASSUME Typed, TimeInv, late' = late,
           \A c \in Caller : call[c].pc = "done" => call'[c].pc = "done"
    PROVE  CutsCounted'
  <1>1. CutCalls \subseteq CutCalls'
    BY AllowlistAssumption DEF CutCalls, Caller
  <1>2. CutCalls' \subseteq Cancellable /\ IsFiniteSet(Cancellable)
    BY AllowlistAssumption DEF CutCalls
  <1>3. IsFiniteSet(CutCalls') /\ IsFiniteSet(CutCalls)
    BY <1>1, <1>2, FS_Subset
  <1>4. Cardinality(CutCalls) <= Cardinality(CutCalls')
    BY <1>1, <1>3, FS_Subset
  <1>5. Cardinality(CutCalls) \in Nat /\ Cardinality(CutCalls') \in Nat
    BY <1>3, FS_CardinalityType
  <1> QED
    BY <1>4, <1>5 DEF Typed, TimeInv, CutsCounted

\* A step that lets no time pass and does not go near the lock.
LEMMA TimeStill ==
    ASSUME Inv, TimeInv, UNCHANGED <<deny, live, cache, age, due, late, queue, job>>,
           \A c \in Caller : call[c].pc = "done" => call'[c].pc = "done",
           call'[Setup].pc = "done" => Started, BlockedAreEntries'
    PROVE  TimeInv'
  <1>1. Bounded'
    BY DEF TimeInv, Bounded
  <1>2. CutsCounted'
    BY CutsStay DEF Inv
  <1>3. LiveIsCached'
    BY DEF TimeInv, LiveIsCached
  <1>4. AgeInTime'
    <2>1. Started' => Started
      BY DEF Started
    <2> QED
      BY <2>1 DEF TimeInv, AgeInTime, AgesInTime, Waits, TimeLeft
  <1> QED
    BY <1>1, <1>2, <1>3, <1>4 DEF TimeInv

LEMMA CallsInTime ==
    ASSUME Inv, TimeInv,
           \/ SetupReads
           \/ \E c \in Command : CheckFails(c) \/ SaveBlocked(c)
           \/ \E c \in Command, e \in Entries :
                 \/ AddAllowlist(c, e) \/ RemoveAllowlist(c, e)
                 \/ AddBlocked(c, e) \/ RemoveBlocked(c, e)
    PROVE  TimeInv'
  <1>1. UNCHANGED <<deny, live, cache, age, due, late, queue, job>>
    BY DEF SetupReads, CheckFails, AddAllowlist, RemoveAllowlist, AddBlocked,
           SaveBlocked, RemoveBlocked
  <1> DEFINE Over(c) ==
               /\ c # Setup /\ Done(c)
               /\ \/ blocked' = blocked
                  \/ \E e \in Entries : blocked' = blocked \ {e}
                  \/ /\ call[c].pc = "check" /\ call[c].kind = "block"
                     /\ blocked' = call[c].block
             Waiting(c) ==
               /\ blocked' = blocked
               /\ \E kind \in Kinds : \E allow, block :
                     /\ Wait(c, kind, allow, block)
                     /\ kind = "block" => \E e \in Entries \cap Net :
                                             block = blocked \cup {e}
             Moves(c) == call[c].pc \in {"new", "check"} /\ (Over(c) \/ Waiting(c))
  <1>2. \E c \in Caller : Moves(c)
    <2> USE CallerIs
    <2>1. ASSUME SetupReads PROVE Moves(Setup)
      <3>1. Wait(Setup, "defaults", Defaults, blocked) /\ "defaults" \in Kinds
        BY <2>1 DEF SetupReads, Kinds
      <3> QED
        BY <2>1, <3>1 DEF SetupReads
    <2>2. ASSUME NEW c \in Command, CheckFails(c) PROVE Moves(c)
      BY <2>2 DEF CheckFails
    <2>3. ASSUME NEW c \in Command, SaveBlocked(c) PROVE Moves(c)
      BY <2>3 DEF SaveBlocked
    <2>4. ASSUME NEW c \in Command, NEW e \in Entries, AddAllowlist(c, e)
          PROVE  Moves(c)
      <3>1. /\ Done(c) \/ Wait(c, "allow", stored \cup {e}, blocked)
            /\ "allow" \in Kinds
        BY <2>4 DEF AddAllowlist, Kinds
      <3> QED
        BY <2>4, <3>1 DEF AddAllowlist
    <2>5. ASSUME NEW c \in Command, NEW e \in Entries, RemoveAllowlist(c, e)
          PROVE  Moves(c)
      <3>1. /\ Done(c) \/ Wait(c, "disallow", stored \ {e}, blocked)
            /\ "disallow" \in Kinds
        BY <2>5 DEF RemoveAllowlist, Kinds
      <3> QED
        BY <2>5, <3>1 DEF RemoveAllowlist
    <2>6. ASSUME NEW c \in Command, NEW e \in Entries, AddBlocked(c, e)
          PROVE  Moves(c)
      <3>1. /\ Done(c) \/ Wait(c, "block", stored, blocked \cup {e})
            /\ "block" \in Kinds /\ e \in Entries \cap Net
        BY <2>6 DEF AddBlocked, Kinds
      <3> QED
        BY <2>6, <3>1 DEF AddBlocked
    <2>7. ASSUME NEW c \in Command, NEW e \in Entries, RemoveBlocked(c, e)
          PROVE  Moves(c)
      BY <2>7 DEF RemoveBlocked
    <2> HIDE DEF Moves
    <2> QED
      BY <2>1, <2>2, <2>3, <2>4, <2>5, <2>6, <2>7
  <1>3. PICK c \in Caller : Moves(c)
    BY <1>2
  <1>4. Typed /\ BlockedAreEntries /\ call \in [Caller -> CallType]
    BY DEF Inv, TimeInv, Typed
  <1>5. CASE c # Setup /\ Done(c)
    <2>1. /\ call'[c].pc = "done" /\ \A k \in Caller \ {c} : call'[k] = call[k]
      BY <1>4, <1>5, DoneCall
    <2>2. blocked' \subseteq Entries \cap Net
      <3>1. \/ blocked' \subseteq blocked
            \/ call[c].pc = "check" /\ call[c].kind = "block" /\ blocked' = call[c].block
        BY <1>3, <1>5, <1>4 DEF Done, Wait
      <3> QED
        BY <1>4, <3>1 DEF BlockedAreEntries
    <2>3. BlockedAreEntries'
      BY <1>4, <2>1, <2>2 DEF BlockedAreEntries
    <2>4. /\ call'[Setup].pc = "done" => Started
          /\ \A k \in Caller : call[k].pc = "done" => call'[k].pc = "done"
      BY <1>5, <2>1, CallerIs DEF Started
    <2> QED
      BY <1>1, <2>3, <2>4, TimeStill
  <1>6. CASE ~ (c # Setup /\ Done(c))
    <2>0. PICK kind \in Kinds : \E allow, block :
             /\ Wait(c, kind, allow, block)
             /\ kind = "block" => \E e \in Entries \cap Net : block = blocked \cup {e}
      BY <1>3, <1>6
    <2>1. PICK allow, block :
             /\ Wait(c, kind, allow, block)
             /\ kind = "block" => \E e \in Entries \cap Net : block = blocked \cup {e}
      BY <2>0
    <2> DEFINE new == [pc |-> "check", kind |-> kind, seen |-> <<stored, blocked>>,
                       allow |-> allow, block |-> block]
    <2>2. new.pc = "check" /\ new.kind = kind /\ new.block = block
          /\ call' = [call EXCEPT ![c] = new]
      BY <2>1 DEF Wait
    <2> HIDE DEF new
    <2>3. /\ call'[c].pc = "check" /\ call'[c].kind = kind /\ call'[c].block = block
          /\ \A k \in Caller \ {c} : call'[k] = call[k]
      BY <1>4, <2>2
    <2>4. blocked' = blocked
      BY <1>3, <1>6
    <2>5. BlockedAreEntries'
      BY <1>4, <2>1, <2>3, <2>4 DEF BlockedAreEntries
    <2>6. /\ call'[Setup].pc = "done" => Started
          /\ \A k \in Caller : call[k].pc = "done" => call'[k].pc = "done"
      BY <1>3, <2>3, CallerIs DEF Started
    <2> QED
      BY <1>1, <2>5, <2>6, TimeStill
  <1> QED
    BY <1>5, <1>6

\* A step that asks for a refresh: what it saves is networks, and nothing that
\* is cached grows older.
LEMMA RequestsInTime ==
    ASSUME Inv, TimeInv,
           SetupWrites \/ SetupSkips \/ TimerFires \/ \E c \in Command : SaveAllowlist(c)
    PROVE  TimeInv'
  <1>1. Typed /\ Bounded /\ BlockedAreEntries /\ call \in [Caller -> CallType]
    BY DEF Inv, TimeInv, Typed
  <1>2. UNCHANGED <<deny, blocked, cache, age, late>>
    BY DEF SetupWrites, SetupSkips, TimerFires, SaveAllowlist, WriteAllow
  <1>3. live' \subseteq Net \/ live' = live
    BY DEF SetupWrites, SetupSkips, TimerFires, SaveAllowlist, WriteAllow, Parsed
  <1>4. \/ UNCHANGED <<queue, job>> /\ Waits(Timer)
        \/ \E who \in Who : \E list : RequestRefresh(who, list) /\ (TimerFires => who = Timer)
    <2>1. ASSUME NEW c \in Caller, SetupWrites \/ SaveAllowlist(c), ~ TimerFires
          PROVE  \E who \in Who : \E list : RequestRefresh(who, list)
      BY <2>1, CallerIs DEF SetupWrites, SaveAllowlist, WriteAllow, Who
    <2>2. SetupSkips => RequestRefresh(Setup, stored)
      BY DEF SetupSkips
    <2>3. TimerFires => \/ UNCHANGED <<queue, job>> /\ Waits(Timer)
                        \/ RequestRefresh(Timer, stored)
      BY DEF TimerFires, Waits
    <2> QED
      BY <2>1, <2>2, <2>3, CallerIs DEF Who
  <1>5. /\ Waits(Timer) => Waits(Timer)'
        /\ job'.elapsed \in 0 .. Timeout /\ TimeLeft' \in 0 .. Timeout
        /\ queue # <<>> => TimeLeft' = TimeLeft
        /\ TimerFires => Waits(Timer)'
    <2>1. CASE UNCHANGED <<queue, job>> /\ Waits(Timer)
      BY <1>1, <2>1, TimeLeftTyped DEF Waits, TimeLeft, Bounded
    <2>2. ASSUME NEW who \in Who, NEW list, RequestRefresh(who, list),
                 TimerFires => who = Timer
          PROVE  /\ Waits(Timer) => Waits(Timer)'
                 /\ job'.elapsed \in 0 .. Timeout /\ TimeLeft' \in 0 .. Timeout
                 /\ queue # <<>> => TimeLeft' = TimeLeft
                 /\ TimerFires => Waits(Timer)'
      BY <1>1, <2>2, RequestKeepsTime
    <2> QED
      BY <1>4, <2>1, <2>2
  <1>6. due' = due \/ (due' \in 0 .. Interval /\ Waits(Timer)')
    <2>1. TimerFires => due' = Interval
      BY DEF TimerFires
    <2>2. TimerFires \/ due' = due
      BY DEF SetupWrites, SetupSkips, SaveAllowlist, WriteAllow
    <2> QED
      BY <1>5, <2>1, <2>2, AllowlistAssumption
  <1>7. \E c \in Caller :
           /\ call[c].pc # "done" \/ call' = call
           /\ call' = call \/ (call'[c].pc = "refresh" /\
                               \A k \in Caller \ {c} : call'[k] = call[k])
    <2>1. ASSUME NEW c \in Caller, call[c].pc = "check",
                 WriteAllow(c, call[c].allow)
          PROVE  /\ call'[c].pc = "refresh"
                 /\ \A k \in Caller \ {c} : call'[k] = call[k]
      <3> DEFINE new == [NoCall EXCEPT !.pc = "refresh"]
      <3>1. new.pc = "refresh" /\ call' = [call EXCEPT ![c] = new]
        BY <2>1 DEF WriteAllow, NoCall
      <3> HIDE DEF new
      <3> QED
        BY <1>1, <3>1
    <2>2. ASSUME SetupSkips
          PROVE  /\ call'[Setup].pc = "refresh" /\ call[Setup].pc = "new"
                 /\ \A k \in Caller \ {Setup} : call'[k] = call[k]
      <3> DEFINE new == [call[Setup] EXCEPT !.pc = "refresh"]
      <3>1. new.pc = "refresh" /\ call' = [call EXCEPT ![Setup] = new]
        BY <1>1, <2>2, CallerIs DEF SetupSkips, CallType
      <3> HIDE DEF new
      <3> QED
        BY <1>1, <2>2, <3>1, CallerIs DEF SetupSkips
    <2>3. TimerFires => call' = call
      BY DEF TimerFires
    <2>4. SetupWrites => call[Setup].pc = "check" /\ WriteAllow(Setup, call[Setup].allow)
      BY DEF SetupWrites
    <2>5. \A c \in Command : SaveAllowlist(c) =>
             call[c].pc = "check" /\ WriteAllow(c, call[c].allow)
      BY DEF SaveAllowlist
    <2>6. CASE TimerFires
      BY <2>3, <2>6, CallerIs
    <2>7. CASE SetupSkips
      BY <2>2, <2>7, CallerIs
    <2>8. CASE SetupWrites
      BY <2>1, <2>4, <2>8, CallerIs
    <2>9. ASSUME NEW c \in Command, SaveAllowlist(c)
          PROVE  /\ c \in Caller /\ call[c].pc # "done" /\ call'[c].pc = "refresh"
                 /\ \A k \in Caller \ {c} : call'[k] = call[k]
      BY <2>1, <2>5, <2>9, CallerIs
    <2> QED
      BY <2>6, <2>7, <2>8, <2>9
  <1>8. /\ \A k \in Caller : call[k].pc = "done" => call'[k].pc = "done"
        /\ call'[Setup].pc = "done" => Started
        /\ BlockedAreEntries'
    BY <1>1, <1>2, <1>7, CallerIs DEF Started, BlockedAreEntries
  <1>9. Bounded'
    BY <1>1, <1>2, <1>3, <1>5, <1>6 DEF Bounded
  <1>10. CutsCounted'
    BY <1>1, <1>2, <1>8, CutsStay
  <1>11. LiveIsCached'
    BY <1>2, <1>3, AllowlistAssumption DEF TimeInv, LiveIsCached
  <1>12. AgeInTime'
    <2>1. queue # <<>> => TimeLeft' <= TimeLeft
      <3> DEFINE old == TimeLeft
                 new == TimeLeft'
      <3>1. old \in 0 .. Timeout /\ (queue # <<>> => new = old)
        BY <1>1, <1>5, TimeLeftTyped
      <3> HIDE DEF old, new
      <3>2. queue # <<>> => new <= old
        BY <3>1, AllowlistAssumption
      <3> QED
        BY <3>2 DEF old, new
    <2>2. Started' => Started
      BY <1>8 DEF Started
    <2> QED
      BY <1>2, <1>5, <1>6, <2>1, <2>2, AgeStays
  <1> QED
    BY <1>8, <1>9, <1>10, <1>11, <1>12 DEF TimeInv

\* The holder's resolution begins, gets an answer or gives up; the resolver
\* changes its mind.
LEMMA AnswersInTime ==
    ASSUME Inv, TimeInv,
           \/ NextHolder \/ ResolveTimeout \/ \E n \in Name : Resolve(n)
           \/ \E n \in Name, answer \in Answers : DnsChanges(n, answer)
    PROVE  TimeInv'
  <1>1. Typed /\ Bounded /\ job \in JobType
    BY DEF Inv, TimeInv, Typed
  <1>2. UNCHANGED <<deny, blocked, live, cache, age, due, late, call, queue>>
    BY DEF NextHolder, ResolveTimeout, Resolve, DnsChanges
  <1>3. job'.elapsed \in 0 .. Timeout /\ TimeLeft' = TimeLeft
    <2>1. CASE NextHolder
      BY <1>1, <2>1, AllowlistAssumption DEF NextHolder, Resolving, TimeLeft
    <2>2. CASE ResolveTimeout
      <3>1. job'.busy = job.busy /\ job'.elapsed = job.elapsed
        BY <1>1, <2>2 DEF ResolveTimeout, JobType
      <3> QED
        BY <1>1, <3>1 DEF TimeLeft, Bounded
    <2>3. ASSUME NEW n \in Name, Resolve(n)
          PROVE  job'.elapsed \in 0 .. Timeout /\ TimeLeft' = TimeLeft
      <3>1. job'.busy = job.busy /\ job'.elapsed = job.elapsed
        BY <1>1, <2>3 DEF Resolve, JobType
      <3> QED
        BY <1>1, <3>1 DEF TimeLeft, Bounded
    <2>4. ASSUME NEW n \in Name, NEW answer \in Answers, DnsChanges(n, answer)
          PROVE  job'.elapsed \in 0 .. Timeout /\ TimeLeft' = TimeLeft
      BY <1>1, <2>4 DEF DnsChanges, TimeLeft, Bounded
    <2> QED
      BY <2>1, <2>2, <2>3, <2>4
  <1>4. Bounded' /\ BlockedAreEntries' /\ LiveIsCached'
    BY <1>1, <1>2, <1>3 DEF TimeInv, Bounded, BlockedAreEntries, LiveIsCached
  <1>5. CutsCounted'
    BY <1>1, <1>2, CutsStay
  <1>6. AgeInTime'
    BY <1>2, <1>3 DEF TimeInv, AgeInTime, AgesInTime, Waits, Started
  <1> QED
    BY <1>4, <1>5, <1>6 DEF TimeInv

\* A tick waits for what is ready: whoever waits for the resolver has time
\* left, and the timer has not run down.
LEMMA TickInTime ==
    ASSUME Inv, TimeInv, Tick
    PROVE  TimeInv'
  <1>1. /\ Typed /\ Bounded /\ job \in JobType /\ Stale \in Nat
        /\ job.elapsed \in 0 .. Timeout /\ due \in 0 .. Interval
        /\ Interval \in Nat /\ Timeout \in Nat /\ Grace \in Nat
    BY Limits, AllowlistAssumption DEF Inv, TimeInv, Typed, Bounded
  <1>2. /\ UNCHANGED <<deny, blocked, live, cache, late, call, queue>>
        /\ age' = [n \in Name |-> IF cache[n] = {} \/ age[n] = Stale THEN age[n]
                                  ELSE age[n] + 1]
        /\ due' = IF Started THEN due - 1 ELSE due
        /\ job' = IF job.busy THEN [job EXCEPT !.elapsed = @ + 1] ELSE job
    BY DEF Tick
  <1>3. /\ Started => due # 0
        /\ queue # <<>> => job.busy
        /\ job.busy => job.elapsed # Timeout
    BY DEF Tick, Ready
  <1>4. /\ job'.busy = job.busy
        /\ job'.elapsed = IF job.busy THEN job.elapsed + 1 ELSE job.elapsed
    BY <1>1, <1>2 DEF JobType
  <1>5. job'.elapsed \in 0 .. Timeout
    BY <1>1, <1>3, <1>4
  <1>6. due' \in 0 .. Interval /\ (Started => due' = due - 1)
    BY <1>1, <1>2, <1>3
  <1>7. /\ age \in [Name -> 0 .. Stale] /\ age' \in [Name -> 0 .. Stale]
        /\ \A n \in Name : age'[n] <= age[n] + 1
    <2>1. age \in [Name -> 0 .. Stale]
      BY <1>1 DEF Bounded
    <2>2. \A n \in Name : /\ age[n] \in 0 .. Stale
                          /\ age[n] # Stale => age[n] + 1 \in 0 .. Stale
      BY <1>1, <2>1
    <2> QED
      BY <1>1, <1>2, <2>1, <2>2
  <1>8. Bounded' /\ BlockedAreEntries' /\ LiveIsCached'
    BY <1>1, <1>2, <1>5, <1>6, <1>7
       DEF TimeInv, Bounded, BlockedAreEntries, LiveIsCached
  <1>9. CutsCounted'
    BY <1>1, <1>2, CutsStay
  <1>10. AgeInTime'
    <2> SUFFICES ASSUME Started', NEW n \in Name, cache'[n] # {}
                 PROVE  /\ Waits(Timer)' \/ age'[n] + due' <= Grace + Interval
                        /\ queue' = <<>> \/ age'[n] + TimeLeft' <= Limit(late')
      BY DEF AgeInTime, AgesInTime
    <2>1. /\ Started
          /\ Waits(Timer) \/ age[n] + due <= Grace + Interval
          /\ queue = <<>> \/ age[n] + TimeLeft <= Limit(late)
      BY <1>2 DEF TimeInv, AgeInTime, AgesInTime, Started
    <2>2. age[n] \in Nat /\ age'[n] \in Nat /\ age'[n] <= age[n] + 1
      BY <1>1, <1>7
    <2>3. Waits(Timer)' \/ age'[n] + due' <= Grace + Interval
      <3>1. Waits(Timer)' <=> Waits(Timer)
        BY <1>2 DEF Waits
      <3>2. age[n] + due <= Grace + Interval => age'[n] + due' <= Grace + Interval
        BY <1>1, <1>6, <2>1, <2>2
      <3> QED
        BY <2>1, <3>1, <3>2
    <2>4. ASSUME queue # <<>> PROVE age'[n] + TimeLeft' <= Limit(late)
      <3> DEFINE limit == Limit(late)
      <3>1. age[n] + (Timeout - job.elapsed) <= limit /\ limit \in Nat
        BY <1>1, <1>3, <2>1, <2>4, Limits DEF TimeLeft, Typed
      <3>2. TimeLeft' = Timeout - (job.elapsed + 1)
        BY <1>3, <1>4, <2>4 DEF TimeLeft
      <3> HIDE DEF limit
      <3>3. age'[n] + (Timeout - (job.elapsed + 1)) <= limit
        BY <1>1, <2>2, <3>1
      <3> QED
        BY <3>2, <3>3 DEF limit
    <2> QED
      BY <1>2, <2>3, <2>4
  <1> QED
    BY <1>8, <1>9, <1>10 DEF TimeInv

\* A refresh that ends keeps only what has answered or is within the grace.
LEMMA ApplyInTime ==
    ASSUME Inv, TimeInv, Apply
    PROVE  TimeInv'
  <1> DEFINE who == Head(queue)
  <1>1. /\ Typed /\ Bounded /\ job \in JobType /\ Stale \in Nat /\ late \in Nat
        /\ age \in [Name -> 0 .. Stale] /\ cache \in [Name -> SUBSET Addr]
        /\ due \in 0 .. Interval
        /\ Interval \in Nat /\ Timeout \in Nat /\ Grace \in Nat
    BY Limits, AllowlistAssumption DEF Inv, TimeInv, Typed, Bounded
  <1>2. /\ job.busy /\ queue' = Tail(queue) /\ job' = NoJob
        /\ cache' = [n \in Name |-> CacheAfter(n)]
        /\ age' = [n \in Name |-> IF job.answers[n] # {} \/ CacheAfter(n) = {}
                                  THEN 0 ELSE age[n]]
        /\ live' = Parsed(stored) \cup UNION {cache'[n] : n \in job.names}
        /\ call' = IF who = Timer THEN call ELSE [call EXCEPT ![who].pc = "done"]
        /\ due' = IF who = Setup THEN Interval ELSE due
        /\ UNCHANGED <<stored, blocked, deny, late>>
    BY DEF Apply, ApplyNames
  <1>3. queue # <<>> /\ queue \in Seq(Who)
    BY <1>1, <1>2 DEF Inv, LastRefresh, Typed
  <1>4. who \in Who
    BY <1>3, HeadTailProperties
  <1> HIDE DEF who
  <1>5. \/ who = Timer /\ call' = call
        \/ /\ who \in Caller /\ call'[who].pc = "done"
           /\ \A k \in Caller \ {who} : call'[k] = call[k]
    <2>1. CASE who # Timer
      <3>1. who \in Caller /\ call' = [call EXCEPT ![who].pc = "done"]
        BY <1>2, <1>4, <2>1 DEF Who
      <3> QED
        BY <1>1, <3>1, CalledBack
    <2> QED
      BY <1>2, <2>1
  <1>6. \A n \in Name : /\ CacheAfter(n) \in SUBSET Addr
                        /\ CacheAfter(n) # {} /\ job.answers[n] = {} => age[n] <= Grace
    <2>1. \A n \in Name : job.answers[n] \in SUBSET Addr /\ age[n] \in Nat
                          /\ cache[n] \in SUBSET Addr
      BY <1>1 DEF JobType
    <2> QED
      BY <1>1, <2>1 DEF CacheAfter
  <1>7. /\ cache' \in [Name -> SUBSET Addr] /\ age' \in [Name -> 0 .. Stale]
        /\ \A n \in Name : cache'[n] # {} => age'[n] <= Grace
    <2>1. 0 \in 0 .. Stale /\ 0 <= Grace
      BY <1>1
    <2> QED
      BY <1>1, <1>2, <1>6, <2>1
  <1>8. due' \in 0 .. Interval
    BY <1>1, <1>2
  <1>9. live' \subseteq Net \cup Addr /\ LiveIsCached'
    <2>1. job.names \subseteq Name /\ Parsed(stored) \subseteq Net
      BY <1>1 DEF JobType, Parsed
    <2>2. UNION {cache'[n] : n \in job.names} \subseteq UNION {cache'[n] : n \in Name}
      BY <2>1
    <2>3. UNION {cache'[n] : n \in Name} \subseteq Addr
      BY <1>7
    <2> QED
      BY <1>2, <2>1, <2>2, <2>3, AllowlistAssumption DEF LiveIsCached
  <1>10. job'.elapsed \in 0 .. Timeout /\ TimeLeft' = Timeout
    BY <1>1, <1>2 DEF NoJob, TimeLeft
  <1>11. Bounded'
    BY <1>1, <1>2, <1>7, <1>8, <1>9, <1>10 DEF Bounded
  <1>12. BlockedAreEntries'
    BY <1>2, <1>5 DEF TimeInv, BlockedAreEntries
  <1>13. CutsCounted'
    BY <1>1, <1>2, <1>5, CutsStay
  <1>14. AgeInTime'
    <2> SUFFICES ASSUME Started', NEW n \in Name, cache'[n] # {}
                 PROVE  /\ age'[n] + due' <= Grace + Interval
                        /\ age'[n] + TimeLeft' <= Limit(late')
      BY DEF AgeInTime, AgesInTime
    <2> DEFINE limit == Limit(late)
    <2>1. age'[n] \in Nat /\ age'[n] <= Grace
      BY <1>1, <1>7
    <2>2. limit \in Nat /\ Grace + Interval + Timeout <= limit
      BY <1>1, Limits
    <2> HIDE DEF limit
    <2>3. age'[n] + Timeout <= limit /\ age'[n] + due' <= Grace + Interval
      BY <1>1, <1>8, <2>1, <2>2
    <2> QED
      BY <1>2, <1>10, <2>3 DEF limit
  <1> QED
    BY <1>9, <1>11, <1>12, <1>13, <1>14 DEF TimeInv

\* Only a waiter that is cancelled leaves the queue.
LEMMA WithoutKeeps ==
    ASSUME Typed, NEW i \in DOMAIN queue, NEW x, queue[i] # x, Waits(x),
           queue' = Without(i)
    PROVE  Waits(x)'
  <1> DEFINE n == Len(queue)
  <1>1. queue \in Seq(Who) /\ n \in Nat /\ DOMAIN queue = 1 .. n
    BY LenProperties DEF Typed
  <1>2. DOMAIN queue' = 1 .. n - 1
    BY DEF Without
  <1>3. PICK k \in 1 .. n : queue[k] = x
    BY <1>1 DEF Waits
  <1>4. i \in 1 .. n /\ k # i
    BY <1>1, <1>3
  <1> HIDE DEF n
  <1>5. CASE k < i
    <2>1. k \in 1 .. n - 1
      BY <1>1, <1>3, <1>4, <1>5
    <2>2. queue'[k] = queue[k]
      BY <1>5, <2>1 DEF Without, n
    <2> QED
      BY <1>2, <1>3, <2>1, <2>2 DEF Waits
  <1>6. CASE k > i
    <2>1. k - 1 \in 1 .. n - 1 /\ ~ (k - 1 < i) /\ (k - 1) + 1 = k
      BY <1>1, <1>3, <1>4, <1>6
    <2>2. queue'[k - 1] = queue[k]
      BY <2>1 DEF Without, n
    <2> QED
      BY <1>2, <1>3, <2>1, <2>2 DEF Waits
  <1> QED
    BY <1>1, <1>3, <1>4, <1>5, <1>6

\* A holder that is cut off leaves its time to the next.
LEMMA CancelInTime ==
    ASSUME Inv, TimeInv, NEW c \in Cancellable, Cancel(c)
    PROVE  TimeInv'
  <1>1. /\ Typed /\ Bounded /\ late \in Nat /\ c \in Command /\ c \in Caller
        /\ c # Setup /\ c # Timer /\ IsFiniteSet(Cancellable)
        /\ Interval \in Nat /\ Timeout \in Nat /\ Grace \in Nat /\ Stale \in Nat
    BY Limits, CallerIs, AllowlistAssumption DEF Inv, TimeInv, Typed
  <1>2. /\ Done(c) /\ call[c].pc \in {"check", "refresh"}
        /\ UNCHANGED <<blocked, deny, live, cache, age, due>>
    BY DEF Cancel
  <1>3. /\ call'[c].pc = "done" /\ \A k \in Caller \ {c} : call'[k] = call[k]
    BY <1>1, <1>2, DoneCall
  <1>4. /\ BlockedAreEntries' /\ LiveIsCached' /\ (Started' => Started)
        /\ \A k \in Caller : call[k].pc = "done" => call'[k].pc = "done"
        /\ call'[Setup].pc = "done" => Started
    BY <1>1, <1>2, <1>3, CallerIs
       DEF TimeInv, BlockedAreEntries, LiveIsCached, Started
  <1>5. CASE call[c].pc = "check"
    <2>1. UNCHANGED <<queue, job, late>>
      BY <1>5 DEF Cancel
    <2> QED
      BY <1>2, <1>4, <2>1, TimeStill
  <1>6. CASE call[c].pc = "refresh"
    <2>1. /\ late' = late + 1 /\ job' = IF Head(queue) = c THEN NoJob ELSE job
      BY <1>6 DEF Cancel
    <2>2. PICK i \in DOMAIN queue : queue[i] = c /\ queue' = Without(i)
      BY <1>6 DEF Cancel
    <2>3. queue # <<>>
      BY <2>2
    <2>4. Waits(Timer) => Waits(Timer)'
      BY <1>1, <2>2, WithoutKeeps
    <2>5. job'.elapsed \in 0 .. Timeout
      BY <1>1, <2>1 DEF NoJob, Bounded
    <2>6. Bounded'
      BY <1>1, <1>2, <2>5 DEF Bounded
    <2>7. CutsCounted'
      <3>1. CutCalls' = CutCalls \cup {c} /\ c \notin CutCalls
        BY <1>1, <1>2, <1>3, AllowlistAssumption DEF CutCalls, Caller
      <3>2. IsFiniteSet(CutCalls)
        BY <1>1, FS_Subset DEF CutCalls
      <3>3. Cardinality(CutCalls') = Cardinality(CutCalls) + 1
        BY <3>1, <3>2, FS_AddElement
      <3>4. Cardinality(CutCalls) \in Nat
        BY <3>2, FS_CardinalityType
      <3> QED
        BY <1>1, <2>1, <3>3, <3>4 DEF TimeInv, CutsCounted
    <2>8. AgeInTime'
      <3> SUFFICES ASSUME Started', NEW n \in Name, cache'[n] # {}
                   PROVE  /\ Waits(Timer)' \/ age'[n] + due' <= Grace + Interval
                          /\ age'[n] + TimeLeft' <= Limit(late')
        BY DEF AgeInTime, AgesInTime
      <3> DEFINE left == TimeLeft
                 next == TimeLeft'
                 limit == Limit(late)
                 later == Limit(late')
      <3>1. /\ Waits(Timer) \/ age[n] + due <= Grace + Interval
            /\ age[n] + left <= limit
        BY <1>2, <1>4, <2>3 DEF TimeInv, AgeInTime, AgesInTime
      <3>2. /\ age[n] \in Nat /\ limit \in Nat /\ later = limit + Timeout
            /\ left \in 0 .. Timeout /\ next \in 0 .. Timeout
        BY <1>1, <2>1, <2>5, Limits, TimeLeftTyped DEF Bounded, TimeLeft
      <3> HIDE DEF left, next, limit, later
      <3>3. age[n] + next <= later
        BY <1>1, <3>1, <3>2
      <3> QED
        BY <1>2, <2>4, <3>1, <3>3 DEF next, later
    <2> QED
      BY <1>4, <2>6, <2>7, <2>8 DEF TimeInv
  <1> QED
    BY <1>2, <1>5, <1>6

LEMMA InitInTime ==
    ASSUME Init
    PROVE  TimeInv
  <1>1. /\ Stale \in Nat /\ Interval \in Nat /\ Timeout \in Nat
        /\ 0 \in 0 .. Stale /\ 0 \in 0 .. Interval /\ 0 \in 0 .. Timeout
    BY Limits, AllowlistAssumption
  <1>2. Bounded
    BY <1>1 DEF Init, Bounded, NoJob, Parsed
  <1>3. BlockedAreEntries
    BY DEF Init, BlockedAreEntries, NoCall
  <1>4. CutsCounted
    <2>1. CutCalls = {} /\ late = 0
      BY AllowlistAssumption DEF Init, CutCalls, Caller, NoCall
    <2> QED
      BY <2>1, FS_EmptySet DEF CutsCounted
  <1>5. LiveIsCached
    BY AllowlistAssumption DEF Init, LiveIsCached, Parsed
  <1>6. AgeInTime
    BY DEF Init, AgeInTime, AgesInTime
  <1> QED
    BY <1>2, <1>3, <1>4, <1>5, <1>6 DEF TimeInv

LEMMA TimeStep ==
    ASSUME Inv, TimeInv, [Next]_vars
    PROVE  TimeInv'
  <1>1. CASE Next
    BY <1>1, CallsInTime, RequestsInTime, AnswersInTime, TickInTime, ApplyInTime,
       CancelInTime
       DEF Next, Step
  <1>2. CASE UNCHANGED vars
    BY <1>2, TimeStill DEF vars, TimeInv, BlockedAreEntries, Started
  <1> QED
    BY <1>1, <1>2

\* The second inductive invariant: how old a resolved address may be, by who
\* holds the lock, who waits and how many were cut off.
THEOREM AgesAreBounded == Spec => []TimeInv
  BY InitInTime, TimeStep, SavedAndEnforced, PTL DEF Spec

\* Every reachable state is well typed and within its bounds.
THEOREM TypeCorrect == Spec => []TypeOK
  <1>1. Inv /\ TimeInv => TypeOK
    <2> SUFFICES ASSUME Inv, TimeInv PROVE TypeOK
      OBVIOUS
    <2>1. job \in [busy : BOOLEAN, names : SUBSET Name, asked : SUBSET Name,
                   elapsed : 0 .. Timeout, answers : [Name -> SUBSET Addr]]
      BY DEF Inv, Typed, JobType, TimeInv, Bounded
    <2>2. late \in 0 .. Cardinality(Cancellable)
      <3>1. CutCalls \in SUBSET Cancellable /\ IsFiniteSet(Cancellable)
        BY AllowlistAssumption DEF CutCalls
      <3>2. Cardinality(CutCalls) <= Cardinality(Cancellable)
        BY <3>1, FS_Subset
      <3>3. Cardinality(CutCalls) \in Nat /\ Cardinality(Cancellable) \in Nat
        BY <3>1, FS_Subset, FS_CardinalityType
      <3> QED
        BY <3>2, <3>3 DEF Inv, Typed, TimeInv, CutsCounted
    <2>3. call \in [Caller -> CallType] /\ queue \in Seq(Caller \cup {Timer})
      BY DEF Inv, Typed, Who
    <2>4. blocked \in SUBSET (Entries \cap Net)
      BY DEF TimeInv, BlockedAreEntries
    <2> QED
      BY <2>1, <2>2, <2>3, <2>4 DEF TypeOK, Inv, Typed, TimeInv, Bounded, CallType
  <1> QED
    BY <1>1, SavedAndEnforced, AgesAreBounded, PTL

\* An address is trusted through a name only if it was resolved within the
\* grace, one interval and one timeout, and one timeout more for each refresh
\* that was cut off, whatever the resolver answers and whoever holds the lock
\* (dns_allowlist.py).
THEOREM NamesExpire == Spec => []TrustExpires
  <1>1. Inv /\ TimeInv => TrustExpires
    <2> SUFFICES ASSUME Inv, TimeInv, Started, NEW a \in live \cap Addr
                 PROVE  \E n \in Name :
                           /\ a \in cache[n]
                           /\ age[n] <= Grace + Interval + (1 + late) * Timeout
      BY DEF TrustExpires
    <2>1. PICK n \in Name : a \in cache[n]
      BY DEF TimeInv, LiveIsCached
    <2> DEFINE left == TimeLeft
               limit == Limit(late)
    <2>2. /\ Waits(Timer) \/ age[n] + due <= Grace + Interval
          /\ queue = <<>> \/ age[n] + left <= limit
          /\ queue = <<>> => ~ Waits(Timer)
      BY <2>1 DEF TimeInv, AgeInTime, AgesInTime, Waits
    <2>3. /\ age[n] \in Nat /\ due \in Nat /\ limit \in Nat
          /\ Grace + Interval + Timeout <= limit /\ left \in 0 .. Timeout
          /\ Grace \in Nat /\ Interval \in Nat /\ Timeout \in Nat
      <3>1. left \in 0 .. Timeout
        BY TimeLeftTyped DEF Inv, TimeInv
      <3>2. late \in Nat /\ age[n] \in Nat /\ due \in Nat
        BY Limits, AllowlistAssumption DEF Inv, Typed, TimeInv, Bounded
      <3>3. limit \in Nat /\ Grace + Interval + Timeout <= limit
        BY <3>2, Limits
      <3> QED
        BY <3>1, <3>2, <3>3, AllowlistAssumption
    <2> HIDE DEF left, limit
    <2>4. age[n] <= limit
      BY <2>2, <2>3
    <2> QED
      BY <2>1, <2>4 DEF limit, Limit
  <1> QED
    BY <1>1, SavedAndEnforced, AgesAreBounded, PTL
=============================================================================
