------------------------ MODULE NpmReconcile_proofs ------------------------
(***************************************************************************)
(* Proofs about NpmReconcile, for every set of hosts and faults: types,    *)
(* the order of the steps around the legacy access list, what a success    *)
(* and what an error promise of the hosts.                                 *)
(***************************************************************************)
EXTENDS NpmReconcile, SequenceTheorems, WellFoundedInduction, TLAPS

\* The transaction is changing hosts; or is, or is putting them back.
Sending == pc \in {"updating", "checking", "restoring", "deleting"}
Started == Sending \/ pc = "rolling"

HasChanged(h) == \E i \in 1 .. Len(changed) : changed[i] = h
Deleting(h) == pc = "deleting" /\ h = Selected

\* The selected host goes last, so it is never among the changed ones.
Shape ==
    /\ pc = "fetching" => changed = <<>>
    /\ Sending => todo # {}
    /\ pc = "deleting" => todo = {Selected}
    /\ pc = "rolling" => changed # <<>>
    /\ Started => ~ HasChanged(Selected)

\* Only the selected host refers to the list, which exists while it may be
\* put back there.
References ==
    /\ \A h \in Host : remote[h].list \/ snap[h].list => h = Selected
    /\ ListOutlivesReferences
    /\ Sending => (snap[Selected].list => listExists)

\* A host nobody else touched and none of whose requests failed is as it was
\* fetched, or was changed by this transaction.
Untouched ==
    Started =>
        \A h \in Host \ edited :
            /\ remote[h].active = snap[h].active
            /\ h \notin failed => HasChanged(h) \/ Deleting(h) \/ remote[h] = snap[h]

\* A host that is not to be updated any more has the rules it should have.
Complete ==
    Sending =>
        \A h \in Host \ edited :
            h \notin todo \/ Deleting(h) => remote[h].block = want[h]

Inv == TypeOK /\ Shape /\ References /\ Untouched /\ Complete

-----------------------------------------------------------------------------
(* The order of the hosts.                                                  *)

\* Every set of hosts has a first one.
LEMMA TurnChosen ==
    ASSUME NEW S \in SUBSET Host, S # {}
    PROVE  /\ Turn(S) \in S
           /\ \A k \in S \ {Turn(S)} : Earlier(Turn(S), k)
  <1>1. \E h \in S : \A k \in S \ {h} : Earlier(h, k)
    <2>1. CASE S = {Selected}
      BY <2>1
    <2>2. CASE S # {Selected}
      <3> DEFINE T == S \ {Selected}
      <3>1. T \subseteq Nat /\ T # {}
        BY <2>2, ConstantsAssumption
      <3>2. PICK h \in T : \A k \in T : ~ (<<k, h>> \in OpToRel(<, Nat))
        BY <3>1, NatLessThanWellFounded, WFMin
      <3>3. \A k \in T : ~ (k < h)
        BY <3>1, <3>2 DEF OpToRel
      <3>4. \A k \in S \ {h} : Earlier(h, k)
        BY <3>1, <3>3 DEF Earlier
      <3>5. QED
        BY <3>4
    <2>3. QED
      BY <2>1, <2>2
  <1>2. QED
    BY <1>1 DEF Turn

LEMMA SelectedLast ==
    ASSUME NEW S \in SUBSET Host, S # {}, Turn(S) = Selected
    PROVE  S = {Selected}
  BY TurnChosen DEF Earlier

-----------------------------------------------------------------------------
(* Sequences of changed hosts.                                              *)

LEMMA Appended ==
    ASSUME NEW h \in Host, changed \in Seq(Host), changed' = Append(changed, h)
    PROVE  /\ changed' \in Seq(Host) /\ changed' # <<>>
           /\ \A k : HasChanged(k)' <=> HasChanged(k) \/ k = h
  BY DEF HasChanged

LEMMA ButLast ==
    ASSUME NEW s \in Seq(Host), s # <<>>
    PROVE  /\ Len(s) \in Nat \ {0} /\ s[Len(s)] \in Host
           /\ SubSeq(s, 1, Len(s) - 1) \in Seq(Host)
           /\ Len(SubSeq(s, 1, Len(s) - 1)) = Len(s) - 1
           /\ \A i \in 1 .. Len(s) - 1 : SubSeq(s, 1, Len(s) - 1)[i] = s[i]
  <1> DEFINE n == Len(s) - 1
  <1>1. Len(s) \in Nat \ {0} /\ s[Len(s)] \in Host
    OBVIOUS
  <1>2. 1 \in Int /\ n \in Int /\ \A i \in 1 .. n : s[i] \in Host
    BY <1>1
  <1> HIDE DEF n
  <1>3. /\ SubSeq(s, 1, n) \in Seq(Host)
        /\ Len(SubSeq(s, 1, n)) = IF 1 <= n THEN n - 1 + 1 ELSE 0
        /\ \A i \in 1 .. n - 1 + 1 : SubSeq(s, 1, n)[i] = s[1 + i - 1]
    BY <1>2, SubSeqProperties
  <1>4. n \in Nat /\ n - 1 + 1 = n
    BY <1>1 DEF n
  <1>5. Len(SubSeq(s, 1, n)) = n
    BY <1>3, <1>4
  <1>6. \A i \in 1 .. n : SubSeq(s, 1, n)[i] = s[i]
    <2>1. \A i \in 1 .. n : 1 + i - 1 = i
      OBVIOUS
    <2>2. QED
      BY <1>3, <1>4, <2>1
  <1>7. QED
    BY <1>1, <1>3, <1>5, <1>6 DEF n

LEMMA Shortened ==
    ASSUME changed \in Seq(Host), changed # <<>>,
           changed' = SubSeq(changed, 1, Len(changed) - 1)
    PROVE  /\ changed' \in Seq(Host)
           /\ changed[Len(changed)] \in Host
           /\ HasChanged(changed[Len(changed)])
           /\ \A k : HasChanged(k)' => HasChanged(k)
           /\ \A k : HasChanged(k) => HasChanged(k)' \/ k = changed[Len(changed)]
           /\ changed' = <<>> => \A k : ~ HasChanged(k)'
  <1>1. Len(changed) \in Nat \ {0} /\ changed[Len(changed)] \in Host
    BY ButLast
  <1>2. /\ changed' \in Seq(Host) /\ Len(changed') = Len(changed) - 1
        /\ \A i \in 1 .. Len(changed) - 1 : changed'[i] = changed[i]
    BY ButLast
  <1>3. HasChanged(changed[Len(changed)])
    BY <1>1 DEF HasChanged
  <1>4. \A k : HasChanged(k)' => HasChanged(k)
    BY <1>1, <1>2 DEF HasChanged
  <1>5. \A k : HasChanged(k) => HasChanged(k)' \/ k = changed[Len(changed)]
    BY <1>1, <1>2 DEF HasChanged
  <1>6. ASSUME changed' = <<>> PROVE \A k : ~ HasChanged(k)'
    <2>1. Len(changed') = 0
      BY <1>6, EmptySeq
    <2>2. QED
      BY <2>1 DEF HasChanged
  <1>7. QED
    BY <1>1, <1>2, <1>3, <1>4, <1>5, <1>6

-----------------------------------------------------------------------------
(* Types.                                                                   *)

LEMMA RecordTypes ==
    ASSUME TypeOK, NEW h \in Host
    PROVE  /\ Written(h) \in HostRecord /\ Restored(h) \in HostRecord
           /\ RolledBack(h) \in HostRecord
  <1>1. remote[h] \in HostRecord /\ snap[h] \in HostRecord /\ want[h] \in 0..MaxPolicy
    BY DEF TypeOK
  <1>2. Detaches(h, snap) \in BOOLEAN
    BY DEF Detaches
  <1>3. QED
    BY <1>1, <1>2 DEF Written, Restored, RolledBack, HostRecord

LEMMA LandTypes ==
    ASSUME TypeOK, NEW h \in Host, NEW r \in HostRecord, MayLand(h, r)
    PROVE  remote' \in [Host -> HostRecord]
  BY DEF TypeOK, MayLand, Lands

LEMMA TargetTypes ==
    ASSUME TypeOK
    PROVE  Targets \subseteq Host
  BY ConstantsAssumption DEF Targets

LEMMA StoredTypes ==
    ASSUME TypeOK, NEW w \in [Host -> 0..MaxPolicy]
    PROVE  Stored(w) \in Config
  BY DEF TypeOK, Stored, Config, Job

LEMMA NoJobType == NoJob \in Job
  BY DEF NoJob, Job

Results == {"none", "ok", "error", "cut"}

LEMMA DoneTypes ==
    ASSUME TypeOK, NEW h \in Host, HostDone(h)
    PROVE  /\ changed' \in Seq(Host) /\ todo' \in SUBSET Host
           /\ cfg' \in Config /\ job' \in Job
           /\ pc' \in {"idle", "updating"} /\ result' \in Results
  <1>1. changed' \in Seq(Host) /\ todo' \in SUBSET Host
    BY DEF TypeOK, HostDone
  <1>2. CASE Succeeds(want)
    <2>1. cfg' \in Config
      BY <1>2, StoredTypes DEF TypeOK, Succeeds
    <2>2. QED
      BY <1>1, <1>2, <2>1, NoJobType DEF Succeeds, Ends, Results
  <1>3. CASE pc' = "updating" /\ UNCHANGED <<cfg, job, result>>
    BY <1>1, <1>3 DEF TypeOK, Results
  <1>4. QED
    BY <1>2, <1>3 DEF HostDone

LEMMA FailedTypes ==
    ASSUME TypeOK, NEW h \in Host, HostFailed(h)
    PROVE  /\ changed' \in Seq(Host) /\ todo' \in SUBSET Host /\ failed' \in SUBSET Host
           /\ cfg' \in Config /\ job' \in Job
           /\ pc' \in {"idle", "rolling"} /\ result' \in Results
  <1>1. /\ failed' \in SUBSET Host
        /\ UNCHANGED <<cfg, todo, changed>>
    BY DEF TypeOK, HostFailed
  <1>2. \/ Ends("error")
        \/ pc' = "rolling" /\ UNCHANGED <<job, result>>
    BY DEF HostFailed
  <1>3. job' \in Job /\ pc' \in {"idle", "rolling"} /\ result' \in Results
    BY <1>2, NoJobType DEF TypeOK, Ends, Results
  <1>4. QED
    BY <1>1, <1>3 DEF TypeOK

LEMMA GoneTypes ==
    ASSUME TypeOK, ListGone
    PROVE  remote' \in [Host -> HostRecord] /\ listExists' \in BOOLEAN
  BY DEF TypeOK, ListGone, HostRecord

LEMMA CutTypes ==
    ASSUME TypeOK, Shape, CutOff
    PROVE  remote' \in [Host -> HostRecord] /\ listExists' \in BOOLEAN
  <1>1. CASE pc = "updating"
    <2>1. MayLand(Turn(todo), Written(Turn(todo))) /\ UNCHANGED listExists
      BY <1>1 DEF CutOff
    <2>2. Turn(todo) \in Host
      BY <1>1, TurnChosen DEF Shape, Sending, TypeOK
    <2>3. QED
      BY <2>1, <2>2, RecordTypes, LandTypes DEF TypeOK
  <1>2. CASE pc = "restoring"
    <2>1. MayLand(Turn(todo), Restored(Turn(todo))) /\ UNCHANGED listExists
      BY <1>2 DEF CutOff
    <2>2. Turn(todo) \in Host
      BY <1>2, TurnChosen DEF Shape, Sending, TypeOK
    <2>3. QED
      BY <2>1, <2>2, RecordTypes, LandTypes DEF TypeOK
  <1>3. CASE pc = "rolling"
    <2> DEFINE h == changed[Len(changed)]
    <2>1. MayLand(h, RolledBack(h)) /\ UNCHANGED listExists
      BY <1>3 DEF CutOff
    <2>2. h \in Host
      BY <1>3, ButLast DEF Shape, TypeOK
    <2> HIDE DEF h
    <2>3. QED
      BY <2>1, <2>2, RecordTypes, LandTypes DEF TypeOK
  <1>4. CASE pc = "deleting"
    <2>1. ListGone \/ UNCHANGED <<remote, listExists>>
      BY <1>4 DEF CutOff
    <2>2. QED
      BY <2>1, GoneTypes DEF TypeOK
  <1>5. CASE pc \notin {"updating", "restoring", "rolling", "deleting"}
    <2>1. UNCHANGED <<remote, listExists>>
      BY <1>5 DEF CutOff
    <2>2. QED
      BY <2>1 DEF TypeOK
  <1>6. QED
    BY <1>1, <1>2, <1>3, <1>4, <1>5

LEMMA TypeStep == TypeOK /\ Shape /\ [Next]_vars => TypeOK'
  <1> SUFFICES ASSUME TypeOK, Shape, [Next]_vars PROVE TypeOK'
    OBVIOUS
  <1> USE DEF Results
  <1>1. ASSUME NEW kind \in {"enable", "sync", "disable"}, NEW all \in BOOLEAN,
               Begin(kind, all)
        PROVE  TypeOK'
    <2>1. job' \in Job /\ want' \in [Host -> 0..MaxPolicy] /\ changed' \in Seq(Host)
      BY <1>1, ConstantsAssumption DEF Begin, TypeOK, Job, Config
    <2>2. ops' \in 0..MaxOps /\ pc' = "fetching"
      BY <1>1, ConstantsAssumption DEF Begin, TypeOK
    <2>3. QED
      BY <1>1, <2>1, <2>2 DEF Begin, TypeOK
  <1>2. CASE Fetched
    <2>1. want' \in [Host -> 0..MaxPolicy]
      BY <1>2, ConstantsAssumption DEF Fetched, TypeOK
    <2>2. todo' \in SUBSET Host
      BY <1>2, ConstantsAssumption, TargetTypes DEF Fetched, Stale, OperationIds, TypeOK, Config
    <2>3. /\ pc' \in {"idle", "updating"} /\ result' \in Results
          /\ job' \in Job /\ cfg' \in Config
      <3>1. CASE Ends("error") /\ UNCHANGED cfg
        BY <3>1, NoJobType DEF Ends, TypeOK
      <3>2. CASE Succeeds(want')
        <4>1. cfg' \in Config
          BY <2>1, <3>2, StoredTypes DEF Succeeds
        <4>2. QED
          BY <3>2, <4>1, NoJobType DEF Succeeds, Ends
      <3>3. CASE pc' = "updating" /\ UNCHANGED <<cfg, job, result>>
        BY <3>3 DEF TypeOK
      <3>4. QED
        BY <1>2, <3>1, <3>2, <3>3 DEF Fetched
    <2>4. QED
      BY <1>2, <2>1, <2>2, <2>3 DEF Fetched, TypeOK
  <1>3. CASE FetchFails
    BY <1>3, NoJobType DEF FetchFails, Ends, TypeOK
  <1>4. CASE UpdateSucceeds
    <2> DEFINE h == Turn(todo)
    <2>1. h \in Host
      BY <1>4, TurnChosen DEF UpdateSucceeds, Shape, Sending, TypeOK
    <2>2. Lands(h, Written(h))
      BY <1>4 DEF UpdateSucceeds
    <2>3. \/ HostDone(h)
          \/ pc' = "deleting" /\ UNCHANGED <<cfg, job, todo, changed, result>>
      BY <1>4 DEF UpdateSucceeds
    <2>4. UNCHANGED <<listExists, policy, snap, want, failed, edited, edits, ops>>
      BY <1>4 DEF UpdateSucceeds
    <2> HIDE DEF h
    <2>5. remote' \in [Host -> HostRecord]
      BY <2>1, <2>2, RecordTypes, LandTypes DEF MayLand
    <2>6. CASE HostDone(h)
      BY <2>1, <2>4, <2>5, <2>6, DoneTypes DEF TypeOK
    <2>7. CASE pc' = "deleting" /\ UNCHANGED <<cfg, job, todo, changed, result>>
      BY <2>4, <2>5, <2>7 DEF TypeOK
    <2>8. QED
      BY <2>3, <2>6, <2>7
  <1>5. CASE UpdateFails
    <2> DEFINE h == Turn(todo)
    <2>1. h \in Host
      BY <1>5, TurnChosen DEF UpdateFails, Shape, Sending, TypeOK
    <2>2. MayLand(h, Written(h)) /\ HostFailed(h)
      BY <1>5 DEF UpdateFails
    <2>3. UNCHANGED <<listExists, policy, snap, want, edited, edits, ops>>
      BY <1>5 DEF UpdateFails
    <2> HIDE DEF h
    <2>4. remote' \in [Host -> HostRecord]
      BY <2>1, <2>2, RecordTypes, LandTypes
    <2>5. QED
      BY <2>1, <2>2, <2>3, <2>4, FailedTypes DEF TypeOK
  <1>6. CASE UpdateRejected
    <2> DEFINE h == Turn(todo)
    <2>1. h \in Host
      BY <1>6, TurnChosen DEF UpdateRejected, Shape, Sending, TypeOK
    <2>2. Lands(h, Written(h)) /\ failed' = failed \cup {h} /\ pc' = "checking"
      BY <1>6 DEF UpdateRejected
    <2> HIDE DEF h
    <2>3. remote' \in [Host -> HostRecord]
      BY <2>1, <2>2, RecordTypes, LandTypes DEF MayLand
    <2>4. QED
      BY <1>6, <2>1, <2>2, <2>3 DEF UpdateRejected, TypeOK
  <1>7. CASE Checked \/ CheckFails
    <2> DEFINE h == Turn(todo)
    <2>1. h \in Host
      BY <1>7, TurnChosen DEF Checked, CheckFails, Shape, Sending, TypeOK
    <2>2. \/ pc' = "restoring" /\ UNCHANGED <<cfg, job, todo, changed, failed, result>>
          \/ HostFailed(h)
      BY <1>7 DEF Checked, CheckFails
    <2>3. UNCHANGED <<remote, listExists, policy, snap, want, edited, edits, ops>>
      BY <1>7 DEF Checked, CheckFails
    <2> HIDE DEF h
    <2>4. CASE pc' = "restoring" /\ UNCHANGED <<cfg, job, todo, changed, failed, result>>
      BY <2>3, <2>4 DEF TypeOK
    <2>5. CASE HostFailed(h)
      BY <2>1, <2>3, <2>5, FailedTypes DEF TypeOK
    <2>6. QED
      BY <2>2, <2>4, <2>5
  <1>8. CASE RestoreEnds
    <2> DEFINE h == Turn(todo)
    <2>1. h \in Host
      BY <1>8, TurnChosen DEF RestoreEnds, Shape, Sending, TypeOK
    <2>2. MayLand(h, Restored(h)) /\ HostFailed(h)
      BY <1>8 DEF RestoreEnds, MayLand
    <2>3. UNCHANGED <<listExists, policy, snap, want, edited, edits, ops>>
      BY <1>8 DEF RestoreEnds
    <2> HIDE DEF h
    <2>4. remote' \in [Host -> HostRecord]
      BY <2>1, <2>2, RecordTypes, LandTypes
    <2>5. QED
      BY <2>1, <2>2, <2>3, <2>4, FailedTypes DEF TypeOK
  <1>9. CASE DeleteSucceeds
    <2>1. HostDone(Selected) /\ Selected \in Host
      BY <1>9, ConstantsAssumption DEF DeleteSucceeds
    <2>2. QED
      BY <1>9, <2>1, DoneTypes, GoneTypes DEF DeleteSucceeds, TypeOK
  <1>10. CASE DeleteFails
    <2>1. HostFailed(Selected) /\ Selected \in Host
      BY <1>10, ConstantsAssumption DEF DeleteFails
    <2>2. remote' \in [Host -> HostRecord] /\ listExists' \in BOOLEAN
      BY <1>10, GoneTypes DEF DeleteFails, TypeOK
    <2>3. QED
      BY <1>10, <2>1, <2>2, FailedTypes DEF DeleteFails, TypeOK
  <1>11. CASE RollBack
    <2> DEFINE h == changed[Len(changed)]
    <2>1. changed # <<>>
      BY <1>11 DEF RollBack, Shape
    <2>2. h \in Host /\ changed' \in Seq(Host)
      BY <1>11, <2>1, ButLast DEF RollBack, TypeOK
    <2>3. MayLand(h, RolledBack(h)) /\ (UNCHANGED failed \/ failed' = failed \cup {h})
      BY <1>11 DEF RollBack, MayLand
    <2>4. Ends("error") \/ UNCHANGED <<pc, job, result>>
      BY <1>11 DEF RollBack
    <2>5. UNCHANGED <<listExists, policy, cfg, snap, want, todo, edited, edits, ops>>
      BY <1>11 DEF RollBack
    <2> HIDE DEF h
    <2>6. remote' \in [Host -> HostRecord]
      BY <2>2, <2>3, RecordTypes, LandTypes
    <2>7. pc' \in {"idle", "rolling"} /\ job' \in Job /\ result' \in Results
      BY <1>11, <2>4, NoJobType DEF RollBack, Ends, TypeOK
    <2>8. QED
      BY <2>2, <2>3, <2>5, <2>6, <2>7 DEF TypeOK
  <1>12. CASE CutOff
    <2>1. UNCHANGED <<policy, cfg, snap, want, todo, changed, failed, edited, edits, ops>>
      BY <1>12 DEF CutOff
    <2>2. pc' = "idle" /\ result' = "cut" /\ job' \in Job
      BY <1>12, NoJobType DEF CutOff, Ends
    <2>3. QED
      BY <1>12, <2>1, <2>2, CutTypes DEF TypeOK
  <1>13. CASE SetPolicy
    BY <1>13, ConstantsAssumption DEF SetPolicy, TypeOK
  <1>14. ASSUME NEW h \in Host, OwnerChanges(h) PROVE TypeOK'
    <2>1. PICK r \in {[remote[h] EXCEPT !.user = u] : u \in Directives}
                       \cup {[remote[h] EXCEPT !.block = 0],
                             [remote[h] EXCEPT !.active = ~ @]} : Lands(h, r)
      BY <1>14 DEF OwnerChanges
    <2>2. r \in HostRecord
      <3>1. remote[h] \in HostRecord /\ 0 \in 0..MaxPolicy
        BY ConstantsAssumption DEF TypeOK
      <3>2. ASSUME NEW u \in Directives, r = [remote[h] EXCEPT !.user = u]
            PROVE  r \in HostRecord
        BY <3>1, <3>2 DEF HostRecord
      <3>3. CASE r = [remote[h] EXCEPT !.block = 0]
        BY <3>1, <3>3 DEF HostRecord
      <3>4. CASE r = [remote[h] EXCEPT !.active = ~ @]
        BY <3>1, <3>4 DEF HostRecord
      <3>5. QED
        BY <2>1, <3>2, <3>3, <3>4
    <2>3. remote' \in [Host -> HostRecord]
      BY <2>1, <2>2, LandTypes DEF MayLand
    <2>4. edits' \in 0..MaxEdits
      BY <1>14, ConstantsAssumption DEF OwnerChanges, TypeOK
    <2>5. QED
      BY <1>14, <2>3, <2>4 DEF OwnerChanges, TypeOK
  <1>15. CASE UNCHANGED vars
    BY <1>15 DEF vars, TypeOK
  <1>16. QED
    BY <1>1, <1>2, <1>3, <1>4, <1>5, <1>6, <1>7, <1>8, <1>9, <1>10, <1>11, <1>12,
       <1>13, <1>14, <1>15 DEF Next, Answered

-----------------------------------------------------------------------------
(* What an update makes of a host.                                          *)

LEMMA WrittenFields ==
    ASSUME TypeOK, NEW h \in Host
    PROVE  /\ Written(h).block = want[h] /\ Written(h).active = remote[h].active
           /\ Written(h).list => remote[h].list
  <1>1. remote[h] \in HostRecord /\ snap[h] \in HostRecord
    BY DEF TypeOK
  <1>2. QED
    BY <1>1 DEF Written, HostRecord

LEMMA RestoredFields ==
    ASSUME TypeOK, NEW h \in Host
    PROVE  /\ Restored(h).active = remote[h].active
           /\ Restored(h).list => remote[h].list \/ snap[h].list
  <1>1. remote[h] \in HostRecord /\ snap[h] \in HostRecord
    BY DEF TypeOK
  <1>2. QED
    BY <1>1 DEF Restored, HostRecord

LEMMA RolledBackFields ==
    ASSUME TypeOK, NEW h \in Host
    PROVE  /\ RolledBack(h).active = remote[h].active
           /\ RolledBack(h).list = snap[h].list
           /\ remote[h].active = snap[h].active => RolledBack(h) = snap[h]
  <1>1. remote[h] \in HostRecord /\ snap[h] \in HostRecord
    BY DEF TypeOK
  <1>2. /\ RolledBack(h).active = remote[h].active
        /\ RolledBack(h).list = snap[h].list
    BY <1>1 DEF RolledBack, HostRecord
  <1>3. ASSUME remote[h].active = snap[h].active PROVE RolledBack(h) = snap[h]
    BY <1>1, <1>3 DEF RolledBack, HostRecord
  <1>4. QED
    BY <1>2, <1>3

LEMMA GoneFields ==
    ASSUME TypeOK, ListGone, NEW h \in Host
    PROVE  /\ remote'[h].active = remote[h].active /\ remote'[h].block = remote[h].block
           /\ ~ remote'[h].list
           /\ ~ remote[h].list => remote'[h] = remote[h]
  <1>1. remote[h] \in HostRecord /\ remote'[h] = [remote[h] EXCEPT !.list = FALSE]
    BY DEF TypeOK, ListGone
  <1>2. QED
    BY <1>1 DEF HostRecord

\* A request changes its host or nothing.
LEMMA OneHost ==
    ASSUME TypeOK, NEW h \in Host, NEW r, MayLand(h, r)
    PROVE  /\ remote'[h] = r \/ remote'[h] = remote[h]
           /\ \A k \in Host : k # h => remote'[k] = remote[k]
  BY DEF TypeOK, MayLand, Lands

LEMMA HostLands ==
    ASSUME TypeOK, NEW h \in Host, NEW r, Lands(h, r)
    PROVE  /\ remote'[h] = r
           /\ \A k \in Host : k # h => remote'[k] = remote[k]
  BY DEF TypeOK, Lands

-----------------------------------------------------------------------------
(* The invariant, step by step.                                             *)

\* With no transaction running only the references matter.
LEMMA IdleRest ==
    ASSUME pc' = "idle"
    PROVE  Shape' /\ Untouched' /\ Complete'
  BY DEF Shape, Untouched, Complete, Sending, Started, Deleting

\* A step that adds no reference, and takes the list away with them.
LEMMA ReferencesKept ==
    ASSUME References, UNCHANGED snap,
           Sending' => Sending,
           \A h \in Host : remote'[h].list => remote[h].list \/ (Sending /\ snap[h].list),
           \/ UNCHANGED listExists
           \/ (\A h \in Host : ~ remote'[h].list) /\ ~ Sending'
    PROVE  References'
  <1>1. \A h \in Host : remote'[h].list \/ snap'[h].list => h = Selected
    BY DEF References
  <1>2. ASSUME NEW h \in Host, remote'[h].list PROVE listExists'
    <2>1. UNCHANGED listExists
      BY <1>2
    <2>2. CASE remote[h].list
      BY <2>1, <2>2 DEF References, ListOutlivesReferences
    <2>3. CASE Sending /\ snap[h].list
      BY <2>1, <2>3 DEF References
    <2>4. QED
      BY <1>2, <2>2, <2>3
  <1>3. Sending' => (snap'[Selected].list => listExists')
    BY DEF References
  <1>4. QED
    BY <1>1, <1>2, <1>3 DEF References, ListOutlivesReferences

\* A host is done: the transaction succeeds, or goes on with the next one.
LEMMA DoneStep ==
    ASSUME TypeOK, Shape, Untouched, NEW h \in Host, HostDone(h),
           Sending, h # Selected \/ todo = {Selected},
           UNCHANGED <<snap, want, failed, edited>>,
           \A k \in Host : k # h => remote'[k] = remote[k],
           remote'[h].active = remote[h].active, remote'[h].block = want[h],
           pc # "deleting", Complete
    PROVE  Shape' /\ Untouched' /\ Complete'
  <1>1. CASE todo' = {}
    BY <1>1, IdleRest DEF HostDone, Succeeds, Ends
  <1>2. CASE todo' # {}
    <2>1. pc' = "updating" /\ todo' = todo \ {h} /\ changed' = Append(changed, h)
      BY <1>2 DEF HostDone
    <2>2. h # Selected
      BY <1>2, <2>1
    <2>3. \A k : HasChanged(k)' <=> HasChanged(k) \/ k = h
      BY <2>1, Appended DEF TypeOK
    <2>4. Shape'
      BY <1>2, <2>1, <2>2, <2>3 DEF Shape, Sending, Started
    <2>5. Untouched'
      BY <2>1, <2>3 DEF Untouched, Sending, Started, Deleting
    <2>6. Complete'
      BY <2>1 DEF Complete, Sending, Deleting
    <2>7. QED
      BY <2>4, <2>5, <2>6
  <1>3. QED
    BY <1>1, <1>2

\* A request for a host failed: the transaction ends or the others go back.
LEMMA FailedStep ==
    ASSUME TypeOK, Shape, Untouched, NEW h \in Host, HostFailed(h),
           Sending, Deleting(h) \/ pc # "deleting",
           UNCHANGED <<snap, edited>>,
           \A k \in Host : k # h => remote'[k] = remote[k],
           remote'[h].active = remote[h].active
    PROVE  /\ Shape' /\ Untouched' /\ Complete'
           /\ ~ Sending'
           /\ pc' = "idle" => \A k \in Host \ (edited' \cup failed') : remote'[k] = snap[k]
  <1>1. failed' = failed \cup {h} /\ UNCHANGED <<todo, changed>>
    BY DEF HostFailed
  <1>2. \A k \in Host \ (edited \cup failed') : HasChanged(k) \/ remote'[k] = snap[k]
    BY <1>1 DEF Untouched, Started, Sending, Deleting
  <1>3. CASE changed = <<>>
    <2>1. pc' = "idle"
      BY <1>3 DEF HostFailed, Ends
    <2>2. \A k : ~ HasChanged(k)
      BY <1>3, Len(<<>>) = 0 DEF HasChanged
    <2>3. QED
      BY <1>2, <2>1, <2>2, IdleRest DEF Sending
  <1>4. CASE changed # <<>>
    <2>1. pc' = "rolling"
      BY <1>4 DEF HostFailed
    <2>2. \A k : HasChanged(k)' <=> HasChanged(k)
      BY <1>1 DEF HasChanged
    <2>3. Shape'
      BY <1>1, <1>4, <2>1, <2>2 DEF Shape, Sending, Started
    <2>4. Untouched'
      BY <1>1, <1>2, <2>1, <2>2 DEF Untouched, Sending, Started, Deleting
    <2>5. Complete' /\ ~ Sending'
      BY <2>1 DEF Complete, Sending
    <2>6. QED
      BY <2>1, <2>3, <2>4, <2>5
  <1>5. QED
    BY <1>3, <1>4

LEMMA FetchedStep ==
    ASSUME Inv, Fetched
    PROVE  Shape' /\ References' /\ Untouched' /\ Complete'
  <1>1. /\ pc = "fetching" /\ snap' = remote /\ edited' = {} /\ todo' = Stale(want')
        /\ want' = [h \in Host |-> IF h \in Targets THEN policy ELSE 0]
        /\ UNCHANGED <<remote, listExists, changed, failed>>
    BY DEF Fetched
  <1>2. References'
    BY <1>1, ConstantsAssumption DEF Inv, References, ListOutlivesReferences
  <1>3. ASSUME NEW h \in Host, h \notin todo' PROVE remote'[h].block = want'[h]
    <2>1. CASE h \in OperationIds
      BY <1>1, <1>3, <2>1 DEF Stale
    <2>2. CASE h \notin OperationIds
      BY <1>1, <2>2 DEF OperationIds
    <2>3. QED
      BY <2>1, <2>2
  <1>4. CASE pc' = "idle"
    BY <1>2, <1>4, IdleRest
  <1>5. CASE pc' = "updating" /\ todo' # {}
    <2>1. \A k : ~ HasChanged(k)'
      BY <1>1, Len(<<>>) = 0 DEF Inv, Shape, HasChanged
    <2>2. Shape'
      BY <1>5, <2>1 DEF Shape, Sending, Started
    <2>3. Untouched'
      BY <1>1 DEF Untouched
    <2>4. Complete'
      BY <1>3, <1>5 DEF Complete, Deleting
    <2>5. QED
      BY <1>2, <2>2, <2>3, <2>4
  <1>6. pc' = "idle" \/ (pc' = "updating" /\ todo' # {})
    BY DEF Fetched, Ends, Succeeds
  <1>7. QED
    BY <1>4, <1>5, <1>6

LEMMA UpdateSucceedsStep ==
    ASSUME Inv, UpdateSucceeds
    PROVE  Shape' /\ References' /\ Untouched' /\ Complete'
  <1> DEFINE h == Turn(todo)
  <1>1. pc = "updating" /\ UNCHANGED <<listExists, snap, want, failed, edited>>
    BY DEF UpdateSucceeds
  <1>2. h \in Host /\ (h # Selected \/ todo = {Selected})
    BY <1>1, TurnChosen, SelectedLast DEF Inv, Shape, Sending, TypeOK
  <1>3. Lands(h, Written(h))
    BY DEF UpdateSucceeds
  <1>4. \/ HostDone(h)
        \/ h = Selected /\ pc' = "deleting" /\ UNCHANGED <<todo, changed>>
    BY DEF UpdateSucceeds
  <1> HIDE DEF h
  <1>5. /\ remote'[h].block = want[h] /\ remote'[h].active = remote[h].active
        /\ remote'[h].list => remote[h].list
        /\ \A k \in Host : k # h => remote'[k] = remote[k]
    BY <1>2, <1>3, HostLands, WrittenFields DEF Inv
  <1>6. References'
    <2>1. \A k \in Host : remote'[k].list => remote[k].list
      BY <1>5
    <2>2. References /\ Sending
      BY <1>1 DEF Inv, Sending
    <2>3. QED
      BY <1>1, <2>1, <2>2, ReferencesKept
  <1>7. CASE HostDone(h)
    BY <1>1, <1>2, <1>5, <1>6, <1>7, DoneStep DEF Inv, Sending
  <1>8. CASE h = Selected /\ pc' = "deleting" /\ UNCHANGED <<todo, changed>>
    <2>1. \A k : HasChanged(k)' <=> HasChanged(k)
      BY <1>8 DEF HasChanged
    <2>2. Shape'
      BY <1>1, <1>2, <1>8, <2>1 DEF Inv, Shape, Sending, Started
    <2>3. Untouched'
      BY <1>1, <1>5, <1>8, <2>1 DEF Inv, Untouched, Sending, Started, Deleting
    <2>4. Complete'
      BY <1>1, <1>5, <1>8 DEF Inv, Complete, Sending, Deleting
    <2>5. QED
      BY <1>6, <2>2, <2>3, <2>4
  <1>9. QED
    BY <1>4, <1>7, <1>8

LEMMA UpdateRejectedStep ==
    ASSUME Inv, UpdateRejected
    PROVE  Shape' /\ References' /\ Untouched' /\ Complete'
  <1> DEFINE h == Turn(todo)
  <1>1. /\ pc = "updating" /\ pc' = "checking" /\ failed' = failed \cup {h}
        /\ UNCHANGED <<listExists, snap, want, todo, changed, edited>>
    BY DEF UpdateRejected
  <1>2. h \in Host /\ h \in todo
    BY <1>1, TurnChosen DEF Inv, Shape, Sending, TypeOK
  <1>3. Lands(h, Written(h))
    BY DEF UpdateRejected
  <1> HIDE DEF h
  <1>4. /\ remote'[h].block = want[h] /\ remote'[h].active = remote[h].active
        /\ remote'[h].list => remote[h].list
        /\ \A k \in Host : k # h => remote'[k] = remote[k]
    BY <1>2, <1>3, HostLands, WrittenFields DEF Inv
  <1>5. References'
    BY <1>1, <1>2, <1>4, ReferencesKept DEF Inv, Sending
  <1>6. \A k : HasChanged(k)' <=> HasChanged(k)
    BY <1>1 DEF HasChanged
  <1>7. Shape'
    BY <1>1, <1>6 DEF Inv, Shape, Sending, Started
  <1>8. Untouched'
    BY <1>1, <1>4, <1>6 DEF Inv, Untouched, Sending, Started, Deleting
  <1>9. Complete'
    BY <1>1, <1>2, <1>4 DEF Inv, Complete, Sending, Deleting
  <1>10. QED
    BY <1>5, <1>7, <1>8, <1>9

\* The failing requests of the host whose turn it is.
FailedRequest == UpdateFails \/ CheckFails \/ RestoreEnds \/ DeleteFails
                   \/ (Checked /\ pc' # "restoring")

LEMMA FailedRequestStep ==
    ASSUME Inv, FailedRequest
    PROVE  /\ Shape' /\ References' /\ Untouched' /\ Complete'
           /\ pc' = "idle" => \A k \in Host \ (edited' \cup failed') : remote'[k] = snap[k]
  <1> DEFINE h == Turn(todo)
  <1>1. Sending /\ UNCHANGED <<snap, edited>>
    BY DEF FailedRequest, UpdateFails, CheckFails, RestoreEnds, DeleteFails, Checked, Sending
  <1>2. h \in Host
    BY <1>1, TurnChosen DEF Inv, Shape, TypeOK
  <1>3. HostFailed(h)
    <2>1. pc = "deleting" => h = Selected
      BY <1>1, TurnChosen, ConstantsAssumption DEF Inv, Shape
    <2>2. QED
      BY <2>1 DEF FailedRequest, UpdateFails, CheckFails, RestoreEnds, DeleteFails, Checked
  <1>4. Deleting(h) \/ pc # "deleting"
    BY <1>1, TurnChosen, ConstantsAssumption DEF Inv, Shape, Deleting
  <1>5. \/ MayLand(h, Written(h)) /\ UNCHANGED listExists
        \/ MayLand(h, Restored(h)) /\ UNCHANGED listExists
        \/ UNCHANGED <<remote, listExists>>
        \/ ListGone /\ h = Selected
    BY <1>4 DEF FailedRequest, UpdateFails, CheckFails, RestoreEnds, DeleteFails, Checked,
                MayLand, Deleting
  <1> HIDE DEF h
  <1>6. /\ remote'[h].active = remote[h].active
        /\ \A k \in Host : k # h => remote'[k] = remote[k]
        /\ \A k \in Host : remote'[k].list => remote[k].list \/ (Sending /\ snap[k].list)
        /\ UNCHANGED listExists \/ \A k \in Host : ~ remote'[k].list
    <2>1. CASE MayLand(h, Written(h)) /\ UNCHANGED listExists
      BY <1>2, <2>1, OneHost, WrittenFields DEF Inv
    <2>2. CASE MayLand(h, Restored(h)) /\ UNCHANGED listExists
      BY <1>1, <1>2, <2>2, OneHost, RestoredFields DEF Inv
    <2>3. CASE UNCHANGED <<remote, listExists>>
      BY <2>3
    <2>4. CASE ListGone /\ h = Selected
      BY <1>2, <2>4, GoneFields DEF Inv, References
    <2>5. QED
      BY <1>5, <2>1, <2>2, <2>3, <2>4
  <1>7. /\ Shape' /\ Untouched' /\ Complete' /\ ~ Sending'
        /\ pc' = "idle" => \A k \in Host \ (edited' \cup failed') : remote'[k] = snap[k]
    BY <1>1, <1>2, <1>3, <1>4, <1>6, FailedStep DEF Inv
  <1>8. References'
    BY <1>1, <1>6, <1>7, ReferencesKept DEF Inv
  <1>9. QED
    BY <1>7, <1>8

LEMMA RollBackStep ==
    ASSUME Inv, RollBack
    PROVE  /\ Shape' /\ References' /\ Untouched' /\ Complete'
           /\ pc' = "idle" => \A k \in Host \ (edited' \cup failed') : remote'[k] = snap[k]
  <1> DEFINE h == changed[Len(changed)]
  <1>1. /\ pc = "rolling" /\ changed # <<>> /\ changed \in Seq(Host)
        /\ changed' = SubSeq(changed, 1, Len(changed) - 1)
        /\ UNCHANGED <<listExists, snap, want, todo, edited>>
    BY DEF RollBack, Inv, Shape, TypeOK
  <1>2. h \in Host /\ HasChanged(h) /\ h # Selected
    BY <1>1, Shortened DEF Inv, Shape, Started
  <1>3. /\ \A k : HasChanged(k)' => HasChanged(k)
        /\ \A k : HasChanged(k) => HasChanged(k)' \/ k = h
        /\ changed' = <<>> => \A k : ~ HasChanged(k)'
    BY <1>1, Shortened
  <1>4. \/ Lands(h, RolledBack(h)) /\ UNCHANGED failed
        \/ MayLand(h, RolledBack(h)) /\ failed' = failed \cup {h}
    BY DEF RollBack
  <1>5. \/ pc' = "idle" /\ changed' = <<>>
        \/ pc' = "rolling" /\ changed' # <<>>
    BY <1>1 DEF RollBack, Ends
  <1> HIDE DEF h
  <1>6. /\ remote'[h].active = remote[h].active
        /\ remote'[h].list => remote[h].list
        /\ \A k \in Host : k # h => remote'[k] = remote[k]
    <2>1. ~ snap[h].list
      BY <1>2 DEF Inv, References
    <2>2. ~ RolledBack(h).list /\ RolledBack(h).active = remote[h].active
      BY <1>2, <2>1, RolledBackFields DEF Inv
    <2>3. MayLand(h, RolledBack(h))
      BY <1>4 DEF MayLand
    <2>4. QED
      BY <1>2, <2>2, <2>3, OneHost DEF Inv
  <1>7. References'
    <2>1. \A k \in Host : remote'[k].list => remote[k].list
      BY <1>6
    <2>2. ~ Sending'
      BY <1>5 DEF Sending
    <2>3. QED
      BY <1>1, <2>1, <2>2, ReferencesKept DEF Inv
  <1>8. ASSUME NEW k \in Host \ edited
        PROVE  /\ remote'[k].active = snap[k].active
               /\ k \notin failed' => HasChanged(k)' \/ remote'[k] = snap[k]
    <2>1. /\ remote[k].active = snap[k].active
          /\ k \notin failed => HasChanged(k) \/ remote[k] = snap[k]
      BY <1>1 DEF Inv, Untouched, Started, Deleting
    <2>2. CASE k # h
      BY <1>3, <1>4, <1>6, <2>1, <2>2
    <2>3. CASE k = h
      <3>1. Lands(h, RolledBack(h)) => remote'[h] = snap[h]
        BY <1>2, <2>1, <2>3, HostLands, RolledBackFields DEF Inv
      <3>2. QED
        BY <1>4, <1>6, <2>1, <2>3, <3>1
    <2>4. QED
      BY <2>2, <2>3
  <1>9. CASE pc' = "idle" /\ changed' = <<>>
    BY <1>1, <1>3, <1>7, <1>8, <1>9, IdleRest
  <1>10. CASE pc' = "rolling" /\ changed' # <<>>
    <2>1. Shape'
      BY <1>1, <1>3, <1>10 DEF Inv, Shape, Sending, Started
    <2>2. Untouched'
      BY <1>1, <1>8 DEF Untouched
    <2>3. Complete'
      BY <1>10 DEF Complete, Sending
    <2>4. QED
      BY <1>7, <1>10, <2>1, <2>2, <2>3
  <1>11. QED
    BY <1>5, <1>9, <1>10

LEMMA CutStep ==
    ASSUME Inv, CutOff
    PROVE  Shape' /\ References' /\ Untouched' /\ Complete'
  <1>1. pc' = "idle" /\ UNCHANGED snap
    BY DEF CutOff, Ends
  <1>2. ~ Sending'
    BY <1>1 DEF Sending
  <1>3. /\ \A k \in Host : remote'[k].list => remote[k].list \/ (Sending /\ snap[k].list)
        /\ UNCHANGED listExists \/ \A k \in Host : ~ remote'[k].list
    <2>1. CASE pc \in {"updating", "restoring"}
      <3> DEFINE h == Turn(todo)
      <3>1. h \in Host /\ Sending
        BY <2>1, TurnChosen DEF Inv, Shape, Sending, TypeOK
      <3>2. /\ MayLand(h, Written(h)) \/ MayLand(h, Restored(h))
            /\ UNCHANGED listExists
        BY <2>1 DEF CutOff
      <3> HIDE DEF h
      <3>3. QED
        BY <3>1, <3>2, OneHost, WrittenFields, RestoredFields DEF Inv
    <2>2. CASE pc = "rolling"
      <3> DEFINE h == changed[Len(changed)]
      <3>1. h \in Host /\ h # Selected
        <4>1. h \in Host /\ HasChanged(h)
          BY <2>2, ButLast DEF Inv, Shape, TypeOK, HasChanged
        <4>2. QED
          BY <2>2, <4>1 DEF Inv, Shape, Started
      <3>2. MayLand(h, RolledBack(h)) /\ UNCHANGED listExists
        BY <2>2 DEF CutOff
      <3> HIDE DEF h
      <3>3. ~ RolledBack(h).list
        BY <3>1, RolledBackFields DEF Inv, References
      <3>4. QED
        BY <3>1, <3>2, <3>3, OneHost DEF Inv
    <2>3. CASE pc = "deleting"
      BY <2>3, GoneFields DEF CutOff, Inv
    <2>4. CASE pc \notin {"updating", "restoring", "rolling", "deleting"}
      BY <2>4 DEF CutOff
    <2>5. QED
      BY <2>1, <2>2, <2>3, <2>4
  <1>4. References'
    BY <1>1, <1>2, <1>3, ReferencesKept DEF Inv
  <1>5. QED
    BY <1>1, <1>4, IdleRest

LEMMA OwnerStep ==
    ASSUME Inv, NEW h \in Host, OwnerChanges(h)
    PROVE  Shape' /\ References' /\ Untouched' /\ Complete'
  <1>1. /\ UNCHANGED <<listExists, pc, snap, want, todo, changed, failed>>
        /\ edited' = edited \cup {h}
    BY DEF OwnerChanges
  <1>2. \A k : HasChanged(k)' <=> HasChanged(k)
    BY <1>1 DEF HasChanged
  <1>3. /\ remote'[h].list => remote[h].list
        /\ \A k \in Host : k # h => remote'[k] = remote[k]
    <2>1. PICK r \in {[remote[h] EXCEPT !.user = u] : u \in Directives}
                       \cup {[remote[h] EXCEPT !.block = 0],
                             [remote[h] EXCEPT !.active = ~ @]} : Lands(h, r)
      BY DEF OwnerChanges
    <2>2. remote[h] \in HostRecord
      BY DEF Inv, TypeOK
    <2>3. r.list = remote[h].list
      BY <2>1, <2>2 DEF HostRecord
    <2>4. QED
      BY <2>1, <2>3, HostLands DEF Inv
  <1>4. Shape'
    BY <1>1, <1>2 DEF Inv, Shape, Sending, Started
  <1>5. References'
    <2>1. Sending' => Sending
      BY <1>1 DEF Sending
    <2>2. \A k \in Host : remote'[k].list => remote[k].list
      BY <1>3
    <2>3. QED
      BY <1>1, <2>1, <2>2, ReferencesKept DEF Inv
  <1>6. Untouched'
    BY <1>1, <1>2, <1>3 DEF Inv, Untouched, Sending, Started, Deleting
  <1>7. Complete'
    BY <1>1, <1>3 DEF Inv, Complete, Sending, Deleting
  <1>8. QED
    BY <1>4, <1>5, <1>6, <1>7

-----------------------------------------------------------------------------
(* Theorems.                                                                *)

LEMMA InitInv == Init => Inv
  <1> SUFFICES ASSUME Init PROVE Inv
    OBVIOUS
  <1>1. PICK e \in BOOLEAN :
           cfg = [enabled |-> e, all |-> FALSE, managed |-> {}, list |-> e]
    BY DEF Init
  <1>2. cfg \in Config /\ listExists = e /\ cfg.list = e
    BY <1>1 DEF Init, Config
  <1>3. PICK on \in [Host -> BOOLEAN] :
           remote = [h \in Host |->
                       [user |-> CHOOSE u \in Directives : TRUE, block |-> 0,
                        active |-> on[h], list |-> h = Selected /\ cfg.list]]
    BY DEF Init
  <1>4. /\ remote \in [Host -> HostRecord]
        /\ \A h \in Host : remote[h].list => h = Selected /\ listExists
    <2>1. (CHOOSE u \in Directives : TRUE) \in Directives
      BY ConstantsAssumption
    <2>2. 0 \in 0..MaxPolicy
      BY ConstantsAssumption
    <2>3. \A h \in Host : (h = Selected /\ cfg.list) \in BOOLEAN
      OBVIOUS
    <2>4. remote \in [Host -> HostRecord]
      BY <1>3, <2>1, <2>2, <2>3 DEF HostRecord
    <2>5. \A h \in Host : remote[h].list => h = Selected /\ listExists
      BY <1>2, <1>3
    <2>6. QED
      BY <2>4, <2>5
  <1>5. TypeOK
    BY <1>2, <1>4, NoJobType, ConstantsAssumption DEF Init, TypeOK
  <1>6. Shape /\ Untouched /\ Complete
    BY DEF Init, Shape, Untouched, Complete, Sending, Started, Deleting
  <1>7. References
    BY <1>4 DEF Init, References, ListOutlivesReferences, Sending
  <1>8. QED
    BY <1>5, <1>6, <1>7 DEF Inv

LEMMA InvStep == Inv /\ [Next]_vars => Inv'
  <1> SUFFICES ASSUME Inv, [Next]_vars PROVE Inv'
    OBVIOUS
  <1> DEFINE Rest == Shape /\ References /\ Untouched /\ Complete
  <1>1. TypeOK'
    BY TypeStep DEF Inv
  <1> SUFFICES Rest'
    BY <1>1 DEF Inv
  <1>2. ASSUME NEW kind \in {"enable", "sync", "disable"}, NEW all \in BOOLEAN,
               Begin(kind, all)
        PROVE  Rest'
    <2>1. /\ pc' = "fetching" /\ changed' = <<>> /\ snap' = remote
          /\ UNCHANGED <<remote, listExists>>
      BY <1>2 DEF Begin
    <2>2. Shape' /\ Untouched' /\ Complete'
      BY <2>1 DEF Shape, Untouched, Complete, Sending, Started
    <2>3. References'
      BY <2>1 DEF Inv, References, ListOutlivesReferences, Sending
    <2>4. QED
      BY <2>2, <2>3
  <1>3. CASE FetchFails
    <2>1. pc' = "idle" /\ UNCHANGED <<remote, listExists, snap>>
      BY <1>3 DEF FetchFails, Ends
    <2>2. References'
      BY <2>1 DEF Inv, References, ListOutlivesReferences, Sending
    <2>3. QED
      BY <2>1, <2>2, IdleRest
  <1>4. CASE Checked /\ pc' = "restoring"
    <2>1. /\ pc = "checking" /\ pc' = "restoring"
          /\ UNCHANGED <<remote, listExists, snap, want, todo, changed, failed, edited>>
      BY <1>4 DEF Checked, HostFailed, Ends
    <2>2. \A k : HasChanged(k)' <=> HasChanged(k)
      BY <2>1 DEF HasChanged
    <2>3. QED
      BY <2>1, <2>2 DEF Inv, Shape, References, ListOutlivesReferences, Untouched,
                        Complete, Sending, Started, Deleting
  <1>5. CASE DeleteSucceeds
    <2>1. /\ pc = "deleting" /\ ListGone /\ HostDone(Selected) /\ UNCHANGED snap
          /\ todo = {Selected}
      BY <1>5 DEF DeleteSucceeds, Inv, Shape
    <2>2. pc' = "idle"
      BY <2>1 DEF HostDone, Succeeds, Ends
    <2>3. ~ Sending' /\ \A k \in Host : ~ remote'[k].list
      BY <2>1, <2>2, GoneFields DEF Inv, Sending
    <2>4. References'
      BY <2>1, <2>3, ReferencesKept DEF Inv
    <2>5. QED
      BY <2>2, <2>4, IdleRest
  <1>6. CASE SetPolicy \/ UNCHANGED vars
    <2>1. UNCHANGED <<remote, listExists, pc, snap, want, todo, changed, failed, edited>>
      BY <1>6 DEF SetPolicy, vars
    <2>2. \A k : HasChanged(k)' <=> HasChanged(k)
      BY <2>1 DEF HasChanged
    <2>3. QED
      BY <2>1, <2>2 DEF Inv, Shape, References, ListOutlivesReferences, Untouched,
                        Complete, Sending, Started, Deleting
  <1>7. ASSUME NEW h \in Host, OwnerChanges(h) PROVE Rest'
    BY <1>7, OwnerStep
  <1>8. CASE FailedRequest
    BY <1>8, FailedRequestStep
  <1>9. QED
    BY <1>2, <1>3, <1>4, <1>5, <1>6, <1>7, <1>8, FetchedStep, UpdateSucceedsStep,
       UpdateRejectedStep, RollBackStep, CutStep
    DEF Next, Answered, FailedRequest

\* The inductive invariant holds throughout.
THEOREM InvHolds == Spec => []Inv
  <1>1. QED
    BY InitInv, InvStep, PTL DEF Spec

\* Every variable keeps its type.
THEOREM TypesHold == Spec => []TypeOK
  <1>1. Inv => TypeOK
    BY DEF Inv
  <1>2. QED
    BY <1>1, InvHolds, PTL

\* No host is ever pointed at a legacy access list that was deleted
\* (nginx_proxy_manager.py, _reconcile_proxy_policies).
THEOREM ListIsDeletedLast == Spec => []ListOutlivesReferences
  <1>1. Inv => ListOutlivesReferences
    BY DEF Inv, References
  <1>2. QED
    BY <1>1, InvHolds, PTL

LEMMA SuccessStep ==
    ASSUME Inv, [Next]_vars, pc # "idle", pc' = "idle", result' = "ok"
    PROVE  \A h \in Host \ edited' : remote'[h].block = want'[h]
  <1>1. CASE Fetched
    <2>1. todo' = {} /\ remote' = remote /\ todo' = Stale(want')
      BY <1>1 DEF Fetched, Ends
    <2>2. \A h \in Host \ OperationIds : want'[h] = 0 /\ remote[h].block = 0
      BY <1>1 DEF Fetched, OperationIds
    <2>3. QED
      BY <2>1, <2>2 DEF Stale
  <1>2. CASE UpdateSucceeds
    <2> DEFINE h == Turn(todo)
    <2>1. h \in Host /\ Lands(h, Written(h))
      BY <1>2, TurnChosen DEF UpdateSucceeds, Inv, Shape, Sending, TypeOK
    <2>2. HostDone(h)
      BY <1>2 DEF UpdateSucceeds
    <2>3. pc = "updating" /\ UNCHANGED <<want, edited>>
      BY <1>2 DEF UpdateSucceeds
    <2> HIDE DEF h
    <2>4. todo \subseteq {h}
      BY <2>2 DEF HostDone
    <2>5. QED
      BY <2>1, <2>3, <2>4, HostLands, WrittenFields DEF Inv, Complete, Sending, Deleting
  <1>3. CASE DeleteSucceeds
    BY <1>3, GoneFields DEF DeleteSucceeds, Inv, Shape, Complete, Sending, Deleting
  <1>4. CASE ~ (Fetched \/ UpdateSucceeds \/ DeleteSucceeds)
    <2>1. result' # "ok"
      BY <1>4 DEF Next, Answered, vars, Begin, FetchFails, UpdateFails, UpdateRejected, Checked,
                  CheckFails, RestoreEnds, DeleteFails, RollBack, HostFailed, CutOff, SetPolicy,
                  OwnerChanges, Ends
    <2>2. QED
      BY <2>1
  <1>5. QED
    BY <1>1, <1>2, <1>3, <1>4

\* A success leaves every host nobody else touched as planned, those of
\* earlier transactions included.
THEOREM SuccessLeavesPlan == Spec => SuccessIsComplete
  <1>1. Inv /\ [Next]_vars =>
           [pc # "idle" /\ pc' = "idle" /\ result' = "ok" =>
              \A h \in Host \ edited' : remote'[h].block = want'[h]]_vars
    BY SuccessStep
  <1>2. QED
    BY <1>1, InvHolds, PTL DEF Spec, SuccessIsComplete

LEMMA ErrorStep ==
    ASSUME Inv, [Next]_vars, pc # "idle", pc # "fetching", pc' = "idle", result' = "error"
    PROVE  \A h \in Host \ (edited' \cup failed') : remote'[h] = snap[h]
  <1>1. CASE FailedRequest
    BY <1>1, FailedRequestStep
  <1>2. CASE RollBack
    BY <1>2, RollBackStep
  <1>3. CASE ~ (FailedRequest \/ RollBack)
    <2>1. ~ (pc' = "idle" /\ result' = "error")
      BY <1>3 DEF Next, Answered, vars, Begin, Fetched, FetchFails, UpdateSucceeds, HostDone,
                  Succeeds, UpdateRejected, Checked, DeleteSucceeds, CutOff, SetPolicy,
                  OwnerChanges, Ends, FailedRequest
    <2>2. QED
      BY <2>1
  <1>4. QED
    BY <1>1, <1>2, <1>3

\* An error leaves every host as it was fetched, but those touched by others
\* or with a failed request of their own.
THEOREM ErrorPutsBack == Spec => OthersPutBack
  <1>1. Inv /\ [Next]_vars =>
           [pc # "idle" /\ pc' = "idle" /\ result' = "error" =>
              \A h \in Host \ (edited' \cup failed') :
                 pc # "fetching" => remote'[h] = snap[h]]_vars
    BY ErrorStep
  <1>2. QED
    BY <1>1, InvHolds, PTL DEF Spec, OthersPutBack
=============================================================================
