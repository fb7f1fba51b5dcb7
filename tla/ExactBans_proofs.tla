--------------------------- MODULE ExactBans_proofs ---------------------------
(***************************************************************************)
(* Proofs about ExactBans, for every set of addresses, calls, policy       *)
(* classes and faults: the live bans and ip_bans.yaml agree whenever       *)
(* nobody is inside ban_file_lock, and every call is atomic: the module    *)
(* implements AbstractBans.                                                *)
(***************************************************************************)
EXTENDS ExactBans, TLAPS

\* The critical section keeps the types (EnterWith, for a request the caller
\* made and a list it took).
LEMMA EnterType ==
    ASSUME TypeOK, NEW t \in Task, NEW o \in Op, NEW l \in SUBSET Addr,
           EnterWith(t, o, l)
    PROVE  /\ live' \in SUBSET Addr
           /\ file' \in SUBSET Addr
           /\ class' \in [Addr -> Classes]
           /\ lock' \in Task \cup {NoTask}
           /\ pc' \in [Task -> Outside \cup Inside]
           /\ prev' \in [Task -> SUBSET Addr]
           /\ shielded' \in SUBSET Task
           /\ outcome' \in [Task -> Outcome]
           /\ unbanned' \in SUBSET (Task \X Addr)
           /\ orphans' \in SUBSET Job
           /\ unsaved' \in SUBSET Addr
  <1>1. CASE EnterMutate(t, o, l)
    <2>1. Mutated(o, l) \in SUBSET Addr
      BY <1>1 DEF EnterMutate, Mutated, Mutators, TypeOK, Op
    <2>2. QED
      BY <1>1, <2>1 DEF EnterMutate, EnterWith, TypeOK, Inside, Outside
  <1>2. CASE EnterNotBanned(t, o)
    BY <1>2 DEF EnterNotBanned, EnterWith, Return, TypeOK, Outside, Outcome
  <1>3. CASE EnterAdd(t, o)
    BY <1>3 DEF EnterAdd, EnterWith, TypeOK, Inside, Op
  <1>4. CASE EnterNoAdd(t, o)
    BY <1>4 DEF EnterNoAdd, EnterWith, Return, TypeOK, Outside, Outcome
  <1>5. CASE EnterLoad(t, o)
    BY <1>5 DEF EnterLoad, EnterWith, TypeOK, Inside
  <1>6. QED
    BY <1>1, <1>2, <1>3, <1>4, <1>5 DEF EnterWith

\* Requests and the lists taken for them have the right types.
LEMMA RequestType ==
    ASSUME TypeOK, NEW o \in Requests
    PROVE  o \in Op /\ Listed(o) \in SUBSET Addr
  <1>1. o \in Op
    BY ConstantsAssumption DEF Requests, Request, Op, AllKinds
  <1>2. Listed(o) \in SUBSET Addr
    BY DEF Listed, TypeOK
  <1>3. QED
    BY <1>1, <1>2

\* Ends of a call keep the types.
LEMMA ReturnType ==
    ASSUME TypeOK, NEW t \in Task, NEW r \in Outcome, Return(t, r)
    PROVE  /\ pc' \in [Task -> Outside \cup Inside]
           /\ outcome' \in [Task -> Outcome]
  BY DEF Return, TypeOK, Outside

LEMMA LeaveType ==
    ASSUME TypeOK, NEW t \in Task, NEW r \in Outcome, Leave(t, r)
    PROVE  /\ pc' \in [Task -> Outside \cup Inside]
           /\ outcome' \in [Task -> Outcome]
           /\ lock' \in Task \cup {NoTask}
  BY ReturnType DEF Leave

LEMMA TypeStep == TypeOK /\ [Next]_vars => TypeOK'
  <1> SUFFICES ASSUME TypeOK, [Next]_vars PROVE TypeOK'
    OBVIOUS
  <1>1. ASSUME NEW t \in Task, NEW o \in Requests, Call(t, o) PROVE TypeOK'
    <2>1. o \in Op /\ Listed(o) \in SUBSET Addr
      BY RequestType
    <2>2. op' \in [Task -> Op] /\ stale' \in [Task -> SUBSET Addr]
      BY <1>1, <2>1 DEF Call, TypeOK
    <2>3. CASE EnterWith(t, o, Listed(o))
      BY <2>1, <2>2, <2>3, EnterType DEF TypeOK
    <2>4. CASE ~ EnterWith(t, o, Listed(o))
      BY <1>1, <2>2, <2>4 DEF Call, TypeOK, Outside
    <2>5. QED
      BY <2>3, <2>4
  <1>2. ASSUME NEW t \in Task, NEW o \in Requests, CallEnds(t, o) PROVE TypeOK'
    <2>1. o \in Op
      BY RequestType
    <2>2. \E r \in Outcome : Return(t, r)
      BY <1>2 DEF CallEnds, Outcome
    <2>3. QED
      BY <1>2, <2>1, <2>2, ReturnType DEF CallEnds, TypeOK
  <1>3. ASSUME NEW t \in Task, Enter(t) PROVE TypeOK'
    <2>1. op[t] \in Op /\ stale[t] \in SUBSET Addr
      BY DEF TypeOK
    <2>2. QED
      BY <1>3, <2>1, EnterType DEF Enter, TypeOK
  <1>4. ASSUME NEW t \in Task, ExecutorStep(t) PROVE TypeOK'
    <2>1. CASE WriteLands(t)
      BY <2>1 DEF WriteLands, TypeOK, Inside
    <2>2. CASE WriteFails(t)
      BY <2>2 DEF WriteFails, TypeOK, Inside
    <2>3. CASE AppendLands(t)
      BY <2>3 DEF AppendLands, TypeOK, Inside, Op
    <2>4. CASE AppendFails(t)
      BY <2>4 DEF AppendFails, TypeOK, Inside
    <2>5. CASE ReadEnds(t)
      BY <2>5 DEF ReadEnds, TypeOK, Inside
    <2>6. QED
      BY <1>4, <2>1, <2>2, <2>3, <2>4, <2>5 DEF ExecutorStep
  <1>5. ASSUME NEW t \in Task, Resume(t) PROVE TypeOK'
    <2>1. op[t] \in Op /\ stale[t] \in SUBSET Addr /\ prev[t] \in SUBSET Addr
      BY DEF TypeOK
    <2>2. CASE FinishMutate(t)
      <3>1. Announced(t) \in SUBSET Addr
        BY <2>1 DEF Announced, Op
      <3>2. unbanned' \in SUBSET (Task \X Addr)
        BY <2>2, <3>1 DEF FinishMutate, TypeOK
      <3>3. QED
        BY <2>2, <3>2, LeaveType DEF FinishMutate, TypeOK, Outcome
    <2>3. CASE FinishCancelled(t)
      BY <2>3, LeaveType DEF FinishCancelled, TypeOK, Outcome
    <2>4. CASE RollBack(t)
      BY <2>1, <2>4, LeaveType DEF RollBack, TypeOK, Outcome
    <2>5. CASE FinishAdd(t)
      BY <2>5, LeaveType DEF FinishAdd, TypeOK, Outcome
    <2>6. CASE FailAdd(t)
      BY <2>1, <2>6, LeaveType DEF FailAdd, TypeOK, Outcome, Op
    <2>7. CASE FinishLoad(t)
      BY <2>7, LeaveType DEF FinishLoad, TypeOK, Outcome
    <2>8. QED
      BY <1>5, <2>2, <2>3, <2>4, <2>5, <2>6, <2>7 DEF Resume
  <1>6. ASSUME NEW t \in Task, Cancel(t) PROVE TypeOK'
    <2>1. op[t] \in Op
      BY DEF TypeOK
    <2> USE DEF CancelUntouched
    <2>2. CASE CancelQueued(t)
      BY <2>2, ReturnType DEF CancelQueued, TypeOK, Outcome
    <2>3. CASE CancelWrite(t)
      BY <2>3 DEF CancelWrite, TypeOK
    <2>4. CASE AbandonWrite(t)
      BY <2>4, LeaveType DEF AbandonWrite, TypeOK, Outcome, Job
    <2>5. CASE CancelFailed(t)
      BY <2>5, LeaveType DEF CancelFailed, TypeOK, Outcome
    <2>6. CASE CancelAppend(t)
      BY <2>1, <2>6, LeaveType DEF CancelAppend, TypeOK, Outcome, Job, Op
    <2>7. CASE CancelDone(t)
      BY <2>7, LeaveType DEF CancelDone, TypeOK, Outcome
    <2>8. CASE CancelFailedAppend(t)
      BY <2>1, <2>8, LeaveType DEF CancelFailedAppend, TypeOK, Outcome, Op
    <2>9. QED
      BY <1>6, <2>2, <2>3, <2>4, <2>5, <2>6, <2>7, <2>8 DEF Cancel
  <1>7. ASSUME NEW j \in orphans, OrphanEnds(j) PROVE TypeOK'
    BY <1>7 DEF OrphanEnds, TypeOK, Job
  <1>8. ASSUME NEW a \in Addr, NEW c \in Classes, SetClass(a, c) PROVE TypeOK'
    BY <1>8 DEF SetClass, TypeOK
  <1>9. CASE Crash
    BY <1>9 DEF Crash, TypeOK, Outside, Outcome
  <1>10. CASE UNCHANGED vars
    BY <1>10 DEF vars, TypeOK
  <1>11. QED
    BY <1>1, <1>2, <1>3, <1>4, <1>5, <1>6, <1>7, <1>8, <1>9, <1>10 DEF Next

LEMMA TypeInit == Init => TypeOK
  BY ConstantsAssumption DEF Init, TypeOK, Op, AllKinds, Outside, Outcome

\* Every reachable state is well typed.
THEOREM TypeCorrect == Spec => []TypeOK
  BY TypeInit, TypeStep, PTL DEF Spec

-----------------------------------------------------------------------------
(* The lock and the file.                                                   *)

\* What leaving the lock does to the three parts of the invariant: the call is
\* outside, nobody is inside, and the bans agree if they do afterwards.
LEMMA LeaveKeeps ==
    ASSUME TypeOK, HolderIsInside, NEW t \in Task, pc[t] \in Inside,
           NEW r, Leave(t, r), Agree(live, file)'
    PROVE  HolderIsInside' /\ FileFollowsLive'
  <1>1. \A u \in Task : pc'[u] \notin Inside
    BY DEF Leave, Return, HolderIsInside, TypeOK, Inside
  <1>2. lock' = NoTask
    BY DEF Leave
  <1>3. HolderIsInside'
    BY <1>1, <1>2, ConstantsAssumption DEF HolderIsInside
  <1>4. FileFollowsLive'
    BY <1>1 DEF FileFollowsLive, Inside
  <1>5. QED
    BY <1>3, <1>4

\* The critical section: the holder changes live, never the file, and the
\* file then agrees with what it remembered.
LEMMA EnterKeeps ==
    ASSUME TypeOK, HolderIsInside, FileFollowsLive, OrphansAreUnsaved,
           NEW t \in Task, pc[t] \notin Inside, lock = NoTask,
           NEW o \in Op, NEW l \in SUBSET Addr,
           op' \in [Task -> Op], op'[t] = o,
           \A u \in Task \ {t} : op'[u] = op[u],
           EnterWith(t, o, l)
    PROVE  HolderIsInside' /\ FileFollowsLive' /\ OrphansAreUnsaved'
  <1>1. \A u \in Task : pc[u] \notin Inside
    BY ConstantsAssumption DEF HolderIsInside
  <1>2. Agree(live, file) /\ file' = file /\ unsaved' = unsaved
    BY DEF FileFollowsLive, EnterWith, EnterMutate, EnterNotBanned, EnterAdd,
           EnterNoAdd, EnterLoad
  <1>3. OrphansAreUnsaved'
    BY DEF OrphansAreUnsaved, EnterWith
  <1>4. CASE EnterMutate(t, o, l)
    <2>1. \A u \in Task \ {t} : pc'[u] \notin Inside
      BY <1>1, <1>4 DEF EnterMutate, TypeOK
    <2>2. pc'[t] = "writing" /\ prev'[t] = live /\ lock' = t
      BY <1>4 DEF EnterMutate, TypeOK
    <2>3. HolderIsInside'
      BY <2>1, <2>2 DEF HolderIsInside, Inside
    <2>4. FileFollowsLive'
      BY <1>2, <2>1, <2>2, ConstantsAssumption
         DEF FileFollowsLive, Agree, Inside
    <2>5. QED
      BY <1>3, <2>3, <2>4
  <1>5. CASE EnterAdd(t, o)
    <2>1. \A u \in Task \ {t} : pc'[u] \notin Inside
      BY <1>1, <1>5 DEF EnterAdd, TypeOK
    <2>2. /\ pc'[t] = "appending" /\ lock' = t
          /\ live' = live \cup o.addrs /\ live \cap o.addrs = {}
      BY <1>5 DEF EnterAdd, TypeOK, InLookup
    <2>3. HolderIsInside'
      BY <2>1, <2>2 DEF HolderIsInside, Inside
    <2>4. FileFollowsLive'
      BY <1>2, <2>1, <2>2, ConstantsAssumption
         DEF FileFollowsLive, Agree, Inside
    <2>5. QED
      BY <1>3, <2>3, <2>4
  <1>6. CASE EnterLoad(t, o)
    <2>1. \A u \in Task \ {t} : pc'[u] \notin Inside
      BY <1>1, <1>6 DEF EnterLoad, TypeOK
    <2>2. pc'[t] = "loading" /\ lock' = t /\ live' = live
      BY <1>6 DEF EnterLoad, TypeOK
    <2>3. HolderIsInside'
      BY <2>1, <2>2 DEF HolderIsInside, Inside
    <2>4. FileFollowsLive'
      BY <1>2, <2>1, <2>2, ConstantsAssumption
         DEF FileFollowsLive, Agree, Inside
    <2>5. QED
      BY <1>3, <2>3, <2>4
  <1>7. CASE EnterNotBanned(t, o) \/ EnterNoAdd(t, o)
    <2>1. /\ lock' = NoTask /\ live' = live
          /\ \A u \in Task : pc'[u] \notin Inside
      BY <1>1, <1>7 DEF EnterNotBanned, EnterNoAdd, Return, TypeOK, Inside
    <2>2. QED
      BY <1>2, <1>3, <2>1, ConstantsAssumption
         DEF HolderIsInside, FileFollowsLive, Agree, Inside
  <1>8. QED
    BY <1>4, <1>5, <1>6, <1>7 DEF EnterWith

\* A step that moves no call in or out of the lock, and leaves the bans, the
\* file and the orphans alone.
LEMMA QuietKeeps ==
    ASSUME TypeOK, HolderIsInside, FileFollowsLive, OrphansAreUnsaved,
           UNCHANGED <<live, file, lock, prev, orphans, unsaved>>,
           \A u \in Task : \/ pc'[u] = pc[u] /\ op'[u] = op[u]
                           \/ pc[u] \notin Inside /\ pc'[u] \notin Inside
    PROVE  HolderIsInside' /\ FileFollowsLive' /\ OrphansAreUnsaved'
  <1>1. HolderIsInside'
    BY DEF HolderIsInside
  <1>2. FileFollowsLive'
    BY DEF FileFollowsLive, Agree, Inside
  <1>3. OrphansAreUnsaved'
    BY DEF OrphansAreUnsaved
  <1>4. QED
    BY <1>1, <1>2, <1>3

\* A step of the holder's executor job: it stays inside, and what it does to
\* the file matches the phase it reaches.
LEMMA ExecutorKeeps ==
    ASSUME IInv, NEW t \in Task, ExecutorStep(t)
    PROVE  HolderIsInside' /\ FileFollowsLive' /\ OrphansAreUnsaved'
  <1>1. /\ lock = t /\ lock # NoTask /\ lock' = lock /\ live' = live
        /\ op' = op /\ orphans' = orphans
    BY ConstantsAssumption
       DEF IInv, HolderIsInside, Inside, ExecutorStep, WriteLands, WriteFails,
           AppendLands, AppendFails, ReadEnds
  <1>2. \A u \in Task \ {t} : pc[u] \notin Inside /\ pc'[u] = pc[u]
    BY <1>1 DEF IInv, TypeOK, HolderIsInside, ExecutorStep, WriteLands,
                WriteFails, AppendLands, AppendFails, ReadEnds
  <1>3. pc'[t] \in Inside
    BY DEF IInv, TypeOK, Inside, ExecutorStep, WriteLands, WriteFails,
           AppendLands, AppendFails, ReadEnds
  <1>4. HolderIsInside'
    BY <1>1, <1>2, <1>3 DEF HolderIsInside
  <1>5. OrphansAreUnsaved'
    BY <1>1 DEF IInv, OrphansAreUnsaved, ExecutorStep, WriteLands, WriteFails,
                AppendLands, AppendFails, ReadEnds
  <1>6. CASE WriteLands(t)
    <2>1. pc'[t] = "landed" /\ file' = live /\ prev' = prev
      BY <1>6 DEF WriteLands, IInv, TypeOK
    <2>2. QED
      BY <1>1, <1>2, <1>4, <1>5, <2>1 DEF FileFollowsLive, Agree, Inside
  <1>7. CASE WriteFails(t)
    <2>1. /\ pc[t] = "writing" /\ pc'[t] = "failed"
          /\ file' = file /\ unsaved' = unsaved
          /\ prev' = prev
      BY <1>7 DEF WriteFails, IInv, TypeOK
    <2>2. QED
      BY <1>1, <1>2, <1>4, <1>5, <2>1 DEF IInv, FileFollowsLive, Agree, Inside
  <1>8. CASE AppendLands(t)
    <2>1. /\ pc[t] = "appending" /\ pc'[t] = "appended"
          /\ file' = file \cup op[t].addrs /\ unsaved' = unsaved
          /\ prev' = prev
      BY <1>8 DEF AppendLands, IInv, TypeOK
    <2>2. op[t].addrs \subseteq live
      BY <2>1 DEF IInv, FileFollowsLive
    <2>3. QED
      BY <1>1, <1>2, <1>4, <1>5, <2>1, <2>2
         DEF IInv, FileFollowsLive, Agree, Inside
  <1>9. CASE AppendFails(t)
    <2>1. /\ pc[t] = "appending" /\ pc'[t] = "appendfailed"
          /\ file' = file /\ unsaved' = unsaved
          /\ prev' = prev
      BY <1>9 DEF AppendFails, IInv, TypeOK
    <2>2. QED
      BY <1>1, <1>2, <1>4, <1>5, <2>1 DEF IInv, FileFollowsLive, Agree, Inside
  <1>10. CASE ReadEnds(t)
    <2>1. /\ pc[t] = "loading" /\ pc'[t] = "read"
          /\ file' = file /\ unsaved' = unsaved
          /\ prev'[t] = file \/ prev'[t] = {}
      BY <1>10 DEF ReadEnds, IInv, TypeOK
    <2>2. QED
      BY <1>1, <1>2, <1>4, <1>5, <2>1 DEF IInv, FileFollowsLive, Agree, Inside
  <1>11. QED
    BY <1>6, <1>7, <1>8, <1>9, <1>10 DEF ExecutorStep

\* The call resumes and leaves the lock with bans and file in agreement: a
\* landed write or append made them agree, a rollback restores what the file
\* still holds, a failed append is recorded in unsaved.
LEMMA ResumeKeeps ==
    ASSUME IInv, NEW t \in Task, Resume(t)
    PROVE  HolderIsInside' /\ FileFollowsLive' /\ OrphansAreUnsaved'
  <1>1. pc[t] \in Inside /\ orphans' = orphans
    BY DEF Resume, FinishMutate, FinishCancelled, RollBack, FinishAdd, FailAdd,
           FinishLoad, Inside
  <1>2. \E r : Leave(t, r)
    BY DEF Resume, FinishMutate, FinishCancelled, RollBack, FinishAdd, FailAdd,
           FinishLoad
  <1>3. ASSUME Agree(live, file)', OrphansAreUnsaved'
        PROVE  HolderIsInside' /\ FileFollowsLive' /\ OrphansAreUnsaved'
    <2>1. PICK r : Leave(t, r)
      BY <1>2
    <2>2. QED
      BY <1>1, <1>3, <2>1, LeaveKeeps DEF IInv
  <1>4. CASE FinishMutate(t) \/ FinishCancelled(t) \/ FinishAdd(t)
    <2>1. Agree(live, file) /\ UNCHANGED <<live, file, unsaved>>
      BY <1>4 DEF FinishMutate, FinishCancelled, FinishAdd, IInv,
                  FileFollowsLive
    <2>2. Agree(live, file)' /\ OrphansAreUnsaved'
      BY <1>1, <2>1 DEF Agree, OrphansAreUnsaved, IInv
    <2>3. QED
      BY <1>3, <2>2
  <1>5. CASE RollBack(t)
    <2>1. /\ Agree(prev[t], file) /\ live' = prev[t]
          /\ UNCHANGED <<file, unsaved>>
      BY <1>5 DEF RollBack, IInv, FileFollowsLive
    <2>2. Agree(live, file)' /\ OrphansAreUnsaved'
      BY <1>1, <2>1 DEF Agree, OrphansAreUnsaved, IInv
    <2>3. QED
      BY <1>3, <2>2
  <1>6. CASE FailAdd(t)
    <2>1. /\ Agree(live \ op[t].addrs, file) /\ UNCHANGED <<live, file>>
          /\ unsaved' = unsaved \cup op[t].addrs
          /\ op[t].addrs \subseteq Addr /\ unsaved \subseteq Addr
      BY <1>6 DEF FailAdd, IInv, FileFollowsLive, TypeOK, Op
    <2>2. Agree(live, file)' /\ OrphansAreUnsaved'
      BY <1>1, <2>1 DEF Agree, OrphansAreUnsaved, IInv
    <2>3. QED
      BY <1>3, <2>2
  <1>7. CASE FinishLoad(t)
    <2>1. /\ Agree(live, file) /\ file' = file
          /\ live' = live \/ (live' = prev[t] /\ Agree(prev[t], file))
          /\ unsaved' = unsaved \/ (unsaved' = {} /\ live' = file /\ orphans = {})
      BY <1>7 DEF FinishLoad, IInv, FileFollowsLive
    <2>2. Agree(live, file)'
      BY <2>1 DEF Agree
    <2>3. OrphansAreUnsaved'
      BY <1>1, <2>1 DEF OrphansAreUnsaved, IInv
    <2>4. QED
      BY <1>3, <2>2, <2>3
  <1>8. QED
    BY <1>4, <1>5, <1>6, <1>7 DEF Resume

\* Cancellation: while queued nothing happens, the first error during a write
\* is swallowed, and every way out that leaves a job running or a failed job
\* unrepaired records the addresses it may affect.
LEMMA CancelKeeps ==
    ASSUME IInv, NEW t \in Task, Cancel(t)
    PROVE  HolderIsInside' /\ FileFollowsLive' /\ OrphansAreUnsaved'
  <1> USE DEF CancelUntouched
  <1>1. ASSUME pc[t] \in Inside, NEW r, Leave(t, r), Agree(live, file)',
               OrphansAreUnsaved'
        PROVE  HolderIsInside' /\ FileFollowsLive' /\ OrphansAreUnsaved'
    BY <1>1, LeaveKeeps DEF IInv
  <1>2. op[t].addrs \subseteq Addr /\ unsaved \subseteq Addr
        /\ live \subseteq Addr /\ file \subseteq Addr
    BY DEF IInv, TypeOK, Op
  <1>3. CASE CancelQueued(t)
    <2>1. \A u \in Task : \/ pc'[u] = pc[u] /\ op'[u] = op[u]
                          \/ pc[u] \notin Inside /\ pc'[u] \notin Inside
      BY <1>3 DEF CancelQueued, Return, IInv, TypeOK, Inside
    <2>2. QED
      BY <1>3, <2>1, QuietKeeps DEF CancelQueued, IInv
  <1>4. CASE CancelWrite(t)
    BY <1>4, QuietKeeps DEF CancelWrite, IInv
  <1>5. CASE AbandonWrite(t)
    <2>1. unsaved' = Addr /\ orphans' = orphans \cup {[kind |-> "rewrite", addrs |-> live]}
          /\ pc[t] \in Inside /\ Leave(t, "cancelled")
      BY <1>5 DEF AbandonWrite, Inside
    <2>2. Agree(live, file)'
      BY <1>2, <1>5, <2>1 DEF Agree, AbandonWrite
    <2>3. OrphansAreUnsaved'
      BY <1>2, <2>1 DEF OrphansAreUnsaved, IInv, TypeOK, Job
    <2>4. QED
      BY <1>1, <2>1, <2>2, <2>3
  <1>6. CASE CancelFailed(t)
    <2>1. /\ unsaved' = unsaved \cup (live \ prev[t]) \cup (prev[t] \ live)
          /\ pc[t] \in Inside /\ Leave(t, "cancelled")
          /\ Agree(prev[t], file) /\ UNCHANGED <<live, file, orphans>>
          /\ prev[t] \subseteq Addr
      BY <1>6 DEF CancelFailed, Inside, IInv, FileFollowsLive, TypeOK
    <2>2. Agree(live, file)'
      BY <2>1 DEF Agree
    <2>3. OrphansAreUnsaved'
      BY <1>2, <2>1 DEF OrphansAreUnsaved, IInv
    <2>4. QED
      BY <1>1, <2>1, <2>2, <2>3
  <1>7. CASE CancelAppend(t)
    <2>1. /\ unsaved' = unsaved \cup op[t].addrs
          /\ orphans' = orphans \cup {[kind |-> "append", addrs |-> op[t].addrs]}
          /\ pc[t] \in Inside /\ Leave(t, "cancelled")
          /\ Agree(live \ op[t].addrs, file) /\ UNCHANGED <<live, file>>
      BY <1>7 DEF CancelAppend, Inside, IInv, FileFollowsLive
    <2>2. Agree(live, file)'
      BY <2>1 DEF Agree
    <2>3. OrphansAreUnsaved'
      BY <1>2, <2>1 DEF OrphansAreUnsaved, IInv, TypeOK, Job
    <2>4. QED
      BY <1>1, <2>1, <2>2, <2>3
  <1>8. CASE CancelDone(t)
    <2>1. /\ UNCHANGED <<live, file, orphans, unsaved>> /\ Agree(live, file)
          /\ pc[t] \in Inside /\ Leave(t, "cancelled")
      BY <1>8 DEF CancelDone, Inside, IInv, FileFollowsLive
    <2>2. Agree(live, file)' /\ OrphansAreUnsaved'
      BY <2>1 DEF Agree, OrphansAreUnsaved, IInv
    <2>3. QED
      BY <1>1, <2>1, <2>2
  <1>9. CASE CancelFailedAppend(t)
    <2>1. /\ unsaved' = unsaved \cup op[t].addrs /\ orphans' = orphans
          /\ pc[t] \in Inside /\ Leave(t, "cancelled")
          /\ Agree(live \ op[t].addrs, file) /\ UNCHANGED <<live, file>>
      BY <1>9 DEF CancelFailedAppend, Inside, IInv, FileFollowsLive
    <2>2. Agree(live, file)'
      BY <2>1 DEF Agree
    <2>3. OrphansAreUnsaved'
      BY <1>2, <2>1 DEF OrphansAreUnsaved, IInv
    <2>4. QED
      BY <1>1, <2>1, <2>2, <2>3
  <1>10. QED
    BY <1>3, <1>4, <1>5, <1>6, <1>7, <1>8, <1>9 DEF Cancel

\* Calls: the caller's request is recorded, and the call runs on through a
\* free lock or waits for it.
LEMMA CallKeeps ==
    ASSUME IInv, NEW t \in Task, NEW o \in Requests,
           Call(t, o) \/ CallEnds(t, o)
    PROVE  HolderIsInside' /\ FileFollowsLive' /\ OrphansAreUnsaved'
  <1>1. o \in Op /\ Listed(o) \in SUBSET Addr
    BY RequestType DEF IInv
  <1>2. /\ pc[t] \notin Inside
        /\ op' \in [Task -> Op] /\ op'[t] = o
        /\ \A u \in Task \ {t} : op'[u] = op[u]
    BY <1>1 DEF Call, CallEnds, IInv, TypeOK, Inside
  <1>3. CASE Call(t, o) /\ lock = NoTask /\ EnterWith(t, o, Listed(o))
    BY <1>1, <1>2, <1>3, EnterKeeps DEF IInv
  <1>4. CASE (Call(t, o) /\ ~ (lock = NoTask /\ \A u \in Task : pc[u] # "queued"))
             \/ CallEnds(t, o)
    <2>1. /\ UNCHANGED <<live, file, lock, prev, orphans, unsaved>>
          /\ \A u \in Task : \/ pc'[u] = pc[u] /\ op'[u] = op[u]
                             \/ pc[u] \notin Inside /\ pc'[u] \notin Inside
      BY <1>2, <1>4 DEF Call, CallEnds, Return, IInv, TypeOK, Inside
    <2>2. QED
      BY <2>1, QuietKeeps DEF IInv
  <1>5. QED
    BY <1>3, <1>4 DEF Call

LEMMA InvariantStep == IInv /\ [Next]_vars => IInv'
  <1> SUFFICES ASSUME IInv, [Next]_vars PROVE IInv'
    OBVIOUS
  <1>1. TypeOK'
    BY TypeStep DEF IInv
  <1>2. SUFFICES HolderIsInside' /\ FileFollowsLive' /\ OrphansAreUnsaved'
    BY <1>1 DEF IInv
  <1>3. ASSUME NEW t \in Task, NEW o \in Requests, Call(t, o) \/ CallEnds(t, o)
        PROVE  HolderIsInside' /\ FileFollowsLive' /\ OrphansAreUnsaved'
    BY <1>3, CallKeeps
  <1>4. ASSUME NEW t \in Task, Enter(t)
        PROVE  HolderIsInside' /\ FileFollowsLive' /\ OrphansAreUnsaved'
    <2>1. /\ op[t] \in Op /\ stale[t] \in SUBSET Addr /\ op' \in [Task -> Op]
          /\ pc[t] \notin Inside /\ op' = op
      BY <1>4 DEF Enter, IInv, TypeOK, Inside
    <2>2. QED
      BY <1>4, <2>1, EnterKeeps DEF Enter, IInv
  <1>5. ASSUME NEW t \in Task, ExecutorStep(t)
        PROVE  HolderIsInside' /\ FileFollowsLive' /\ OrphansAreUnsaved'
    BY <1>5, ExecutorKeeps
  <1>6. ASSUME NEW t \in Task, Resume(t)
        PROVE  HolderIsInside' /\ FileFollowsLive' /\ OrphansAreUnsaved'
    BY <1>6, ResumeKeeps
  <1>7. ASSUME NEW t \in Task, Cancel(t)
        PROVE  HolderIsInside' /\ FileFollowsLive' /\ OrphansAreUnsaved'
    BY <1>7, CancelKeeps
  <1>8. ASSUME NEW j \in orphans, OrphanEnds(j)
        PROVE  HolderIsInside' /\ FileFollowsLive' /\ OrphansAreUnsaved'
    <2>1. UNCHANGED <<live, lock, pc, op, prev, unsaved>>
      BY <1>8 DEF OrphanEnds
    <2>2. j.addrs \subseteq unsaved \/ unsaved = Addr
      BY DEF IInv, OrphansAreUnsaved
    <2>3. \A A \in SUBSET Addr : Agree(A, file) => Agree(A, file)'
      BY <1>8, <2>1, <2>2 DEF OrphanEnds, Agree, IInv, TypeOK, Job,
                              OrphansAreUnsaved
    <2>4. /\ live \in SUBSET Addr
          /\ \A u \in Task : prev[u] \in SUBSET Addr
      BY DEF IInv, TypeOK
    <2>5. \A A : Agree(A, file) <=> A \ unsaved = file \ unsaved
      BY DEF Agree
    <2>6. \A A : Agree(A, file)' <=> (A \ unsaved = file' \ unsaved)
      BY <2>1 DEF Agree
    <2>7. FileFollowsLive'
      BY <2>1, <2>3, <2>4, <2>5, <2>6 DEF FileFollowsLive, IInv, Agree
    <2>8. HolderIsInside' /\ OrphansAreUnsaved'
      BY <1>8, <2>1 DEF HolderIsInside, OrphansAreUnsaved, OrphanEnds, IInv
    <2>9. QED
      BY <2>7, <2>8
  <1>9. ASSUME NEW a \in Addr, NEW c \in Classes, SetClass(a, c)
        PROVE  HolderIsInside' /\ FileFollowsLive' /\ OrphansAreUnsaved'
    BY <1>9, QuietKeeps DEF SetClass, IInv
  <1>10. CASE Crash
    <2>1. /\ lock' = NoTask /\ live' = file' /\ orphans' = {}
          /\ \A u \in Task : pc'[u] \notin Inside
      BY <1>10 DEF Crash, Inside
    <2>2. QED
      BY <2>1, ConstantsAssumption
         DEF HolderIsInside, FileFollowsLive, OrphansAreUnsaved, Agree, Inside
  <1>11. CASE UNCHANGED vars
    BY <1>11, QuietKeeps DEF vars, IInv
  <1>12. QED
    BY <1>3, <1>4, <1>5, <1>6, <1>7, <1>8, <1>9, <1>10, <1>11 DEF Next

LEMMA InvariantInit == Init => IInv
  <1> SUFFICES ASSUME Init PROVE IInv
    OBVIOUS
  <1>1. TypeOK
    BY TypeInit
  <1>2. HolderIsInside /\ FileFollowsLive /\ OrphansAreUnsaved
    BY ConstantsAssumption
       DEF Init, HolderIsInside, FileFollowsLive, OrphansAreUnsaved, Agree,
           Inside
  <1>3. QED
    BY <1>1, <1>2 DEF IInv

\* The inductive invariant holds in every reachable state.
THEOREM Invariance == Spec => []IInv
  BY InvariantInit, InvariantStep, PTL DEF Spec

\* Whenever nobody is inside ban_file_lock, the live lookup and ip_bans.yaml
\* hold the same bans, except for the addresses marked unsaved: those of failed
\* or interrupted appends, those a failed write kept from its rollback by a
\* second cancellation had changed, and all of them while a rewrite cut off by
\* a second cancellation may still overwrite the file.
THEOREM LiveAndFileAgree == Spec => []LiveMatchesFile
  <1>1. IInv => LiveMatchesFile
    BY DEF IInv, FileFollowsLive, LiveMatchesFile, Agree
  <1>2. QED
    BY <1>1, Invariance, PTL

-----------------------------------------------------------------------------
(* The call inside the lock and its request.                                *)

\* A call nothing happens to still fits its request, unless it has bans of its
\* own in the lookup and they change.
LEMMA FitsKept ==
    ASSUME NEW u \in Task, FitsRequest(u),
           pc'[u] = pc[u], op'[u] = op[u], stale'[u] = stale[u],
           prev'[u] = prev[u], live' = live \/ pc[u] \notin Inside
    PROVE  FitsRequest(u)'
  BY DEF FitsRequest, Changed, Inside

\* A call that has ended, or waits for the lock, has nothing to fit.
LEMMA FitsOutside ==
    ASSUME NEW u \in Task, pc'[u] \in {"queued", "done"}
    PROVE  FitsRequest(u)'
  BY DEF FitsRequest

\* A step that ends a call, and leaves every other call alone.
LEMMA FitsReturn ==
    ASSUME TypeOK, WorkFitsRequest, NEW t \in Task, NEW r, Return(t, r),
           \A u \in Task \ {t} : op'[u] = op[u] /\ stale'[u] = stale[u],
           prev' = prev,
           live' = live \/ \A u \in Task \ {t} : pc[u] \notin Inside
    PROVE  WorkFitsRequest'
  <1>1. pc'[t] = "done" /\ \A u \in Task \ {t} : pc'[u] = pc[u]
    BY DEF Return, TypeOK
  <1>2. FitsRequest(t)'
    BY <1>1, FitsOutside
  <1>3. ASSUME NEW u \in Task \ {t} PROVE FitsRequest(u)'
    BY <1>1, <1>3, FitsKept DEF WorkFitsRequest
  <1>4. QED
    BY <1>2, <1>3 DEF WorkFitsRequest

\* The critical section, run with the request and the list the call recorded,
\* starts a job that fits the request.
LEMMA FitsEnter ==
    ASSUME IInv, WorkFitsRequest, NEW t \in Task, pc[t] \notin Inside,
           lock = NoTask, NEW o \in Op, NEW l \in SUBSET Addr,
           op'[t] = o, stale'[t] = l,
           \A u \in Task \ {t} : op'[u] = op[u] /\ stale'[u] = stale[u],
           EnterWith(t, o, l)
    PROVE  WorkFitsRequest'
  <1>1. TypeOK /\ \A u \in Task : pc[u] \notin Inside
    BY ConstantsAssumption DEF IInv, HolderIsInside
  <1>2. ASSUME \A u \in Task \ {t} : pc'[u] = pc[u] /\ prev'[u] = prev[u],
               FitsRequest(t)'
        PROVE  WorkFitsRequest'
    BY <1>1, <1>2, FitsKept DEF WorkFitsRequest
  <1>3. CASE EnterMutate(t, o, l)
    <2>1. /\ pc'[t] = "writing" /\ prev'[t] = live
          /\ \A u \in Task \ {t} : pc'[u] = pc[u] /\ prev'[u] = prev[u]
      BY <1>1, <1>3 DEF EnterMutate, TypeOK
    <2>2. live' = Changed(t)'
      BY <1>3, <2>1 DEF EnterMutate, Mutated, Changed, Mutators
    <2>3. FitsRequest(t)'
      BY <1>3, <2>1, <2>2 DEF EnterMutate, FitsRequest
    <2>4. QED
      BY <1>2, <2>1, <2>3
  <1>4. CASE EnterAdd(t, o)
    <2>1. /\ pc'[t] = "appending" /\ prev' = prev /\ o.kind \in Adders
          /\ \A u \in Task \ {t} : pc'[u] = pc[u]
      BY <1>1, <1>4 DEF EnterAdd, TypeOK
    <2>2. FitsRequest(t)'
      BY <2>1 DEF FitsRequest
    <2>3. QED
      BY <1>2, <2>1, <2>2
  <1>5. CASE EnterLoad(t, o)
    <2>1. /\ pc'[t] = "loading" /\ prev' = prev /\ o.kind = "load"
          /\ \A u \in Task \ {t} : pc'[u] = pc[u]
      BY <1>1, <1>5 DEF EnterLoad, TypeOK
    <2>2. FitsRequest(t)'
      BY <2>1 DEF FitsRequest
    <2>3. QED
      BY <1>2, <2>1, <2>2
  <1>6. CASE EnterNotBanned(t, o)
    BY <1>1, <1>6, FitsReturn DEF EnterNotBanned
  <1>7. CASE EnterNoAdd(t, o)
    BY <1>1, <1>7, FitsReturn DEF EnterNoAdd
  <1>8. QED
    BY <1>3, <1>4, <1>5, <1>6, <1>7 DEF EnterWith

LEMMA FitsCall ==
    ASSUME IInv, WorkFitsRequest, NEW t \in Task, NEW o \in Requests,
           Call(t, o)
    PROVE  WorkFitsRequest'
  <1>1. TypeOK /\ o \in Op /\ Listed(o) \in SUBSET Addr
    BY RequestType DEF IInv
  <1>2. /\ pc[t] \notin Inside /\ op'[t] = o /\ stale'[t] = Listed(o)
        /\ \A u \in Task \ {t} : op'[u] = op[u] /\ stale'[u] = stale[u]
    BY <1>1 DEF Call, TypeOK, Inside
  <1>3. CASE lock = NoTask /\ \A u \in Task : pc[u] # "queued"
    <2>1. EnterWith(t, o, Listed(o))
      BY <1>3 DEF Call
    <2>2. QED
      BY <1>1, <1>2, <1>3, <2>1, FitsEnter
  <1>4. CASE ~ (lock = NoTask /\ \A u \in Task : pc[u] # "queued")
    <2>1. /\ pc'[t] = "queued" /\ prev' = prev /\ live' = live
          /\ \A u \in Task \ {t} : pc'[u] = pc[u]
      BY <1>1, <1>4 DEF Call, TypeOK
    <2>2. FitsRequest(t)'
      BY <2>1, FitsOutside
    <2>3. ASSUME NEW u \in Task \ {t} PROVE FitsRequest(u)'
      BY <1>2, <2>1, <2>3, FitsKept DEF WorkFitsRequest
    <2>4. QED
      BY <2>2, <2>3 DEF WorkFitsRequest
  <1>5. QED
    BY <1>3, <1>4

\* The executor job moves only its own call, and keeps the bans it works on.
LEMMA FitsExecutor ==
    ASSUME TypeOK, WorkFitsRequest, NEW t \in Task, ExecutorStep(t)
    PROVE  WorkFitsRequest'
  <1>1. /\ UNCHANGED <<live, op, stale>>
        /\ \A u \in Task \ {t} : pc'[u] = pc[u] /\ prev'[u] = prev[u]
        /\ \/ /\ prev' = prev
              /\ pc[t] = "writing" /\ pc'[t] \in {"landed", "failed"}
           \/ pc[t] = "appending" /\ pc'[t] \in {"appended", "appendfailed"}
           \/ pc[t] = "loading" /\ pc'[t] = "read"
    BY DEF ExecutorStep, WriteLands, WriteFails, AppendLands, AppendFails,
           ReadEnds, TypeOK
  <1>2. FitsRequest(t)'
    BY <1>1 DEF WorkFitsRequest, FitsRequest, Changed
  <1>3. ASSUME NEW u \in Task \ {t} PROVE FitsRequest(u)'
    BY <1>1, <1>3, FitsKept DEF WorkFitsRequest
  <1>4. QED
    BY <1>2, <1>3 DEF WorkFitsRequest

LEMMA WorkStep == IInv /\ WorkFitsRequest /\ [Next]_vars => WorkFitsRequest'
  <1> SUFFICES ASSUME IInv, WorkFitsRequest, [Next]_vars PROVE WorkFitsRequest'
    OBVIOUS
  <1>1. TypeOK
    BY DEF IInv
  <1>2. ASSUME NEW t \in Task, pc[t] \in Inside
        PROVE  \A u \in Task \ {t} : pc[u] \notin Inside
    BY <1>2 DEF IInv, HolderIsInside
  <1>3. ASSUME UNCHANGED <<live, pc, op, stale, prev>> PROVE WorkFitsRequest'
    BY <1>3, FitsKept DEF WorkFitsRequest
  <1>4. ASSUME NEW t \in Task, NEW o \in Requests, Call(t, o)
        PROVE  WorkFitsRequest'
    BY <1>4, FitsCall
  <1>5. ASSUME NEW t \in Task, NEW o \in Requests, CallEnds(t, o)
        PROVE  WorkFitsRequest'
    <2>1. \E r : Return(t, r)
      BY <1>5 DEF CallEnds
    <2>2. /\ live' = live /\ prev' = prev /\ stale' = stale
          /\ \A u \in Task \ {t} : op'[u] = op[u]
      BY <1>1, <1>5 DEF CallEnds, TypeOK
    <2>3. QED
      BY <1>1, <2>1, <2>2, FitsReturn
  <1>6. ASSUME NEW t \in Task, Enter(t) PROVE WorkFitsRequest'
    <2>1. op[t] \in Op /\ stale[t] \in SUBSET Addr /\ pc[t] \notin Inside
      BY <1>1, <1>6 DEF Enter, TypeOK, Inside
    <2>2. QED
      BY <1>6, <2>1, FitsEnter DEF Enter
  <1>7. ASSUME NEW t \in Task, ExecutorStep(t) PROVE WorkFitsRequest'
    BY <1>1, <1>7, FitsExecutor
  <1>8. ASSUME NEW t \in Task, Resume(t) PROVE WorkFitsRequest'
    <2>1. /\ pc[t] \in Inside /\ UNCHANGED <<op, stale, prev>>
          /\ \E r : Return(t, r)
      BY <1>8 DEF Resume, FinishMutate, FinishCancelled, RollBack, FinishAdd,
                  FailAdd, FinishLoad, Leave, Inside
    <2>2. QED
      BY <1>1, <1>2, <2>1, FitsReturn
  <1>9. ASSUME NEW t \in Task, Cancel(t) PROVE WorkFitsRequest'
    <2>1. UNCHANGED <<live, op, stale, prev>>
      BY <1>9 DEF Cancel, CancelQueued, CancelWrite, AbandonWrite,
                  CancelFailed, CancelAppend, CancelDone, CancelFailedAppend,
                  CancelUntouched
    <2>2. pc' = pc \/ \E r : Return(t, r)
      BY <1>9 DEF Cancel, CancelQueued, CancelWrite, AbandonWrite,
                  CancelFailed, CancelAppend, CancelDone, CancelFailedAppend,
                  Leave
    <2>3. QED
      BY <1>1, <1>3, <2>1, <2>2, FitsReturn
  <1>10. ASSUME NEW j \in orphans, OrphanEnds(j) PROVE WorkFitsRequest'
    BY <1>3, <1>10 DEF OrphanEnds
  <1>11. ASSUME NEW a \in Addr, NEW c \in Classes, SetClass(a, c)
         PROVE  WorkFitsRequest'
    BY <1>3, <1>11 DEF SetClass
  <1>12. CASE Crash
    BY <1>12 DEF Crash, WorkFitsRequest, FitsRequest
  <1>13. CASE UNCHANGED vars
    BY <1>3, <1>13 DEF vars
  <1>14. QED
    BY <1>4, <1>5, <1>6, <1>7, <1>8, <1>9, <1>10, <1>11, <1>12, <1>13 DEF Next

LEMMA WorkInit == Init => WorkFitsRequest
  BY DEF Init, WorkFitsRequest, FitsRequest

\* From Enter to its return a call's live bans are its request applied to the
\* bans it found there.
THEOREM WorkInvariance == Spec => []WorkFitsRequest
  BY WorkInit, WorkStep, Invariance, PTL DEF Spec

\* A trusted address gets a new exact ban only from an administrator's list, a
\* rolled-back removal or the file (allowlist_async_add_ban asks again inside
\* the lock).
THEOREM TrustedStayUnbanned == Spec => TrustedNotNewlyBanned
  <1> DEFINE Justified(a) ==
        class[a] = "trusted" =>
          \/ a \in file
          \/ \E t \in Task : pc[t] \in {"failed", "read"} /\ a \in prev[t]
          \/ \E t \in Task : op'[t].kind = "replace" /\ a \in op'[t].addrs
  <1>1. ASSUME TypeOK, [Next]_vars, NEW a \in live' \ live PROVE Justified(a)
    \* The critical section adds what its request names, and an add nothing
    \* that is trusted.
    <2>1. ASSUME NEW t \in Task, NEW o \in Op, NEW l, EnterWith(t, o, l),
                 op'[t] = o
          PROVE  Justified(a)
      <3>1. CASE EnterMutate(t, o, l)
        <4>1. a \in Mutated(o, l) /\ a \notin live /\ o.kind \in Mutators
          BY <1>1, <3>1 DEF EnterMutate
        <4>2. o.kind = "replace" /\ a \in o.addrs
          BY <4>1 DEF Mutated, Mutators
        <4>3. QED
          BY <2>1, <4>2
      <3>2. CASE EnterAdd(t, o)
        BY <1>1, <3>2 DEF EnterAdd
      <3>3. CASE EnterNotBanned(t, o) \/ EnterNoAdd(t, o) \/ EnterLoad(t, o)
        BY <1>1, <3>3 DEF EnterNotBanned, EnterNoAdd, EnterLoad
      <3>4. QED
        BY <2>1, <3>1, <3>2, <3>3 DEF EnterWith
    <2>2. ASSUME NEW t \in Task, NEW o \in Requests, Call(t, o)
          PROVE  Justified(a)
      <3>1. o \in Op /\ op'[t] = o
        BY <1>1, <2>2, RequestType DEF Call, TypeOK
      <3>2. EnterWith(t, o, Listed(o))
        BY <1>1, <2>2 DEF Call
      <3>3. QED
        BY <2>1, <3>1, <3>2
    <2>3. ASSUME NEW t \in Task, Enter(t) PROVE Justified(a)
      <3>1. op[t] \in Op /\ op' = op
        BY <1>1, <2>3 DEF Enter, TypeOK
      <3>2. QED
        BY <2>1, <2>3, <3>1 DEF Enter
    <2>4. ASSUME NEW t \in Task, Resume(t) PROVE Justified(a)
      BY <1>1, <2>4 DEF Resume, FinishMutate, FinishCancelled, RollBack,
                        FinishAdd, FailAdd, FinishLoad
    <2>5. CASE Crash
      BY <1>1, <2>5 DEF Crash
    <2>6. ASSUME NEW t \in Task, NEW o \in Requests, CallEnds(t, o) PROVE FALSE
      BY <1>1, <2>6 DEF CallEnds
    <2>7. ASSUME NEW t \in Task, ExecutorStep(t) PROVE FALSE
      BY <1>1, <2>7 DEF ExecutorStep, WriteLands, WriteFails, AppendLands,
                        AppendFails, ReadEnds
    <2>8. ASSUME NEW t \in Task, Cancel(t) PROVE FALSE
      BY <1>1, <2>8 DEF Cancel, CancelQueued, CancelWrite, AbandonWrite,
                        CancelFailed, CancelAppend, CancelDone,
                        CancelFailedAppend, CancelUntouched
    <2>9. ASSUME NEW j \in orphans, OrphanEnds(j) PROVE FALSE
      BY <1>1, <2>9 DEF OrphanEnds
    <2>10. ASSUME NEW b \in Addr, NEW c \in Classes, SetClass(b, c) PROVE FALSE
      BY <1>1, <2>10 DEF SetClass
    <2>11. CASE UNCHANGED vars
      BY <1>1, <2>11 DEF vars
    <2>12. QED
      BY <1>1, <2>2, <2>3, <2>4, <2>5, <2>6, <2>7, <2>8, <2>9, <2>10, <2>11
         DEF Next
  <1>2. TypeOK /\ [Next]_vars => [\A a \in live' \ live : Justified(a)]_vars
    BY <1>1
  <1>3. QED
    BY <1>2, TypeCorrect, PTL DEF Spec, TrustedNotNewlyBanned, Justified

\* The ip_unbanned event of a removal names a ban the same call took out.
THEOREM RemovalsAnnounceTheirOwn == Spec => RemovalEventIsOwn
  <1> DEFINE Own(p) ==
        op[p[1]].kind = "remove" => p[2] \in prev[p[1]] \ live
  <1>1. ASSUME IInv, WorkFitsRequest, [Next]_vars, NEW p \in unbanned' \ unbanned
        PROVE  Own(p)
    <2>1. ASSUME NEW t \in Task, FinishMutate(t) PROVE Own(p)
      <3>1. p[1] = t /\ p[2] \in Announced(t)
        BY <1>1, <2>1 DEF FinishMutate
      <3>2. FitsRequest(t) /\ pc[t] = "landed"
        BY <1>1, <2>1 DEF FinishMutate, WorkFitsRequest
      <3>3. ASSUME op[t].kind = "remove" PROVE p[2] \in prev[t] \ live
        BY <3>1, <3>2, <3>3 DEF FitsRequest, Changed, Announced
      <3>4. QED
        BY <3>1, <3>3
    <2>2. ASSUME unbanned' = unbanned PROVE FALSE
      BY <1>1, <2>2
    <2>3. ASSUME NEW t \in Task, NEW o \in Requests, Call(t, o) \/ CallEnds(t, o)
          PROVE  FALSE
      BY <2>2, <2>3 DEF Call, CallEnds, EnterWith
    <2>4. ASSUME NEW t \in Task, Enter(t) \/ ExecutorStep(t) \/ Cancel(t)
          PROVE  FALSE
      BY <2>2, <2>4 DEF Enter, EnterWith, ExecutorStep, WriteLands, WriteFails,
           AppendLands, AppendFails, ReadEnds, Cancel, CancelQueued, CancelWrite,
           AbandonWrite, CancelFailed, CancelAppend, CancelDone,
           CancelFailedAppend, CancelUntouched
    <2>5. ASSUME NEW t \in Task, Resume(t) PROVE Own(p)
      BY <2>1, <2>2, <2>5 DEF Resume, FinishCancelled, RollBack, FinishAdd,
                              FailAdd, FinishLoad
    <2>6. ASSUME NEW j \in orphans, OrphanEnds(j) PROVE FALSE
      BY <2>2, <2>6 DEF OrphanEnds
    <2>7. ASSUME NEW a \in Addr, NEW c \in Classes, SetClass(a, c) PROVE FALSE
      BY <2>2, <2>7 DEF SetClass
    <2>8. CASE Crash \/ UNCHANGED vars
      BY <2>2, <2>8 DEF Crash, vars
    <2>9. QED
      BY <1>1, <2>3, <2>4, <2>5, <2>6, <2>7, <2>8 DEF Next
  <1>2. IInv /\ WorkFitsRequest /\ [Next]_vars
        => [\A p \in unbanned' \ unbanned : Own(p)]_vars
    BY <1>1
  <1>3. QED
    BY <1>2, Invariance, WorkInvariance, PTL DEF Spec, RemovalEventIsOwn, Own

-----------------------------------------------------------------------------
(* The refinement: every step of the ban list is a step of AbstractBans, or *)
(* invisible there.                                                         *)

\* The bans the abstract list holds, by who is inside the lock.
LEMMA CommittedBans ==
    ASSUME IInv, WorkFitsRequest, NEW t \in Task
    PROVE  /\ lock = NoTask => Committed = live
           /\ pc[t] \in {"writing", "failed"} => Committed = prev[t]
           /\ pc[t] \in {"appending", "appendfailed"} =>
                Committed = live \ op[t].addrs
           /\ pc[t] \in {"landed", "appended", "loading", "read"} =>
                Committed = live
  BY ConstantsAssumption DEF IInv, HolderIsInside, Inside, Committed

\* A call that has reached its job and not its effect: its request applies to
\* the committed bans and makes the live ones of them.
LEMMA EffectIsLive ==
    ASSUME IInv, WorkFitsRequest, NEW t \in Task,
           pc[t] \in {"writing", "failed", "appending", "appendfailed"}
    PROVE  /\ Abstract!Applicable(AbstractRequest(t))
           /\ Abstract!Effect(AbstractRequest(t)) = live
           /\ AbstractPhase(t) = "pending"
  <1>1. AbstractPhase(t) = "pending"
    BY DEF AbstractPhase
  <1>2. CASE pc[t] \in {"writing", "failed"}
    <2>1. /\ Committed = prev[t] /\ op[t].kind \in Mutators
          /\ op[t].kind = "remove" => op[t].addrs \subseteq prev[t]
          /\ live = Changed(t)
      BY <1>2, CommittedBans DEF WorkFitsRequest, FitsRequest
    <2>2. Abstract!Applicable(AbstractRequest(t))
      BY <2>1 DEF Abstract!Applicable, AbstractRequest, Request
    <2>3. Abstract!Effect(AbstractRequest(t)) = live
      BY <2>1 DEF Abstract!Effect, AbstractRequest, Request, Changed, Mutators
    <2>4. QED
      BY <1>1, <2>2, <2>3
  <1>3. CASE pc[t] \in {"appending", "appendfailed"}
    <2>1. /\ Committed = live \ op[t].addrs /\ op[t].kind \in Adders
          /\ op[t].addrs \subseteq live
      BY <1>3, CommittedBans
         DEF WorkFitsRequest, FitsRequest, IInv, FileFollowsLive
    <2>2. Abstract!Applicable(AbstractRequest(t))
      BY <2>1 DEF Abstract!Applicable, AbstractRequest, Request, Adders
    <2>3. Abstract!Effect(AbstractRequest(t)) = live
      BY <2>1 DEF Abstract!Effect, AbstractRequest, Request, Adders
    <2>4. QED
      BY <1>1, <2>2, <2>3
  <1>4. QED
    BY <1>2, <1>3

\* Returning is the abstract call's end.
LEMMA ReturnEnds ==
    ASSUME TypeOK, NEW t \in Task, NEW r, Return(t, r)
    PROVE  Abstract!End(t, r)
  <1>1. \A u \in Task : AbstractPhase(u)' =
                          IF u = t THEN "done" ELSE AbstractPhase(u)
    BY DEF Return, TypeOK, AbstractPhase
  <1>2. outcome' = [outcome EXCEPT ![t] = r]
    BY DEF Return
  <1>3. QED
    BY <1>1, <1>2 DEF Abstract!End

\* Leaving the lock commits what is live.
LEMMA LeaveCommits ==
    ASSUME NEW t \in Task, NEW r, Leave(t, r)
    PROVE  Committed' = live' /\ Return(t, r)
  BY DEF Leave, Committed

\* What the caller asked for is fixed by the call.
LEMMA SameRequests ==
    ASSUME op' = op, stale' = stale
    PROVE  [t \in Task |-> AbstractRequest(t)]'
           = [t \in Task |-> AbstractRequest(t)]
  BY DEF AbstractRequest, Request

\* Steps the abstract list does not see.
LEMMA Invisible ==
    ASSUME UNCHANGED <<op, stale, outcome, unsaved>>, Committed' = Committed,
           \A t \in Task : AbstractPhase(t)' = AbstractPhase(t)
    PROVE  UNCHANGED Abstract!absVars
  BY SameRequests DEF Abstract!absVars

LEMMA InitRefines == Init => Abstract!Init
  <1> SUFFICES ASSUME Init PROVE Abstract!Init
    OBVIOUS
  <1>1. Committed \in SUBSET Addr
    BY DEF Init, Committed
  <1>2. [t \in Task |-> AbstractRequest(t)]
        = [t \in Task |-> [kind |-> "none", addrs |-> {}]]
    BY DEF Init, AbstractRequest, Request
  <1>3. [t \in Task |-> AbstractPhase(t)] = [t \in Task |-> "idle"]
    BY DEF Init, AbstractPhase
  <1>4. QED
    BY <1>1, <1>2, <1>3 DEF Init, Abstract!Init

\* The critical section as the abstract list sees it: a call that goes on is
\* still pending and has committed nothing, a call that returns declined.
LEMMA EnterRefines ==
    ASSUME IInv, NEW t \in Task, pc[t] \notin Inside, lock = NoTask,
           NEW o \in Op, NEW l, op'[t] = o, EnterWith(t, o, l)
    PROVE  /\ Committed' = Committed /\ Committed = live
           /\ unsaved' = unsaved
           /\ \/ /\ outcome' = outcome
                 /\ \A u \in Task : AbstractPhase(u)' =
                        IF u = t THEN "pending" ELSE AbstractPhase(u)
              \/ /\ o.kind = "remove" /\ ~ (o.addrs \subseteq live)
                 /\ Abstract!End(t, "error")
              \/ /\ o.kind \in Adders
                 /\ Abstract!End(t, "skipped")
  <1>1. TypeOK /\ Committed = live /\ unsaved' = unsaved /\ t # NoTask
    BY ConstantsAssumption DEF IInv, Committed, EnterWith
  <1>2. CASE EnterMutate(t, o, l)
    <2>1. lock' = t /\ pc'[t] = "writing" /\ prev'[t] = live
      BY <1>1, <1>2 DEF EnterMutate, TypeOK
    <2>2. Committed' = live
      BY <1>1, <2>1 DEF Committed
    <2>3. \A u \in Task : AbstractPhase(u)' =
                        IF u = t THEN "pending" ELSE AbstractPhase(u)
      BY <1>1, <1>2, <2>1 DEF EnterMutate, AbstractPhase, TypeOK
    <2>4. QED
      BY <1>1, <1>2, <2>2, <2>3 DEF EnterMutate
  <1>3. CASE EnterAdd(t, o)
    <2>1. /\ lock' = t /\ pc'[t] = "appending" /\ live' = live \cup o.addrs
          /\ live \cap o.addrs = {}
      BY <1>1, <1>3 DEF EnterAdd, TypeOK, InLookup
    <2>2. Committed' = live' \ o.addrs
      BY <1>1, <2>1 DEF Committed
    <2>3. \A u \in Task : AbstractPhase(u)' =
                        IF u = t THEN "pending" ELSE AbstractPhase(u)
      BY <1>1, <1>3, <2>1 DEF EnterAdd, AbstractPhase, TypeOK
    <2>4. Committed' = live
      BY <2>1, <2>2
    <2>5. QED
      BY <1>1, <1>3, <2>3, <2>4 DEF EnterAdd
  <1>4. CASE EnterLoad(t, o)
    <2>1. lock' = t /\ pc'[t] = "loading" /\ live' = live
      BY <1>1, <1>4 DEF EnterLoad, TypeOK
    <2>2. Committed' = live
      BY <1>1, <2>1 DEF Committed
    <2>3. \A u \in Task : AbstractPhase(u)' =
                        IF u = t THEN "pending" ELSE AbstractPhase(u)
      BY <1>1, <1>4, <2>1 DEF EnterLoad, AbstractPhase, TypeOK
    <2>4. QED
      BY <1>1, <1>4, <2>2, <2>3 DEF EnterLoad
  <1>5. CASE EnterNotBanned(t, o)
    <2>1. Committed' = live /\ Abstract!End(t, "error")
      BY <1>1, <1>5, ReturnEnds DEF EnterNotBanned, Committed
    <2>2. QED
      BY <1>1, <1>5, <2>1 DEF EnterNotBanned
  <1>6. CASE EnterNoAdd(t, o)
    <2>1. Committed' = live /\ Abstract!End(t, "skipped")
      BY <1>1, <1>6, ReturnEnds DEF EnterNoAdd, Committed
    <2>2. QED
      BY <1>1, <1>6, <2>1 DEF EnterNoAdd
  <1>7. QED
    BY <1>2, <1>3, <1>4, <1>5, <1>6 DEF EnterWith

\* A new call asks the abstract list for what it recorded.
LEMMA CallAsks ==
    ASSUME TypeOK, NEW t \in Task, pc[t] = "new", NEW o \in Requests,
           op' = [op EXCEPT ![t] = o], NEW l \in SUBSET Addr,
           stale' = [stale EXCEPT ![t] = l]
    PROVE  Abstract!Asks(t)
  <1>1. AbstractPhase(t) = "idle"
    BY DEF AbstractPhase
  <1>2. o \in Op /\ o.kind \in AllKinds
    BY ConstantsAssumption, RequestType DEF Requests, Request, AllKinds
  <1>3. AbstractRequest(t)' = Request(o.kind, IF o.kind = "setup" THEN l ELSE o.addrs)
    BY DEF AbstractRequest, TypeOK
  <1>4. \A u \in Task \ {t} : AbstractRequest(u)' = AbstractRequest(u)
    BY DEF AbstractRequest, Request, TypeOK
  <1>5. AbstractRequest(t)'.kind \in AllKinds /\ AbstractRequest(t)'.addrs \subseteq Addr
    BY <1>2, <1>3 DEF Request, Op
  <1>6. QED
    BY <1>1, <1>4, <1>5 DEF Abstract!Asks, AllKinds

LEMMA CallRefines ==
    ASSUME IInv, WorkFitsRequest, NEW t \in Task, NEW o \in Requests,
           Call(t, o)
    PROVE  Abstract!Invoke(t) \/ Abstract!InvokeAndDecline(t)
  <1>1. TypeOK /\ o \in Op /\ Listed(o) \in SUBSET Addr /\ pc[t] = "new"
    BY RequestType DEF IInv, Call
  <1>2. Abstract!Asks(t)
    BY <1>1, CallAsks DEF Call
  <1>3. op'[t] = o
    BY <1>1 DEF Call, TypeOK
  <1>4. /\ o.kind # "setup" => [u \in Task |-> AbstractRequest(u)]'[t] = o
        /\ [u \in Task |-> AbstractRequest(u)]'[t].kind = o.kind
    BY <1>1, <1>3 DEF AbstractRequest, Request, Op
  <1>5. CASE lock = NoTask /\ \A u \in Task : pc[u] # "queued"
    <2>1. EnterWith(t, o, Listed(o)) /\ pc[t] \notin Inside
      BY <1>1, <1>5 DEF Call, Inside
    <2>2. /\ Committed' = Committed /\ Committed = live
          /\ unsaved' = unsaved
          /\ \/ /\ outcome' = outcome
                /\ \A u \in Task : AbstractPhase(u)' =
                       IF u = t THEN "pending" ELSE AbstractPhase(u)
             \/ /\ o.kind = "remove" /\ ~ (o.addrs \subseteq live)
                /\ Abstract!End(t, "error")
             \/ /\ o.kind \in Adders
                /\ Abstract!End(t, "skipped")
      BY <1>1, <1>3, <1>5, <2>1, EnterRefines
    <2>3. CASE /\ outcome' = outcome
               /\ \A u \in Task : AbstractPhase(u)' =
                      IF u = t THEN "pending" ELSE AbstractPhase(u)
      BY <1>2, <2>2, <2>3 DEF Abstract!Invoke
    <2>4. CASE /\ o.kind = "remove" /\ ~ (o.addrs \subseteq live)
               /\ Abstract!End(t, "error")
      BY <1>2, <1>4, <2>2, <2>4
         DEF Abstract!InvokeAndDecline, Abstract!Applicable
    <2>5. CASE o.kind \in Adders /\ Abstract!End(t, "skipped")
      BY <1>2, <1>4, <2>2, <2>5 DEF Abstract!InvokeAndDecline, Adders
    <2>6. QED
      BY <2>2, <2>3, <2>4, <2>5
  <1>6. CASE ~ (lock = NoTask /\ \A u \in Task : pc[u] # "queued")
    <2>1. /\ pc' = [pc EXCEPT ![t] = "queued"]
          /\ UNCHANGED <<live, lock, prev, outcome, unsaved>>
      BY <1>6 DEF Call
    <2>2. \A u \in Task : AbstractPhase(u)' =
                        IF u = t THEN "pending" ELSE AbstractPhase(u)
      BY <1>1, <2>1 DEF AbstractPhase, TypeOK
    <2>3. lock # t
      BY <1>1 DEF IInv, HolderIsInside, Inside
    <2>4. lock \in Task \ {t} \/ lock = NoTask
      BY <1>1, <2>3 DEF TypeOK
    <2>5. Committed' = Committed
      <3>1. CASE lock = NoTask
        BY <2>1, <3>1 DEF Committed
      <3>2. CASE lock \in Task \ {t}
        <4>1. pc'[lock] = pc[lock] /\ op'[lock] = op[lock]
          BY <1>1, <2>1, <3>2 DEF TypeOK, Call
        <4>2. QED
          BY <2>1, <4>1 DEF Committed
      <3>3. QED
        BY <2>4, <3>1, <3>2
    <2>6. QED
      BY <1>2, <2>1, <2>2, <2>5 DEF Abstract!Invoke
  <1>7. QED
    BY <1>5, <1>6

LEMMA CallEndsRefines ==
    ASSUME IInv, WorkFitsRequest, NEW t \in Task, NEW o \in Requests,
           CallEnds(t, o)
    PROVE  Abstract!InvokeAndDecline(t)
  <1>1. TypeOK /\ o \in Op /\ pc[t] = "new" /\ stale[t] = {}
    BY RequestType DEF IInv, CallEnds, WorkFitsRequest, FitsRequest
  <1>2. stale' = stale /\ stale = [stale EXCEPT ![t] = {}]
    BY <1>1 DEF CallEnds, TypeOK
  <1>3. Abstract!Asks(t)
    BY <1>1, <1>2, CallAsks DEF CallEnds
  <1>4. op'[t] = o /\ stale'[t] = {}
    BY <1>1, <1>2 DEF CallEnds, TypeOK
  <1>5. /\ [u \in Task |-> AbstractRequest(u)]'[t].kind = o.kind
        /\ o.kind = "setup" => [u \in Task |-> AbstractRequest(u)]'[t].addrs = {}
    BY <1>4 DEF AbstractRequest, Request
  <1>6. \/ o.kind = "add" /\ Return(t, "rejected")
        \/ o.kind = "setup" /\ Return(t, "ok")
    BY DEF CallEnds, Refused
  <1>7. \/ o.kind = "add" /\ Abstract!End(t, "rejected")
        \/ o.kind = "setup" /\ Abstract!End(t, "ok")
    BY <1>1, <1>6, ReturnEnds
  <1>8. Committed' = Committed /\ unsaved' = unsaved
    <2>1. lock # t
      BY <1>1 DEF IInv, HolderIsInside, Inside
    <2>2. lock \in Task => pc'[lock] = pc[lock] /\ op'[lock] = op[lock]
      BY <1>1, <2>1 DEF CallEnds, Return, TypeOK
    <2>3. QED
      BY <1>1, <2>2 DEF CallEnds, Committed, TypeOK
  <1>9. QED
    BY <1>3, <1>5, <1>7, <1>8 DEF Abstract!InvokeAndDecline

LEMMA EnterStepRefines ==
    ASSUME IInv, WorkFitsRequest, NEW t \in Task, Enter(t)
    PROVE  Abstract!Decline(t) \/ UNCHANGED Abstract!absVars
  <1>1. /\ TypeOK /\ op[t] \in Op /\ op'[t] = op[t] /\ pc[t] = "queued"
        /\ pc[t] \notin Inside
    BY DEF IInv, Enter, TypeOK, Inside
  <1>2. AbstractPhase(t) = "pending"
    BY <1>1 DEF AbstractPhase
  <1>3. /\ Committed' = Committed /\ Committed = live
        /\ unsaved' = unsaved
        /\ \/ /\ outcome' = outcome
              /\ \A u \in Task : AbstractPhase(u)' =
                     IF u = t THEN "pending" ELSE AbstractPhase(u)
           \/ /\ op[t].kind = "remove" /\ ~ (op[t].addrs \subseteq live)
              /\ Abstract!End(t, "error")
           \/ /\ op[t].kind \in Adders
              /\ Abstract!End(t, "skipped")
    BY <1>1, EnterRefines DEF Enter
  <1>4. op' = op /\ stale' = stale
    BY DEF Enter
  <1>5. CASE /\ outcome' = outcome
             /\ \A u \in Task : AbstractPhase(u)' =
                    IF u = t THEN "pending" ELSE AbstractPhase(u)
    BY <1>2, <1>3, <1>4, <1>5, Invisible
  <1>6. CASE Abstract!End(t, "error")
    BY <1>2, <1>3, <1>4, <1>6, SameRequests DEF Abstract!Decline
  <1>7. CASE op[t].kind \in Adders /\ Abstract!End(t, "skipped")
    <2>1. AbstractRequest(t).kind \in {"add", "login"}
      BY <1>7 DEF AbstractRequest, Request, Adders
    <2>2. QED
      BY <1>2, <1>3, <1>4, <1>7, <2>1, SameRequests DEF Abstract!Decline
  <1>8. QED
    BY <1>3, <1>5, <1>6, <1>7

\* The executor job lands, which is where the call takes effect, or fails,
\* which nobody sees yet.
LEMMA ExecutorRefines ==
    ASSUME IInv, WorkFitsRequest, NEW t \in Task, ExecutorStep(t)
    PROVE  Abstract!Apply(t) \/ UNCHANGED Abstract!absVars
  <1>1. TypeOK /\ lock = t /\ lock # NoTask
    BY ConstantsAssumption
       DEF IInv, HolderIsInside, Inside, ExecutorStep, WriteLands, WriteFails,
           AppendLands, AppendFails, ReadEnds
  <1>2. /\ UNCHANGED <<live, op, stale, lock, outcome>>
        /\ ~ ReadEnds(t) => prev' = prev
    BY DEF ExecutorStep, WriteLands, WriteFails, AppendLands, AppendFails,
           ReadEnds
  <1>3. ~ ReadEnds(t) =>
        /\ Abstract!Applicable(AbstractRequest(t))
        /\ Abstract!Effect(AbstractRequest(t)) = live
        /\ AbstractPhase(t) = "pending"
    BY EffectIsLive DEF ExecutorStep, WriteLands, WriteFails, AppendLands,
                        AppendFails
  <1>4. CASE WriteLands(t) \/ AppendLands(t)
    <2> ~ ReadEnds(t)
      BY <1>4 DEF WriteLands, AppendLands, ReadEnds
    <2>1. /\ pc'[t] \in {"landed", "appended"}
          /\ \A u \in Task \ {t} : pc'[u] = pc[u]
      BY <1>1, <1>4 DEF WriteLands, AppendLands, TypeOK
    <2>2. Committed' = live
      BY <1>1, <1>2, <2>1 DEF Committed
    <2>3. \A u \in Task : AbstractPhase(u)' =
                        IF u = t THEN "applied" ELSE AbstractPhase(u)
      BY <2>1 DEF AbstractPhase
    <2>4. unsaved' \in {unsaved, {}}
      BY <1>4 DEF WriteLands, AppendLands
    <2>5. QED
      BY <1>2, <1>3, <2>2, <2>3, <2>4, SameRequests DEF Abstract!Apply
  <1>5. CASE WriteFails(t) \/ AppendFails(t)
    <2> ~ ReadEnds(t)
      BY <1>5 DEF WriteFails, AppendFails, ReadEnds
    <2>1. /\ \/ pc[t] = "writing" /\ pc'[t] = "failed"
             \/ pc[t] = "appending" /\ pc'[t] = "appendfailed"
          /\ \A u \in Task \ {t} : pc'[u] = pc[u]
          /\ unsaved' = unsaved
      BY <1>1, <1>5 DEF WriteFails, AppendFails, TypeOK
    <2>2. Committed' = Committed
      BY <1>1, <1>2, <2>1 DEF Committed
    <2>3. \A u \in Task : AbstractPhase(u)' = AbstractPhase(u)
      BY <2>1 DEF AbstractPhase
    <2>4. QED
      BY <1>2, <2>1, <2>2, <2>3, Invisible
  <1>6. CASE ReadEnds(t)
    <2>1. /\ pc[t] = "loading" /\ pc'[t] = "read" /\ unsaved' = unsaved
          /\ \A u \in Task \ {t} : pc'[u] = pc[u]
      BY <1>1, <1>6 DEF ReadEnds, TypeOK
    <2>2. Committed' = Committed
      BY <1>1, <1>2, <2>1 DEF Committed
    <2>3. \A u \in Task : AbstractPhase(u)' = AbstractPhase(u)
      BY <2>1 DEF AbstractPhase
    <2>4. QED
      BY <1>2, <2>1, <2>2, <2>3, Invisible
  <1>7. QED
    BY <1>4, <1>5, <1>6 DEF ExecutorStep

\* The three ways out of the lock.  After the job has landed the call replies:
\* its effect is already committed.
LEMMA LeaveReplies ==
    ASSUME IInv, WorkFitsRequest, NEW t \in Task,
           pc[t] \in {"landed", "appended"},
           NEW r \in {"ok", "cancelled"}, Leave(t, r),
           UNCHANGED <<live, op, stale, unsaved>>
    PROVE  Abstract!Reply(t)
  <1>1. TypeOK /\ Committed = live /\ Committed' = live'
    BY CommittedBans, LeaveCommits DEF IInv
  <1>2. AbstractPhase(t) = "applied"
    BY DEF AbstractPhase
  <1>3. Abstract!End(t, r)
    BY <1>1, LeaveCommits, ReturnEnds
  <1>4. QED
    BY <1>1, <1>2, <1>3, SameRequests DEF Abstract!Reply

\* Before the job has ended the live bans stay and become the committed ones,
\* with the addresses they may lose again recorded as unsaved.
LEMMA LeaveInterrupts ==
    ASSUME IInv, WorkFitsRequest, NEW t \in Task,
           pc[t] \in {"writing", "failed", "appending", "appendfailed"},
           NEW r, Leave(t, r),
           r = "cancelled" \/ (r = "error" /\ pc[t] = "appendfailed"),
           UNCHANGED <<live, op, stale>>,
           unsaved \subseteq unsaved', unsaved' \subseteq Addr
    PROVE  Abstract!Interrupt(t)
  <1>1. TypeOK /\ Committed' = live
    BY LeaveCommits DEF IInv
  <1>2. /\ Abstract!Applicable(AbstractRequest(t))
        /\ Abstract!Effect(AbstractRequest(t)) = live
        /\ AbstractPhase(t) = "pending"
    BY EffectIsLive
  <1>3. Abstract!End(t, r)
    BY <1>1, LeaveCommits, ReturnEnds
  <1>4. pc[t] = "appendfailed" => AbstractRequest(t).kind \in {"add", "login"}
    BY DEF WorkFitsRequest, FitsRequest, AbstractRequest, Request, Adders
  <1>5. QED
    BY <1>1, <1>2, <1>3, <1>4, SameRequests DEF Abstract!Interrupt

\* With the committed bans live again nothing has happened.
LEMMA LeaveDeclines ==
    ASSUME IInv, WorkFitsRequest, NEW t \in Task, pc[t] \in {"failed", "loading", "read"},
           NEW r \in {"error", "cancelled"}, Leave(t, r),
           live' = Committed, UNCHANGED <<op, stale, unsaved>>
    PROVE  Abstract!Decline(t)
  <1>1. TypeOK /\ Committed' = Committed
    BY LeaveCommits DEF IInv
  <1>2. AbstractPhase(t) = "pending"
    BY DEF AbstractPhase
  <1>3. Abstract!End(t, r)
    BY <1>1, LeaveCommits, ReturnEnds
  <1>4. QED
    BY <1>1, <1>2, <1>3, SameRequests DEF Abstract!Decline

\* A call that resumes replies to what it applied, declines after a rollback,
\* is interrupted by a failed append, or reloads.
LEMMA ResumeRefines ==
    ASSUME IInv, WorkFitsRequest, NEW t \in Task, Resume(t)
    PROVE  \/ Abstract!Reply(t) \/ Abstract!Decline(t)
           \/ Abstract!Interrupt(t) \/ Abstract!Reload(t)
  <1>1. CASE FinishMutate(t) \/ FinishCancelled(t) \/ FinishAdd(t)
    BY <1>1, LeaveReplies DEF FinishMutate, FinishCancelled, FinishAdd
  <1>2. CASE RollBack(t)
    <2>1. live' = Committed
      BY <1>2, CommittedBans DEF RollBack
    <2>2. QED
      BY <1>2, <2>1, LeaveDeclines DEF RollBack
  <1>3. CASE FailAdd(t)
    <2>1. unsaved \subseteq unsaved' /\ unsaved' \subseteq Addr
      BY <1>3 DEF FailAdd, IInv, TypeOK, Op
    <2>2. QED
      BY <1>3, <2>1, LeaveInterrupts DEF FailAdd
  <1>4. CASE FinishLoad(t)
    <2>1. TypeOK /\ Committed = live /\ Committed' = live' /\ Leave(t, "ok")
      BY <1>4, CommittedBans, LeaveCommits DEF IInv, FinishLoad
    <2>2. AbstractPhase(t) = "pending" /\ AbstractRequest(t).kind = "load"
      BY <1>4 DEF FinishLoad, AbstractPhase, WorkFitsRequest, FitsRequest,
                  AbstractRequest, Request
    <2>3. live' \ unsaved = live \ unsaved /\ live' \subseteq Addr
      BY <1>4 DEF FinishLoad, IInv, TypeOK, FileFollowsLive, Agree
    <2>4. unsaved' \in {unsaved, {}} /\ op' = op /\ stale' = stale
      BY <1>4 DEF FinishLoad
    <2>5. Abstract!End(t, "ok")
      BY <2>1, ReturnEnds, LeaveCommits
    <2>6. QED
      BY <2>1, <2>2, <2>3, <2>4, <2>5, SameRequests DEF Abstract!Reload
  <1>5. QED
    BY <1>1, <1>2, <1>3, <1>4 DEF Resume

LEMMA CancelRefines ==
    ASSUME IInv, WorkFitsRequest, NEW t \in Task, Cancel(t)
    PROVE  \/ Abstract!Reply(t) \/ Abstract!Decline(t)
           \/ Abstract!Interrupt(t) \/ UNCHANGED Abstract!absVars
  <1> USE DEF CancelUntouched
  <1>1. TypeOK /\ op[t].addrs \subseteq Addr /\ unsaved \subseteq Addr
    BY DEF IInv, TypeOK, Op
  <1>2. CASE CancelQueued(t)
    <2>1. lock # t
      BY <1>2 DEF CancelQueued, IInv, HolderIsInside, Inside
    <2>2. lock \in Task => pc'[lock] = pc[lock]
      BY <1>1, <1>2, <2>1 DEF CancelQueued, Return, TypeOK
    <2>3. Committed' = Committed
      BY <1>1, <1>2, <2>2 DEF CancelQueued, Committed, TypeOK
    <2>4. AbstractPhase(t) = "pending" /\ Abstract!End(t, "cancelled")
      BY <1>1, <1>2, ReturnEnds DEF CancelQueued, AbstractPhase
    <2>5. QED
      BY <1>2, <2>3, <2>4, SameRequests DEF CancelQueued, Abstract!Decline
  <1>3. CASE CancelWrite(t)
    BY <1>3, Invisible DEF CancelWrite, Committed, AbstractPhase
  <1>4. CASE AbandonWrite(t)
    BY <1>1, <1>4, LeaveInterrupts DEF AbandonWrite
  <1>5. CASE CancelFailed(t)
    <2>1. unsaved \subseteq unsaved' /\ unsaved' \subseteq Addr
      BY <1>1, <1>5 DEF CancelFailed, TypeOK
    <2>2. QED
      BY <1>5, <2>1, LeaveInterrupts DEF CancelFailed
  <1>6. CASE CancelAppend(t)
    BY <1>1, <1>6, LeaveInterrupts DEF CancelAppend
  <1>7. CASE CancelFailedAppend(t)
    BY <1>1, <1>7, LeaveInterrupts DEF CancelFailedAppend
  <1>8. CASE CancelDone(t)
    <2>1. CASE pc[t] \in {"landed", "appended"}
      BY <1>8, <2>1, LeaveReplies DEF CancelDone
    <2>2. CASE pc[t] \in {"loading", "read"}
      <3>1. live' = Committed
        BY <1>8, <2>2, CommittedBans DEF CancelDone
      <3>2. QED
        BY <1>8, <2>2, <3>1, LeaveDeclines DEF CancelDone
    <2>3. QED
      BY <1>8, <2>1, <2>2 DEF CancelDone
  <1>9. QED
    BY <1>2, <1>3, <1>4, <1>5, <1>6, <1>7, <1>8 DEF Cancel

\* A restart finds the committed bans in the file, up to the unsaved ones.
LEMMA CrashRefines ==
    ASSUME IInv, WorkFitsRequest, Crash
    PROVE  Abstract!Restart
  <1>1. TypeOK /\ Committed' = file
    BY DEF IInv, Crash, Committed
  <1>2. Committed \ unsaved = file \ unsaved
    <2>1. CASE lock = NoTask
      BY <2>1, CommittedBans DEF IInv, FileFollowsLive, Agree, Committed
    <2>2. CASE lock \in Task
      <3>1. pc[lock] \in Inside
        BY <2>2 DEF IInv, HolderIsInside
      <3>2. QED
        BY <2>2, <3>1, CommittedBans DEF IInv, FileFollowsLive, Agree, Inside
    <2>3. QED
      BY <1>1, <2>1, <2>2 DEF TypeOK
  <1>3. file \subseteq Addr /\ unsaved' = {} /\ op' = op /\ stale' = stale
    BY <1>1 DEF Crash, TypeOK
  <1>4. \A t \in Task : AbstractPhase(t)' =
                      IF AbstractPhase(t) = "idle" THEN "idle" ELSE "done"
    BY DEF Crash, AbstractPhase
  <1>5. \A t \in Task : AbstractPhase(t) \in {"idle", "done"} <=>
                      pc[t] \in {"new", "done"}
    BY DEF AbstractPhase
  <1>6. outcome' = [t \in Task |->
                      IF AbstractPhase(t) \in {"idle", "done"} THEN outcome[t]
                                                               ELSE "lost"]
    BY <1>5 DEF Crash
  <1>7. QED
    BY <1>1, <1>2, <1>3, <1>4, <1>6, SameRequests DEF Abstract!Restart

LEMMA StepRefines ==
    IInv /\ WorkFitsRequest /\ [Next]_vars => [Abstract!Next]_Abstract!absVars
  <1> SUFFICES ASSUME IInv, WorkFitsRequest, [Next]_vars
               PROVE  Abstract!Next \/ UNCHANGED Abstract!absVars
    OBVIOUS
  <1>1. ASSUME UNCHANGED <<live, lock, pc, op, stale, prev, outcome, unsaved>>
        PROVE  UNCHANGED Abstract!absVars
    BY <1>1, Invisible DEF Committed, AbstractPhase
  <1>2. ASSUME NEW t \in Task, NEW o \in Requests, Call(t, o)
        PROVE  Abstract!Next
    BY <1>2, CallRefines DEF Abstract!Next
  <1>3. ASSUME NEW t \in Task, NEW o \in Requests, CallEnds(t, o)
        PROVE  Abstract!Next
    BY <1>3, CallEndsRefines DEF Abstract!Next
  <1>4. ASSUME NEW t \in Task, Enter(t)
        PROVE  Abstract!Next \/ UNCHANGED Abstract!absVars
    BY <1>4, EnterStepRefines DEF Abstract!Next
  <1>5. ASSUME NEW t \in Task, ExecutorStep(t)
        PROVE  Abstract!Next \/ UNCHANGED Abstract!absVars
    BY <1>5, ExecutorRefines DEF Abstract!Next
  <1>6. ASSUME NEW t \in Task, Resume(t) PROVE Abstract!Next
    BY <1>6, ResumeRefines DEF Abstract!Next
  <1>7. ASSUME NEW t \in Task, Cancel(t)
        PROVE  Abstract!Next \/ UNCHANGED Abstract!absVars
    BY <1>7, CancelRefines DEF Abstract!Next
  <1>8. ASSUME NEW j \in orphans, OrphanEnds(j)
        PROVE  UNCHANGED Abstract!absVars
    BY <1>1, <1>8 DEF OrphanEnds
  <1>9. ASSUME NEW a \in Addr, NEW c \in Classes, SetClass(a, c)
        PROVE  UNCHANGED Abstract!absVars
    BY <1>1, <1>9 DEF SetClass
  <1>10. CASE Crash
    BY <1>10, CrashRefines DEF Abstract!Next
  <1>11. CASE UNCHANGED vars
    BY <1>1, <1>11 DEF vars
  <1>12. QED
    BY <1>2, <1>3, <1>4, <1>5, <1>6, <1>7, <1>8, <1>9, <1>10, <1>11 DEF Next

\* Every call on the ban list is atomic: it takes effect at most once, between
\* its invocation and its reply, on the bans then in force.  A call that fails
\* has no effect, unless it was cut off with its job running or failed: then it
\* has its effect and the bans marked unsaved may not survive a restart.  A
\* reload, whatever lands between its read and its return, changes none but
\* those.
THEOREM BansAreAtomic == Spec => ImplementsAbstractBans
  <1>1. Init => Abstract!Init
    BY InitRefines
  <1>2. IInv /\ WorkFitsRequest /\ [Next]_vars
        => [Abstract!Next]_Abstract!absVars
    BY StepRefines
  <1>3. QED
    BY <1>1, <1>2, Invariance, WorkInvariance, PTL
       DEF Spec, ImplementsAbstractBans, Abstract!Spec
=============================================================================
