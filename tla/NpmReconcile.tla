---------------------------- MODULE NpmReconcile ----------------------------
(***************************************************************************)
(* One policy transaction at a time against Nginx Proxy Manager: enable,   *)
(* synchronize or disable the managed block of every protected proxy host, *)
(* host by host over HTTP, and put earlier hosts back when one fails.      *)
(*                                                                         *)
(* A step is one HTTP request and what the code does with its answer up to *)
(* the next request.  A failed request may still have changed the host (a  *)
(* timeout after it landed).  The text of the block is a policy version;   *)
(* whatever makes a host's update fail before it is sent (a conflicting    *)
(* custom location, a damaged marker, a renamed access list) is a failed   *)
(* request that did not land.  Hosts are not created or deleted.           *)
(***************************************************************************)
EXTENDS Naturals, Sequences

CONSTANTS
    Host,           \* proxy host ids
    Selected,       \* proxy_host_id
    Directives,     \* what the owner writes in advanced_config
    MaxPolicy,      \* bound: local policies in force, one after the other
    MaxEdits,       \* bound: changes by the owner of the proxy
    MaxOps,         \* bound: transactions begun
    Faults          \* requests that may fail: fetch, update, nginx, delete, cut

ASSUME ConstantsAssumption ==
    /\ Host \subseteq Nat \ {0} /\ Selected \in Host
    /\ Directives # {}
    /\ MaxPolicy \in Nat \ {0} /\ MaxEdits \in Nat /\ MaxOps \in Nat
    /\ Faults \subseteq {"fetch", "update", "nginx", "delete", "cut"}

VARIABLES
    remote,     \* the proxy hosts as NPM stores them
    listExists, \* the legacy access list is still there
    policy,     \* the rules the integration would write now
    cfg,        \* the stored connection
    job,        \* the running transaction
    pc,         \* the request it is waiting for
    snap,       \* hosts as proxy_hosts() returned them
    want,       \* desired_rules; 0 is no managed block
    todo,       \* hosts still to update
    changed,    \* hosts updated, in order
    failed,     \* history: hosts one of whose requests failed
    edited,     \* history: hosts the owner touched since snap
    result,     \* how the last transaction ended
    edits, ops  \* counters of the bounds

vars == <<remote, listExists, policy, cfg, job, pc, snap, want, todo, changed,
          failed, edited, result, edits, ops>>

HostRecord == [user : Directives, block : 0..MaxPolicy, list : BOOLEAN,
               active : BOOLEAN]
Config == [enabled : BOOLEAN, all : BOOLEAN, managed : SUBSET Host,
           list : BOOLEAN]
Job == [kind : {"none", "enable", "sync", "disable"}, all : BOOLEAN,
        list : BOOLEAN]
NoJob == [kind |-> "none", all |-> FALSE, list |-> FALSE]

TypeOK ==
    /\ remote \in [Host -> HostRecord] /\ snap \in [Host -> HostRecord]
    /\ listExists \in BOOLEAN
    /\ policy \in 1..MaxPolicy
    /\ cfg \in Config /\ job \in Job
    /\ pc \in {"idle", "fetching", "updating", "checking", "restoring",
               "deleting", "rolling"}
    /\ want \in [Host -> 0..MaxPolicy]
    /\ todo \in SUBSET Host /\ changed \in Seq(Host)
    /\ failed \in SUBSET Host /\ edited \in SUBSET Host
    /\ result \in {"none", "ok", "error", "cut"}
    /\ edits \in 0..MaxEdits /\ ops \in 0..MaxOps

\* Not yet enabled, or enabled by a version that used an access list, which
\* only the selected host refers to.
Init ==
    /\ cfg \in {[enabled |-> e, all |-> FALSE, managed |-> {}, list |-> e] :
                  e \in BOOLEAN}
    /\ listExists = cfg.list
    /\ \E on \in [Host -> BOOLEAN] :
          remote = [h \in Host |->
                      [user |-> CHOOSE u \in Directives : TRUE, block |-> 0,
                       active |-> on[h], list |-> h = Selected /\ cfg.list]]
    /\ snap = remote
    /\ policy = 1
    /\ job = NoJob
    /\ pc = "idle"
    /\ want = [h \in Host |-> 0]
    /\ todo = {} /\ changed = <<>>
    /\ failed = {} /\ edited = {}
    /\ result = "none"
    /\ edits = 0 /\ ops = 0

-----------------------------------------------------------------------------
(* The plan of a transaction.                                               *)

\* Mutant: hosts are taken in the order of their ids.
EarlierById(h, k) == h < k

\* The selected host comes last: it owns the legacy access list.
Earlier(h, k) == h # Selected /\ (k = Selected \/ h < k)
Turn(S) == CHOOSE h \in S : \A k \in S \ {h} : Earlier(h, k)

Targets ==
    CASE job.kind = "disable" -> {}
      [] job.kind # "disable" /\ job.all -> {h \in Host : remote[h].active}
      [] OTHER -> {Selected}

\* Mutant: only the hosts the stored connection remembers are looked at.
OperationIdsStored ==
    cfg.managed \cup Targets \cup IF cfg.enabled THEN {Selected} ELSE {}

\* previous_host_ids, discovered by their marker, or desired.
OperationIds ==
    cfg.managed \cup Targets \cup {h \in Host : remote[h].block # 0}
        \cup IF cfg.enabled THEN {Selected} ELSE {}

Detaches(h, hosts) == h = Selected /\ job.list /\ hosts[h].list

\* Hosts whose stored configuration is not the desired one.
Stale(wanted) ==
    {h \in OperationIds : \/ remote[h].block # wanted[h]
                          \/ Detaches(h, remote)}

\* What a transaction that succeeded stores.
Stored(wanted) ==
    IF job.kind = "disable"
    THEN [enabled |-> FALSE, all |-> job.all, managed |-> {}, list |-> FALSE]
    ELSE [enabled |-> TRUE, all |-> job.all, list |-> FALSE,
          managed |-> {h \in Host : wanted[h] # 0}]

Ends(r) == pc' = "idle" /\ result' = r /\ job' = NoJob
Succeeds(wanted) == Ends("ok") /\ cfg' = Stored(wanted)

-----------------------------------------------------------------------------
(* Requests of a transaction.                                               *)

\* async_sync_npm forgets the access list before it reconciles.
Begin(kind, all) ==
    /\ pc = "idle" /\ ops < MaxOps
    /\ kind = "sync" => cfg.enabled /\ all = cfg.all
    /\ job' = [kind |-> kind, all |-> all, list |-> kind # "sync" /\ cfg.list]
    /\ pc' = "fetching"
    /\ ops' = ops + 1
    /\ snap' = remote /\ want' = [h \in Host |-> 0]
    /\ todo' = {} /\ changed' = <<>>
    /\ failed' = {} /\ edited' = {}
    /\ UNCHANGED <<remote, listExists, policy, cfg, result, edits>>

Fetched ==
    /\ pc = "fetching"
    /\ snap' = remote
    /\ want' = [h \in Host |-> IF h \in Targets THEN policy ELSE 0]
    /\ todo' = Stale(want')
    /\ edited' = {}
    /\ IF job.kind # "disable" /\ Targets = {}
       THEN Ends("error") /\ UNCHANGED cfg
       ELSE IF todo' = {} THEN Succeeds(want')
       ELSE pc' = "updating" /\ UNCHANGED <<cfg, job, result>>
    /\ UNCHANGED <<remote, listExists, policy, changed, failed, edits, ops>>

FetchFails ==
    /\ "fetch" \in Faults
    /\ pc = "fetching"
    /\ Ends("error")
    /\ UNCHANGED <<remote, listExists, policy, cfg, snap, want, todo, changed,
                   failed, edited, edits, ops>>

\* Mutant: the block is added without taking the old one out.
WrittenTwice(h) ==
    [remote[h] EXCEPT !.user = snap[h].user, !.block = snap[h].block + want[h],
                      !.list = @ /\ ~ Detaches(h, snap)]

\* The record an update of h makes of what NPM has now.
Written(h) ==
    [remote[h] EXCEPT !.user = snap[h].user, !.block = want[h],
                      !.list = @ /\ ~ Detaches(h, snap)]

Lands(h, record) == remote' = [remote EXCEPT ![h] = record]
MayLand(h, record) == Lands(h, record) \/ UNCHANGED remote

HostDone(h) ==
    /\ changed' = Append(changed, h)
    /\ todo' = todo \ {h}
    /\ IF todo' = {} THEN Succeeds(want)
       ELSE pc' = "updating" /\ UNCHANGED <<cfg, job, result>>

\* The exception handler of _reconcile_proxy_policies.
HostFailed(h) ==
    /\ failed' = failed \cup {h}
    /\ IF changed = <<>> THEN Ends("error")
       ELSE pc' = "rolling" /\ UNCHANGED <<job, result>>
    /\ UNCHANGED <<cfg, todo, changed>>

UpdateSucceeds ==
    /\ pc = "updating"
    /\ LET h == Turn(todo) IN
          /\ Lands(h, Written(h))
          /\ IF h = Selected /\ job.list /\ listExists
             THEN pc' = "deleting" /\ UNCHANGED <<cfg, job, todo, changed, result>>
             ELSE HostDone(h)
    /\ UNCHANGED <<listExists, policy, snap, want, failed, edited, edits, ops>>

UpdateFails ==
    /\ "update" \in Faults
    /\ pc = "updating"
    /\ LET h == Turn(todo) IN MayLand(h, Written(h)) /\ HostFailed(h)
    /\ UNCHANGED <<listExists, policy, snap, want, edited, edits, ops>>

\* NPM stored the update and NGINX refused it (nginx_online is false).
UpdateRejected ==
    /\ "nginx" \in Faults
    /\ pc = "updating"
    /\ LET h == Turn(todo) IN Lands(h, Written(h)) /\ failed' = failed \cup {h}
    /\ pc' = "checking"
    /\ UNCHANGED <<listExists, policy, cfg, job, snap, want, todo, changed,
                   edited, result, edits, ops>>

\* Restore only a host that still holds what was written.
Checked ==
    /\ pc = "checking"
    /\ LET h == Turn(todo) IN
          IF /\ remote[h].user = snap[h].user /\ remote[h].block = want[h]
             /\ remote[h].list = (snap[h].list /\ ~ Detaches(h, snap))
          THEN /\ pc' = "restoring"
               /\ UNCHANGED <<cfg, job, todo, changed, failed, result>>
          ELSE HostFailed(h)
    /\ UNCHANGED <<remote, listExists, policy, snap, want, edited, edits, ops>>

\* Mutant: when the check fails the update is sent again.
CheckFailsRetries ==
    /\ "fetch" \in Faults
    /\ pc = "checking"
    /\ pc' = "updating"
    /\ UNCHANGED <<remote, listExists, policy, cfg, job, snap, want, todo,
                   changed, failed, edited, result, edits, ops>>

CheckFails ==
    /\ "fetch" \in Faults
    /\ pc = "checking"
    /\ HostFailed(Turn(todo))
    /\ UNCHANGED <<remote, listExists, policy, snap, want, edited, edits, ops>>

Restored(h) ==
    [remote[h] EXCEPT !.user = snap[h].user, !.block = snap[h].block,
                      !.list = IF Detaches(h, snap) THEN snap[h].list ELSE @]

\* The restoring update, which may itself fail.
RestoreEnds ==
    /\ pc = "restoring"
    /\ LET h == Turn(todo) IN
          /\ \/ Lands(h, Restored(h))
             \/ "update" \in Faults /\ UNCHANGED remote
          /\ HostFailed(h)
    /\ UNCHANGED <<listExists, policy, snap, want, edited, edits, ops>>

\* NPM takes a deleted list off every host.
ListGone ==
    /\ listExists' = FALSE
    /\ remote' = [h \in Host |-> [remote[h] EXCEPT !.list = FALSE]]

DeleteSucceeds ==
    /\ pc = "deleting"
    /\ ListGone
    /\ HostDone(Selected)
    /\ UNCHANGED <<policy, snap, want, failed, edited, edits, ops>>

DeleteFails ==
    /\ "delete" \in Faults
    /\ pc = "deleting"
    /\ ListGone \/ UNCHANGED <<remote, listExists>>
    /\ HostFailed(Selected)
    /\ UNCHANGED <<policy, snap, want, edited, edits, ops>>

RolledBack(h) ==
    [remote[h] EXCEPT !.user = snap[h].user, !.block = snap[h].block,
                      !.list = snap[h].list]

\* Mutant: the first failing rollback request ends the rollback.
RollBackGivesUp ==
    /\ pc = "rolling"
    /\ LET h == changed[Len(changed)] IN
          \/ Lands(h, RolledBack(h)) /\ UNCHANGED failed
             /\ changed' = SubSeq(changed, 1, Len(changed) - 1)
          \/ /\ "update" \in Faults
             /\ MayLand(h, RolledBack(h)) /\ failed' = failed \cup {h}
             /\ changed' = <<>>
    /\ IF changed' = <<>> THEN Ends("error") ELSE UNCHANGED <<pc, job, result>>
    /\ UNCHANGED <<listExists, policy, cfg, snap, want, todo, edited, edits, ops>>

\* The hosts changed so far are put back, last first; a failure is noted and
\* the others still are.
RollBack ==
    /\ pc = "rolling"
    /\ LET h == changed[Len(changed)] IN
          \/ Lands(h, RolledBack(h)) /\ UNCHANGED failed
          \/ /\ "update" \in Faults
             /\ MayLand(h, RolledBack(h)) /\ failed' = failed \cup {h}
    /\ changed' = SubSeq(changed, 1, Len(changed) - 1)
    /\ IF changed' = <<>> THEN Ends("error") ELSE UNCHANGED <<pc, job, result>>
    /\ UNCHANGED <<listExists, policy, cfg, snap, want, todo, edited, edits, ops>>

\* The process ends, or a second CancelledError reaches the transaction, with
\* a request on its way: nothing is rolled back.
CutOff ==
    /\ "cut" \in Faults
    /\ pc # "idle"
    /\ CASE pc = "updating" -> MayLand(Turn(todo), Written(Turn(todo)))
                               /\ UNCHANGED listExists
         [] pc = "restoring" -> MayLand(Turn(todo), Restored(Turn(todo)))
                               /\ UNCHANGED listExists
         [] pc = "rolling" -> LET h == changed[Len(changed)] IN
                               MayLand(h, RolledBack(h)) /\ UNCHANGED listExists
         [] pc = "deleting" -> ListGone \/ UNCHANGED <<remote, listExists>>
         [] OTHER -> UNCHANGED <<remote, listExists>>
    /\ Ends("cut")
    /\ UNCHANGED <<policy, cfg, snap, want, todo, changed, failed, edited, edits,
                   ops>>

-----------------------------------------------------------------------------
(* Everybody else.                                                          *)

SetPolicy ==
    /\ policy < MaxPolicy
    /\ policy' = policy + 1
    /\ UNCHANGED <<remote, listExists, cfg, job, pc, snap, want, todo, changed,
                   failed, edited, result, edits, ops>>

\* The owner of the proxy edits, strips or switches a host.
OwnerChanges(h) ==
    /\ edits < MaxEdits
    /\ \E r \in {[remote[h] EXCEPT !.user = u] : u \in Directives}
                 \cup {[remote[h] EXCEPT !.block = 0],
                       [remote[h] EXCEPT !.active = ~ @]} :
          r # remote[h] /\ Lands(h, r)
    /\ edited' = edited \cup {h}
    /\ edits' = edits + 1
    /\ UNCHANGED <<listExists, policy, cfg, job, pc, snap, want, todo, changed,
                   failed, result, ops>>

Answered ==
    \/ Fetched \/ FetchFails \/ UpdateSucceeds \/ UpdateFails \/ UpdateRejected
    \/ Checked \/ CheckFails \/ RestoreEnds \/ DeleteSucceeds \/ DeleteFails
    \/ RollBack

Next ==
    \/ \E kind \in {"enable", "sync", "disable"}, all \in BOOLEAN :
          Begin(kind, all)
    \/ Answered \/ CutOff \/ SetPolicy
    \/ \E h \in Host : OwnerChanges(h)

Spec == Init /\ [][Next]_vars

\* Every request is answered or times out (NPM_REQUEST_TIMEOUT).
FairSpec == Spec /\ WF_vars(Answered)

-----------------------------------------------------------------------------
\* A transaction that reports success has left every host as it planned, on
\* hosts of this and of any earlier, failed or interrupted one: the managed
\* block with the current rules on the protected hosts and nowhere else.
SuccessIsComplete ==
    [][pc # "idle" /\ pc' = "idle" /\ result' = "ok" =>
          \A h \in Host \ edited' : remote'[h].block = want'[h]]_vars

\* A transaction that reports an error has put back every host it changed but
\* those one of whose own requests failed, whatever order things failed in.
OthersPutBack ==
    [][pc # "idle" /\ pc' = "idle" /\ result' = "error" =>
          \A h \in Host \ (edited' \cup failed') :
              pc # "fetching" => remote'[h] = snap[h]]_vars

\* No host is ever pointed at the legacy access list after it was deleted:
\* the list goes last, and nothing that follows brings a reference back.
ListOutlivesReferences == \A h \in Host : remote[h].list => listExists

\* Every transaction ends, so the next one gets the policy lock.
EveryTransactionEnds == pc # "idle" ~> pc = "idle"

-----------------------------------------------------------------------------
\* CHANGELOG: synchronization "rolls back every affected host if an update
\* fails".  When a transaction reports an error and every request of the
\* rollback succeeded, the hosts are as they were.
RollsBackEveryHost ==
    [][pc # "idle" /\ pc' = "idle" /\ result' = "error" /\ pc # "fetching" =>
          \A h \in Host \ edited' : remote'[h] = snap[h]]_vars
=============================================================================
