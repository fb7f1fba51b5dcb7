----------------------------- MODULE AbstractBans -----------------------------
(***************************************************************************)
(* What the exact ban list promises its callers: one set of bans that      *)
(* survives a restart, to which every call applies at most once, in one    *)
(* indivisible step between its invocation and its reply.  A call that     *)
(* reports an error or a refusal has changed nothing, with one exception   *)
(* the native ban manager brings along (Interrupt): a call cut off in the  *)
(* middle may take effect without the promise to survive, and a rewrite of *)
(* the whole list that is cut off takes the promise from every address.    *)
(***************************************************************************)
CONSTANTS Addr, Task

VARIABLES
    store,  \* the bans in force
    weak,   \* addresses for which a restart may not find what store says
    req,    \* what each call asked for
    phase,  \* idle, pending, applied, done
    reply   \* what the caller was told

absVars == <<store, weak, req, phase, reply>>

Init ==
    /\ store \in SUBSET Addr
    /\ weak = {}
    /\ req = [t \in Task |-> [kind |-> "none", addrs |-> {}]]
    /\ phase = [t \in Task |-> "idle"]
    /\ reply = [t \in Task |-> "none"]

\* The set a request makes of the current one; a remove needs its address.
Applicable(o) == o.kind = "remove" => o.addrs \subseteq store

Effect(o) ==
    CASE o.kind \in {"add", "login"}    -> store \cup o.addrs
      [] o.kind \in {"remove", "setup"} -> store \ o.addrs
      [] o.kind = "clear"               -> {}
      [] o.kind = "replace"             -> o.addrs
      [] OTHER                          -> store

End(t, r) ==
    /\ phase' = [phase EXCEPT ![t] = "done"]
    /\ reply' = [reply EXCEPT ![t] = r]

\* The caller hands over any request it likes.
Asks(t) ==
    /\ phase[t] = "idle"
    /\ req'[t].kind \in {"add", "login", "remove", "clear", "setup", "replace",
                         "load"}
    /\ req'[t].addrs \subseteq Addr
    /\ req' = [req EXCEPT ![t] = req'[t]]

Invoke(t) ==
    /\ Asks(t)
    /\ phase' = [phase EXCEPT ![t] = "pending"]
    /\ UNCHANGED <<store, weak, reply>>

\* Answered on the spot, with nothing changed.
InvokeAndDecline(t) ==
    /\ Asks(t)
    /\ LET o == req'[t] IN
          \/ o.kind = "add" /\ End(t, "rejected")
          \/ o.kind \in {"add", "login"} /\ End(t, "skipped")
          \/ o.kind = "remove" /\ ~ Applicable(o) /\ End(t, "error")
          \/ o.kind = "setup" /\ o.addrs = {} /\ End(t, "ok")
    /\ UNCHANGED <<store, weak>>

Apply(t) ==
    /\ phase[t] = "pending"
    /\ Applicable(req[t])
    /\ store' = Effect(req[t])
    /\ weak' \in {weak, {}}
    /\ phase' = [phase EXCEPT ![t] = "applied"]
    /\ UNCHANGED <<req, reply>>

Reply(t) ==
    /\ phase[t] = "applied"
    /\ \E r \in {"ok", "cancelled"} : End(t, r)
    /\ UNCHANGED <<store, weak, req>>

\* Ends without effect.  Only an add may do so and look like a success.
Decline(t) ==
    /\ phase[t] = "pending"
    /\ \/ \E r \in {"error", "cancelled"} : End(t, r)
       \/ req[t].kind \in {"add", "login"} /\ End(t, "skipped")
    /\ UNCHANGED <<store, weak, req>>

\* Cut off between the live set and the disk.
Interrupt(t) ==
    /\ phase[t] = "pending"
    /\ Applicable(req[t])
    /\ store' = Effect(req[t])
    /\ weak \subseteq weak' /\ weak' \subseteq Addr
    /\ \/ End(t, "cancelled")
       \/ req[t].kind \in {"add", "login"} /\ End(t, "error")
    /\ UNCHANGED req

\* A reload changes nothing that was promised.
Reload(t) ==
    /\ phase[t] = "pending"
    /\ req[t].kind = "load"
    /\ store' \subseteq Addr
    /\ store' \ weak = store \ weak
    /\ weak' \in {weak, {}}
    /\ End(t, "ok")
    /\ UNCHANGED req

Restart ==
    /\ store' \subseteq Addr
    /\ store' \ weak = store \ weak
    /\ weak' = {}
    /\ phase' = [t \in Task |-> IF phase[t] = "idle" THEN "idle" ELSE "done"]
    /\ reply' = [t \in Task |->
                   IF phase[t] \in {"idle", "done"} THEN reply[t] ELSE "lost"]
    /\ UNCHANGED req

Next ==
    \/ \E t \in Task :
          \/ Invoke(t) \/ InvokeAndDecline(t)
          \/ Apply(t) \/ Reply(t) \/ Decline(t) \/ Interrupt(t) \/ Reload(t)
    \/ Restart

Spec == Init /\ [][Next]_absVars
=============================================================================
