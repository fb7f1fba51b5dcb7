----------------------------- MODULE MCAllowlist -----------------------------
(***************************************************************************)
(* Model checking of Allowlist: a container on its subnet and on Docker's  *)
(* bridge, and the hostname of a remote phone.  The subnet and the bridge's*)
(* gateway are the detected paths; neither address of theirs is Home       *)
(* Assistant's own, so default deny can shut out both.                     *)
(***************************************************************************)
EXTENDS Allowlist, TLC

CONSTANTS local, remote, self, docker, inner, home,
          lan, phone, bridge, gateway, supervisor, loop

MCCovers == (lan :> {local, self}) @@ (bridge :> {docker, inner})
                @@ (gateway :> {docker}) @@ (supervisor :> {})
                @@ (loop :> {home})
MCAnswers == {{}, {remote}}
MCAdapters == {[net |-> lan, own |-> self, on |-> TRUE, main |-> TRUE],
               [net |-> bridge, own |-> inner, on |-> TRUE, main |-> FALSE]}
=============================================================================
