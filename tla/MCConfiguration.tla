--------------------------- MODULE MCConfiguration ---------------------------
(***************************************************************************)
(* Model checking of Configuration: two calls, one network that is local,  *)
(* two countries, and requests that turn each setting.                     *)
(***************************************************************************)
EXTENDS Configuration

CONSTANTS home, ca, nl

MCOverlaps == [r \in Rule |-> {}]
Off == [on |-> FALSE, rules |-> {}]
On == [on |-> TRUE, rules |-> {ca}]
MCSaved ==
    {[allow |-> {home}, block |-> {home}, deny |-> TRUE, region |-> Off,
      geo |-> FALSE, npm |-> TRUE],
     [allow |-> {}, block |-> {}, deny |-> FALSE, region |-> On,
      geo |-> TRUE, npm |-> FALSE]}
MCOptions ==
    {[NoRequest EXCEPT !.deny = {TRUE}, !.region = {[on |-> TRUE, rules |-> {}]},
                       !.confirmed = TRUE],
     [NoRequest EXCEPT !.geo = {FALSE}, !.npm = {TRUE}],
     [NoRequest EXCEPT !.region = {On}, !.confirmed = TRUE],
     [NoRequest EXCEPT !.deny = {TRUE}, !.region = {On}]}
MCImports ==
    {[NoRequest EXCEPT !.kind = "import", !.allow = {{}}, !.deny = {FALSE},
                       !.block = {{}}, !.npm = {FALSE}],
     [NoRequest EXCEPT !.kind = "import", !.deny = {TRUE}, !.npm = {TRUE},
                       !.region = {On}]}
MCForms ==
    {[NoRequest EXCEPT !.kind = "configure", !.allow = {{home}}, !.deny = {TRUE},
                       !.block = {{home}}, !.geo = {FALSE}],
     [NoRequest EXCEPT !.kind = "configure", !.allow = {{}}, !.deny = {FALSE},
                       !.block = {{}}, !.geo = {TRUE}]}
=============================================================================
