------------------------ MODULE Configuration_proofs ------------------------
(***************************************************************************)
(* Proofs about Configuration, for every set of calls, requests, entries   *)
(* and rules: between transactions what is enforced is what is saved, no   *)
(* checked edit locks the owner out, a region lock can tell regions, and   *)
(* the edits that were acknowledged are there, wherever one failed.        *)
(***************************************************************************)
EXTENDS Configuration, TLAPS

PlanType == [allow : SUBSET Entry, block : SUBSET Net, deny : BOOLEAN,
             region : Settings, geo : BOOLEAN, npm : BOOLEAN]
TxType == [who : Call \cup {Idle}, stage : {"none"} \cup Awaits \cup Undoing,
           base : Options, plan : PlanType]
LiveType == [allow : SUBSET Entry, block : SUBSET Net, deny : BOOLEAN,
             region : Regions]
EditType == [on : BOOLEAN, list : {"allow", "block"}, allow : SUBSET Entry,
             block : SUBSET Net, deny : BOOLEAN]
CallType == [pc : {"new", "waiting", "in", "done"}, req : Requests]

Kind(k) == tx.who # Idle /\ Req.kind = k

\* A request is one the assumptions allow, or an edit of the rules that were
\* read; the form was validated.
RequestFits(r) ==
    /\ r.read # {} =>
          /\ r.kind = "options"
          /\ \E old \in Regions, rules \in SUBSET Rule :
                r.read = {old} /\ r.region = {[old EXCEPT !.rules = rules]}
    /\ r.kind = "import" => r.region \in Optional(Regions)
    /\ r.kind = "configure" =>
          /\ r.region = {}
          /\ Safe(Or(r.allow, {}), Or(r.block, {}), Or(r.deny, FALSE))
          /\ r.allow # {} /\ r.block # {} /\ r.deny # {}

CallsFit == \A c \in Call : RequestFits(call[c].req)

OptionStages == {"check", "file", "open", "panel", "attach"}
ImportStages == {"prepare", "check", "detach", "dns", "file", "open", "panel", "bans"}

\* The transaction goes through the stages of its kind, with the plan it was
\* made with; a region that is not acceptable comes no further than the check.
TxFits ==
    /\ tx.who = Idle <=> tx.stage = "none"
    /\ tx.who # Idle => call[tx.who].pc = "in"
    /\ Kind("options") => tx.stage \in OptionStages \cup Undoing
    /\ Kind("import") => tx.stage \in ImportStages \cup Undoing
    /\ Kind("configure") => tx.stage \in {"panel", "dns", "bans"} \cup Undoing
    /\ tx.who # Idle => tx.plan.region = Or(Req.region, tx.base.region)
    /\ Kind("options") \/ Kind("import") => (tx.plan.region.on => tx.plan.geo)
    /\ Kind("import") => tx.plan.region \in Regions
    /\ Kind("options") /\ tx.stage \in {"file", "open"} =>
          tx.plan.region \in Regions
    /\ Kind("configure") =>
          /\ Safe(tx.plan.allow, tx.plan.block, tx.plan.deny)
          /\ tx.plan.region = tx.base.region

\* Where the switches of the plan are in the entry already.
Wrote ==
    \/ Kind("configure") /\ tx.stage \in Awaits
    \/ Kind("options") /\ tx.stage \in {"panel", "attach"}
    \/ Kind("import") /\ tx.stage \in {"dns", "file", "open", "panel", "bans"}

\* Nobody else writes the switches: they are those of the plan, or of before.
SwitchesFit ==
    tx.who # Idle /\ tx.stage \notin {"undo", "undo_detach"} =>
        IF Wrote
        THEN /\ opts.deny = tx.plan.deny /\ opts.region = tx.plan.region
             /\ opts.geo = tx.plan.geo
        ELSE /\ opts.deny = tx.base.deny /\ opts.region = tx.base.region
             /\ opts.geo = tx.base.geo

\* What is enforced is behind what is saved in few stages.
Behind ==
    \/ tx.stage \in {"undo", "undo_detach", "undo_dns"}
    \/ Kind("import") /\ tx.stage = "dns"

LevelFits ==
    "broken" \notin marks /\ ~ Behind =>
        /\ \/ Kind("configure") /\ tx.stage = "panel"
           \/ live.deny = opts.deny /\ live.region = opts.region
        /\ "overwrote" \notin marks =>
              /\ live.allow = opts.allow
              /\ \/ Kind("configure") /\ tx.stage = "panel"
                 \/ live.block = opts.block

\* Each list was checked with the list and the switches it is written beside;
\* the form's are together only once its blocked networks are written again.
SafeFits ==
    /\ edit.on => Safe(edit.allow, edit.block, edit.deny)
    /\ marks \cap {"crossed", "overwrote", "broken"} = {} =>
          /\ tx.who # Idle => Safe(tx.base.allow, tx.base.block, tx.base.deny)
          /\ \/ tx.stage \in {"undo", "undo_detach"}
             \/ Kind("configure") /\ tx.stage \in {"panel", "dns"}
             \/ Safe(opts.allow, opts.block, opts.deny)
          /\ \/ tx.stage \in {"dns", "undo", "undo_detach", "undo_dns"}
             \/ Kind("configure") /\ tx.stage = "panel" /\ "early" \in marks
             \/ Safe(live.allow, live.block, live.deny)
          /\ Kind("options") /\ tx.stage \in {"file", "open"} =>
                Safe(tx.base.allow, tx.base.block, tx.plan.deny)
          /\ Kind("import") /\ tx.stage = "detach" =>
                Safe(tx.plan.allow, tx.plan.block, tx.plan.deny)

\* A lock has GeoIP on, and the reader that was there at first.
GeoFits ==
    "darkened" \notin marks =>
        /\ opts.region.on => opts.geo
        /\ tx.who # Idle => (tx.base.region.on => tx.base.geo)

ReaderFits ==
    marks \cap {"darkened", "broken"} = {} /\ files = 0 /\ file =>
        /\ \/ tx.stage \in {"undo", "undo_detach", "undo_dns", "undo_open"}
           \/ opts.region.on => reader
        /\ Kind("import") /\ tx.stage \in {"check", "detach"} => (tx.plan.region.on => reader)

\* Acknowledged edits started from the rules that were acknowledged before.
RegionFits ==
    "overlapped" \notin marks =>
        /\ tx.who = Idle => opts.region = acked
        /\ tx.who # Idle =>
              tx.base.region = acked /\ (Req.read = {} \/ tx.base.region \in Req.read)

Fits ==
    /\ CallsFit /\ TxFits /\ SwitchesFit /\ LevelFits /\ SafeFits /\ GeoFits
    /\ ReaderFits /\ RegionFits /\ EdgeHearsOfOptions
Inv == TypeOK /\ Fits

-----------------------------------------------------------------------------
(* Fields, requests and plans.                                             *)

LEMMA OrIs ==
    ASSUME NEW S, NEW field \in Optional(S), NEW default
    PROVE  /\ field = {} => Or(field, default) = default
           /\ field # {} => Or(field, default) \in S /\ field = {Or(field, default)}
  <1>1. CASE field = {}
    BY <1>1 DEF Or
  <1>2. CASE field # {}
    <2>1. PICK x \in S : field = {x}
      BY <1>2 DEF Optional
    <2>2. (CHOOSE y \in field : TRUE) = x
      BY <2>1
    <2> QED
      BY <1>2, <2>1, <2>2 DEF Or
  <1> QED
    BY <1>1, <1>2

LEMMA OrTyped ==
    ASSUME NEW S, NEW field \in Optional(S), NEW default \in S
    PROVE  Or(field, default) \in S
  BY OrIs

LEMMA OrOf ==
    ASSUME NEW x, NEW default
    PROVE  Or({x}, default) = x
  BY DEF Or

LEMMA RegionsTyped == /\ Regions \subseteq Settings
                      /\ \A o \in Options : o.region \in Settings /\ o \in PlanType
  BY DEF Regions, Options, PlanType

LEMMA BlankTyped == Blank \in Options /\ Blank \in PlanType /\ NoTx \in TxType
  <1>1. [on |-> FALSE, rules |-> {}] \in Regions
    BY DEF Regions, Settings
  <1>2. Blank \in Options
    BY <1>1 DEF Blank, Options
  <1> QED
    BY <1>2, RegionsTyped DEF NoTx, TxType

LEMMA NoRequestTyped == NoRequest \in Requests /\ RequestFits(NoRequest) /\ Over \in CallType
  BY DEF NoRequest, Requests, Optional, RequestFits, Over, CallType

LEMMA Moved ==
    ASSUME TypeOK, NEW stage \in Awaits \cup Undoing, Move(stage)
    PROVE  /\ tx' \in TxType /\ tx'.who = tx.who /\ tx'.stage = stage
           /\ tx'.base = tx.base /\ tx'.plan = tx.plan
  BY DEF TypeOK, Move, TxType, PlanType

LEMMA Left ==
    ASSUME TypeOK, tx.who # Idle, Leave
    PROVE  /\ tx' \in TxType /\ tx'.who = Idle /\ tx'.stage = "none"
           /\ call' \in [Call -> CallType]
           /\ CallsFit => CallsFit'
  <1>1. tx' \in TxType /\ tx'.who = Idle /\ tx'.stage = "none"
    BY BlankTyped DEF Leave, NoTx
  <1>2. tx.who \in Call /\ call \in [Call -> CallType]
    BY DEF TypeOK, CallType
  <1>3. call' = [call EXCEPT ![tx.who] = Over]
    BY DEF Leave
  <1>4. call' \in [Call -> CallType]
    BY <1>2, <1>3, NoRequestTyped
  <1>5. CallsFit => CallsFit'
    BY <1>2, <1>3, NoRequestTyped DEF CallsFit, Over
  <1> QED
    BY <1>1, <1>4, <1>5

LEMMA ReqTyped ==
    ASSUME TypeOK, tx.who # Idle
    PROVE  Req \in Requests /\ tx.who \in Call
  BY DEF TypeOK, Req

LEMMA PlanIs ==
    ASSUME TypeOK, NEW r \in Requests, RequestFits(r)
    PROVE  /\ Plan(r) \in PlanType
           /\ Plan(r).region = Or(r.region, opts.region)
           /\ r.kind # "configure" => (Plan(r).region.on => Plan(r).geo)
           /\ r.kind = "import" => Plan(r).region \in Regions
           /\ r.kind = "configure" =>
                 /\ Plan(r).region = opts.region
                 /\ Safe(Plan(r).allow, Plan(r).block, Plan(r).deny)
  <1>0. /\ opts.allow \in SUBSET Entry /\ opts.block \in SUBSET Net
        /\ opts.deny \in BOOLEAN /\ opts.region \in Regions
        /\ opts.geo \in BOOLEAN /\ opts.npm \in BOOLEAN
    BY DEF TypeOK, Options
  <1>r. /\ r.allow \in Optional(SUBSET Entry) /\ r.block \in Optional(SUBSET Net)
        /\ r.deny \in Optional(BOOLEAN)
        /\ r.region \in Optional(Settings) /\ r.geo \in Optional(BOOLEAN)
        /\ r.npm \in Optional(BOOLEAN)
    BY DEF Requests
  <1> DEFINE region == Or(r.region, opts.region)
             allow == Or(r.allow, opts.allow)
             block == Or(r.block, opts.block)
             deny == Or(r.deny, opts.deny)
             npm == Or(r.npm, opts.npm)
             geo == Or(r.geo, opts.geo) \/ (region.on /\ r.kind # "configure")
  <1>1. /\ allow \in SUBSET Entry /\ block \in SUBSET Net
        /\ deny \in BOOLEAN /\ npm \in BOOLEAN
        /\ region \in Settings
    BY <1>0, <1>r, OrTyped, RegionsTyped
  <1>2. /\ geo \in BOOLEAN
        /\ r.kind # "configure" => (region.on => geo)
    BY <1>0, <1>r, <1>1 DEF Settings
  <1>3. r.kind = "import" => region \in Regions
    BY <1>0, OrTyped DEF RequestFits
  <1>4. r.kind = "configure" => region = opts.region /\ Safe(allow, block, deny)
    <2> SUFFICES ASSUME r.kind = "configure"
                 PROVE  region = opts.region /\ Safe(allow, block, deny)
      OBVIOUS
    <2>1. region = opts.region
      BY DEF RequestFits, Or
    <2>2. /\ r.allow # {} /\ r.block # {} /\ r.deny # {}
          /\ Safe(Or(r.allow, {}), Or(r.block, {}), Or(r.deny, FALSE))
      BY DEF RequestFits
    <2>3. Or(r.allow, {}) = CHOOSE x \in r.allow : TRUE
      BY <2>2 DEF Or
    <2>4. allow = CHOOSE x \in r.allow : TRUE
      BY <2>2 DEF Or
    <2>5. Or(r.deny, FALSE) = CHOOSE x \in r.deny : TRUE
      BY <2>2 DEF Or
    <2>6. deny = CHOOSE x \in r.deny : TRUE
      BY <2>2 DEF Or
    <2>7. Or(r.block, {}) = CHOOSE x \in r.block : TRUE
      BY <2>2 DEF Or
    <2>8. block = CHOOSE x \in r.block : TRUE
      BY <2>2 DEF Or
    <2> HIDE DEF allow, block, deny
    <2> QED
      BY <2>1, <2>2, <2>3, <2>4, <2>5, <2>6, <2>7, <2>8
  <1>5. Plan(r) = [allow |-> allow, block |-> block, deny |-> deny, region |-> region, npm |-> npm, geo |-> geo]
    BY DEF Plan
  <1> HIDE DEF region, allow, block, deny, npm, geo
  <1>6. /\ Plan(r) \in PlanType
        /\ Plan(r).region = region /\ Plan(r).geo = geo
        /\ Plan(r).allow = allow /\ Plan(r).block = block /\ Plan(r).deny = deny
    BY <1>1, <1>2, <1>5 DEF PlanType
  <1> QED
    BY <1>2, <1>3, <1>4, <1>6 DEF region

LEMMA Kept ==
    ASSUME call' = call, tx'.who = tx.who
    PROVE  Req' = Req
  BY DEF Req

-----------------------------------------------------------------------------
(* The service starts.                                                     *)

LEMMA InitInv ==
    ASSUME ConfigurationAssumption, Init
    PROVE  Inv
  <1>1. /\ opts \in Options /\ Safe(opts.allow, opts.block, opts.deny)
        /\ opts.region.on => opts.geo
    BY DEF Init, ConfigurationAssumption, Safe
  <1>2. /\ tx = NoTx /\ tx.who = Idle /\ tx.stage = "none" /\ tx \in TxType
        /\ edit = NoEdit /\ edit.on = FALSE /\ marks = {} /\ owed = FALSE
        /\ acked = opts.region /\ files = 0 /\ edits = 0
        /\ live = Enforced(opts) /\ live.allow = opts.allow /\ live.block = opts.block
        /\ live.deny = opts.deny /\ live.region = opts.region
    BY BlankTyped DEF Init, NoTx, NoEdit, Enforced
  <1>3. call \in [Call -> CallType] /\ CallsFit
    BY NoRequestTyped DEF Init, CallsFit, CallType
  <1>4. live \in LiveType /\ edit \in EditType
    BY <1>1, <1>2 DEF Options, Enforced, LiveType, NoEdit, EditType
  <1>5. reader \in BOOLEAN /\ file \in BOOLEAN /\ (opts.region.on /\ file => reader)
    BY <1>1 DEF Init, Options
  <1>6. opts.region \in Settings
    BY <1>1, RegionsTyped
  <1>7. TypeOK
    <2>1. 0 \in 0 .. MaxEdits /\ 0 \in 0 .. MaxFiles
      BY DEF ConfigurationAssumption
    <2> QED
      BY <1>1, <1>2, <1>3, <1>4, <1>5, <1>6, <2>1
      DEF TypeOK, TxType, PlanType, LiveType, CallType, EditType
  <1>8. TxFits /\ SwitchesFit /\ LevelFits /\ EdgeHearsOfOptions
    BY <1>2 DEF TxFits, SwitchesFit, LevelFits, EdgeHearsOfOptions, Kind, Wrote
  <1>9. SafeFits /\ GeoFits /\ ReaderFits /\ RegionFits
    BY <1>1, <1>2, <1>5 DEF SafeFits, GeoFits, ReaderFits, RegionFits, Kind
  <1> QED
    BY <1>3, <1>7, <1>8, <1>9 DEF Inv, Fits

-----------------------------------------------------------------------------
(* Requests.  A call that is no transaction's changes nothing else.        *)

LEMMA Called ==
    ASSUME Inv, NEW c \in Call, NEW cc \in CallType,
           call[c].pc = "new", RequestFits(cc.req),
           call' = [call EXCEPT ![c] = cc], Waiting
    PROVE  Inv'
  <1>1. call \in [Call -> CallType] /\ call' \in [Call -> CallType]
    BY DEF Inv, TypeOK, CallType
  <1>2. UNCHANGED <<opts, live, reader, file, tx, edit, edits, files, owed, marks, acked>>
    BY DEF Waiting
  <1>3. TypeOK'
    BY <1>1, <1>2 DEF Inv, TypeOK, CallType
  <1>4. CallsFit'
    BY <1>1 DEF Inv, Fits, CallsFit
  <1>5. tx.who # Idle => call'[tx.who] = call[tx.who]
    BY <1>1 DEF Inv, Fits, TxFits, TypeOK
  <1>6. tx'.who = tx.who /\ (tx.who # Idle => Req' = Req)
    BY <1>2, <1>5 DEF Req
  <1>7. TxFits'
    BY <1>2, <1>5, <1>6 DEF Inv, Fits, TxFits, Kind
  <1>8. SwitchesFit' /\ LevelFits'
    BY <1>2, <1>6 DEF Inv, Fits, SwitchesFit, LevelFits, Kind, Wrote, Behind
  <1>9. SafeFits' /\ GeoFits' /\ ReaderFits'
    BY <1>2, <1>6 DEF Inv, Fits, SafeFits, GeoFits, ReaderFits, Kind, Safe
  <1>10. RegionFits' /\ EdgeHearsOfOptions'
    BY <1>2, <1>6 DEF Inv, Fits, RegionFits, EdgeHearsOfOptions
  <1> QED
    BY <1>3, <1>4, <1>7, <1>8, <1>9, <1>10 DEF Inv, Fits

LEMMA AskedInv ==
    ASSUME Inv, NEW c \in Call, NEW r \in Requests, RequestFits(r),
           call[c].pc = "new", Ask(c, r), Waiting
    PROVE  Inv'
  <1> DEFINE cc == [pc |-> "waiting", req |-> r]
  <1>1. cc \in CallType /\ cc.req = r /\ call' = [call EXCEPT ![c] = cc]
    BY DEF Ask, CallType
  <1> HIDE DEF cc
  <1> QED
    BY <1>1, Called

LEMMA RefusedInv ==
    ASSUME Inv, NEW c \in Call, call[c].pc = "new", Refuse(c), Waiting
    PROVE  Inv'
  <1>1. Over.req = NoRequest /\ call' = [call EXCEPT ![c] = Over]
    BY DEF Refuse, Over
  <1> QED
    BY <1>1, Called, NoRequestTyped

LEMMA RulesInv ==
    ASSUME Inv, NEW c \in Call, NEW rules \in SUBSET Rule,
           call[c].pc = "new", AskRules(c, rules), Waiting
    PROVE  Inv'
  <1> DEFINE new == [opts.region EXCEPT !.rules = rules]
             r == [NoRequest EXCEPT !.confirmed = TRUE, !.read = {opts.region},
                                    !.region = {new}]
  <1>1. opts.region \in Regions /\ opts.region \in Settings
    BY RegionsTyped DEF Inv, TypeOK, Options
  <1>2. new \in Settings
    BY <1>1 DEF Settings
  <1> HIDE DEF new
  <1>3. NoRequest.kind = "options" /\ NoRequest \in Requests
    BY NoRequestTyped DEF NoRequest
  <1>4. {new} \in Optional(Settings) /\ {opts.region} \in Optional(Regions)
    BY <1>1, <1>2 DEF Optional
  <1>5. /\ r \in Requests /\ r.kind = "options" /\ r.read = {opts.region}
        /\ r.region = {new}
    BY <1>3, <1>4 DEF Requests
  <1>6. RequestFits(r)
    BY <1>1, <1>5 DEF RequestFits, new
  <1>7. Ask(c, r)
    BY DEF AskRules, new
  <1> HIDE DEF r
  <1> QED
    BY <1>6, <1>7, <1>5, AskedInv

\* A request of the constants, in the kind it has; the form is validated.
LEMMA GivenFits ==
    ASSUME ConfigurationAssumption
    PROVE  /\ \A r \in OptionRequests \cup ImportRequests : r \in Requests /\ RequestFits(r)
           /\ \A r \in FormRequests :
                 r \in Requests /\ (Safe(Or(r.allow, {}), Or(r.block, {}), Or(r.deny, FALSE)) => RequestFits(r))
  BY DEF ConfigurationAssumption, RequestFits

\* An edit of the rules keeps to the codes, whatever countries it replaces.
LEMMA CallsInv ==
    ASSUME ConfigurationAssumption, Inv, NEW c \in Call,
           \/ \E r \in OptionRequests : SetOptions(c, r)
           \/ \E r \in ImportRequests : ImportBackup(c, r)
           \/ \E r \in FormRequests : SendForm(c, r)
           \/ \E old \in Rule, region \in Rule : SetRegion(c, old, region)
           \/ \E region \in opts.region.rules : RemoveRegion(c, region)
    PROVE  Inv'
  <1>0. opts.region.rules \in SUBSET Rule /\ \A code \in Rule : Overlaps[code] \in SUBSET Rule
    BY RegionsTyped DEF Inv, TypeOK, Options, Settings, ConfigurationAssumption
  <1>1. ASSUME NEW r \in OptionRequests, SetOptions(c, r) PROVE Inv'
    BY <1>1, GivenFits, AskedInv DEF SetOptions
  <1>2. ASSUME NEW r \in ImportRequests, ImportBackup(c, r) PROVE Inv'
    BY <1>2, GivenFits, AskedInv DEF ImportBackup
  <1>3. ASSUME NEW r \in FormRequests, SendForm(c, r) PROVE Inv'
    <2>1. CASE Safe(Or(r.allow, {}), Or(r.block, {}), Or(r.deny, FALSE))
      BY <1>3, <2>1, GivenFits, AskedInv DEF SendForm
    <2>2. CASE ~ Safe(Or(r.allow, {}), Or(r.block, {}), Or(r.deny, FALSE))
      BY <1>3, <2>2, RefusedInv DEF SendForm
    <2> QED
      BY <2>1, <2>2
  <1>4. ASSUME NEW old \in Rule, NEW region \in Rule, SetRegion(c, old, region) PROVE Inv'
    <2> DEFINE kept == opts.region.rules \ {old}
               rules == (kept \ Overlaps[region]) \cup {region}
    <2>1. rules \in SUBSET Rule
      BY <1>0
    <2>2. call[c].pc = "new" /\ Waiting /\ (Refuse(c) \/ AskRules(c, rules))
      BY <1>4 DEF SetRegion
    <2> HIDE DEF rules
    <2> QED
      BY <2>1, <2>2, RefusedInv, RulesInv
  <1>5. ASSUME NEW region \in opts.region.rules, RemoveRegion(c, region) PROVE Inv'
    <2> DEFINE rules == opts.region.rules \ {region}
    <2>1. rules \in SUBSET Rule
      BY <1>0
    <2>2. call[c].pc = "new" /\ Waiting /\ (Refuse(c) \/ AskRules(c, rules))
      BY <1>5 DEF RemoveRegion
    <2> HIDE DEF rules
    <2> QED
      BY <2>1, <2>2, RefusedInv, RulesInv
  <1> QED
    BY <1>1, <1>2, <1>3, <1>4, <1>5

-----------------------------------------------------------------------------
(* Outside the lock.                                                       *)

LEMMA StartEditInv ==
    ASSUME Inv, ConfigurationAssumption, NEW list \in {"allow", "block"},
           NEW allow \in SUBSET Entry, NEW block \in SUBSET Net,
           StartEdit(list, allow, block)
    PROVE  Inv'
  <1>1. UNCHANGED <<opts, live, reader, file, call, tx, files, owed, marks, acked>>
    BY DEF StartEdit
  <1>2. /\ Safe(allow, block, live.deny) /\ edits' = edits + 1 /\ edits < MaxEdits
        /\ edit' = [on |-> TRUE, list |-> list, allow |-> allow, block |-> block,
                    deny |-> live.deny]
    BY DEF StartEdit
  <1>3. live.deny \in BOOLEAN
    BY DEF Inv, TypeOK
  <1>4. edits' \in 0 .. MaxEdits
    BY <1>2 DEF Inv, TypeOK, ConfigurationAssumption
  <1>5. TypeOK'
    BY <1>1, <1>2, <1>3, <1>4 DEF Inv, TypeOK
  <1>6. Req' = Req
    BY <1>1, Kept
  <1>7. CallsFit' /\ TxFits' /\ SwitchesFit' /\ LevelFits' /\ EdgeHearsOfOptions'
    BY <1>1, <1>6 DEF Inv, Fits, CallsFit, TxFits, SwitchesFit, LevelFits,
                      EdgeHearsOfOptions, Kind, Wrote, Behind
  <1>8. Safe(edit'.allow, edit'.block, edit'.deny)
    BY <1>2
  <1>9. SafeFits'
    BY <1>1, <1>6, <1>8 DEF Inv, Fits, SafeFits, Kind, Safe
  <1>10. GeoFits' /\ ReaderFits' /\ RegionFits'
    BY <1>1, <1>6 DEF Inv, Fits, GeoFits, ReaderFits, RegionFits, Kind
  <1> QED
    BY <1>5, <1>7, <1>9, <1>10 DEF Inv, Fits

\* Only an edit whose other list or switches changed after its check is
\* unsafe: a crossing.
LEMMA WriteAllowInv ==
    ASSUME Inv, WriteAllow
    PROVE  Inv'
  <1>1. UNCHANGED <<reader, file, call, tx, edits, files, acked>>
    BY DEF WriteAllow
  <1>2. /\ edit.on /\ edit' = NoEdit /\ ~ owed' /\ marks \subseteq marks'
        /\ edit.deny # opts.deny \/ edit.block # opts.block => "crossed" \in marks'
        /\ marks' \subseteq marks \cup {"crossed"}
        /\ opts' = [opts EXCEPT !.allow = edit.allow]
        /\ live' = Enforced(opts')
        /\ owed' = FALSE
    BY DEF WriteAllow, Mark
  <1>3. /\ edit.allow \in SUBSET Entry /\ opts \in Options
    BY DEF Inv, TypeOK
  <1>4. /\ opts' \in Options
        /\ opts'.allow = edit.allow /\ opts'.block = opts.block
        /\ opts'.deny = opts.deny
        /\ opts'.region = opts.region /\ opts'.geo = opts.geo /\ opts'.npm = opts.npm
    BY <1>2, <1>3 DEF Options
  <1>5. /\ live'.allow = opts'.allow /\ live'.block = opts'.block
        /\ live'.deny = opts'.deny
        /\ live'.region = opts'.region /\ live' \in LiveType
    BY <1>2, <1>4 DEF Enforced, LiveType, Options
  <1>6. ~ edit'.on /\ edit' \in EditType
    BY <1>2 DEF NoEdit, EditType
  <1>7. TypeOK'
    BY <1>1, <1>2, <1>4, <1>5, <1>6 DEF Inv, TypeOK, LiveType, EditType, Marks
  <1>8. Req' = Req
    BY <1>1, Kept
  <1>9. CallsFit' /\ TxFits' /\ SwitchesFit' /\ EdgeHearsOfOptions'
    BY <1>1, <1>2, <1>4, <1>8
    DEF Inv, Fits, CallsFit, TxFits, SwitchesFit, EdgeHearsOfOptions, Kind, Wrote
  <1>10. LevelFits'
    BY <1>5 DEF LevelFits
  <1>11. SafeFits'
    <2>1. marks' \cap {"crossed", "overwrote", "broken"} = {} =>
             /\ marks \cap {"crossed", "overwrote", "broken"} = {}
             /\ Safe(opts'.allow, opts'.block, opts'.deny)
             /\ Safe(live'.allow, live'.block, live'.deny)
      BY <1>2, <1>4, <1>5 DEF Inv, Fits, SafeFits, Safe
    <2> QED
      BY <1>1, <1>6, <1>8, <2>1 DEF Inv, Fits, SafeFits, Kind, Safe
  <1>12. GeoFits' /\ ReaderFits' /\ RegionFits'
    BY <1>1, <1>2, <1>4, <1>8 DEF Inv, Fits, GeoFits, ReaderFits, RegionFits, Kind
  <1> QED
    BY <1>7, <1>9, <1>10, <1>11, <1>12 DEF Inv, Fits

\* What saving blocked networks does: the options, and all of what is
\* enforced but the allowlist.
LEMMA BlockedSaved ==
    ASSUME Inv, NEW block \in SUBSET Net, SaveBlocked(block),
           marks \subseteq marks', marks' \subseteq Marks,
           edit' \in EditType, edits' \in 0 .. MaxEdits
    PROVE  /\ TypeOK' /\ CallsFit' /\ TxFits' /\ SwitchesFit' /\ EdgeHearsOfOptions'
           /\ LevelFits' /\ GeoFits' /\ ReaderFits' /\ RegionFits'
           /\ Req' = Req /\ tx' = tx
           /\ opts'.allow = opts.allow /\ opts'.block = block /\ opts'.deny = opts.deny
           /\ live'.allow = live.allow /\ live'.block = block /\ live'.deny = opts.deny
  <1>1. /\ UNCHANGED <<reader, file, call, tx, files, acked>> /\ owed' = FALSE
        /\ opts' = [opts EXCEPT !.block = block] /\ live' = Applied(opts')
    BY DEF SaveBlocked
  <1>2. opts \in Options /\ live \in LiveType
    BY DEF Inv, TypeOK, LiveType
  <1>3. /\ opts' \in Options
        /\ opts'.allow = opts.allow /\ opts'.block = block /\ opts'.deny = opts.deny
        /\ opts'.region = opts.region /\ opts'.geo = opts.geo /\ opts'.npm = opts.npm
    BY <1>1, <1>2 DEF Options
  <1>4. /\ live'.allow = live.allow /\ live'.block = block /\ live'.deny = opts.deny
        /\ live'.region = opts.region /\ live' \in LiveType
    BY <1>1, <1>2, <1>3 DEF Applied, Enforced, LiveType, Options
  <1>5. TypeOK'
    BY <1>1, <1>3, <1>4 DEF Inv, TypeOK, LiveType, EditType
  <1>6. Req' = Req
    BY <1>1, Kept
  <1>7. CallsFit' /\ TxFits' /\ SwitchesFit' /\ EdgeHearsOfOptions'
    BY <1>1, <1>3, <1>6
    DEF Inv, Fits, CallsFit, TxFits, SwitchesFit, EdgeHearsOfOptions, Kind, Wrote
  <1>8. LevelFits'
    BY <1>1, <1>3, <1>4, <1>6 DEF Inv, Fits, LevelFits, Behind, Kind
  <1>9. GeoFits' /\ ReaderFits' /\ RegionFits'
    BY <1>1, <1>3, <1>6 DEF Inv, Fits, GeoFits, ReaderFits, RegionFits, Kind
  <1> QED
    BY <1>1, <1>3, <1>4, <1>5, <1>6, <1>7, <1>8, <1>9

LEMMA WriteBlockedInv ==
    ASSUME Inv, WriteBlocked
    PROVE  Inv'
  <1>1. /\ edit.on /\ edit' = NoEdit /\ SaveBlocked(edit.block)
        /\ edit.allow # opts.allow \/ edit.deny # opts.deny => "crossed" \in marks'
        /\ marks \subseteq marks' /\ marks' \subseteq marks \cup {"crossed"}
        /\ edits' = edits
    BY DEF WriteBlocked, Mark
  <1>2. /\ edit.block \in SUBSET Net /\ ~ edit'.on /\ edit' \in EditType
        /\ marks' \subseteq Marks /\ edits' \in 0 .. MaxEdits
    BY <1>1 DEF Inv, TypeOK, NoEdit, EditType, Marks
  <1>3. /\ TypeOK' /\ CallsFit' /\ TxFits' /\ SwitchesFit' /\ EdgeHearsOfOptions'
        /\ LevelFits' /\ GeoFits' /\ ReaderFits' /\ RegionFits'
        /\ Req' = Req /\ tx' = tx
        /\ opts'.allow = opts.allow /\ opts'.block = edit.block /\ opts'.deny = opts.deny
        /\ live'.allow = live.allow /\ live'.block = edit.block /\ live'.deny = opts.deny
    BY <1>1, <1>2, BlockedSaved
  <1>4. SafeFits'
    <2>1. marks' \cap {"crossed", "overwrote", "broken"} = {} =>
             /\ marks \cap {"crossed", "overwrote", "broken"} = {}
             /\ Safe(opts'.allow, opts'.block, opts'.deny)
             /\ edit.allow = opts.allow /\ edit.deny = opts.deny
      BY <1>1, <1>3 DEF Inv, Fits, SafeFits, Safe
    <2>2. marks \cap {"crossed", "overwrote", "broken"} = {} =>
             \/ tx.stage \in {"dns", "undo", "undo_detach", "undo_dns"}
             \/ live.allow = opts.allow
      BY DEF Inv, Fits, LevelFits, Behind
    <2>3. marks' \cap {"crossed", "overwrote", "broken"} = {} =>
             \/ tx.stage \in {"dns", "undo", "undo_detach", "undo_dns"}
             \/ Safe(live'.allow, live'.block, live'.deny)
      BY <1>3, <2>1, <2>2 DEF Safe
    <2> QED
      BY <1>2, <1>3, <2>1, <2>3 DEF Inv, Fits, SafeFits, Kind, Safe
  <1> QED
    BY <1>3, <1>4 DEF Inv, Fits

\* A removal opens what was closed, unless it applies the form's switches
\* ahead of its allowlist.
LEMMA RemoveBlockedInv ==
    ASSUME ConfigurationAssumption, Inv, NEW e \in Net, RemoveBlocked(e)
    PROVE  Inv'
  <1> DEFINE block == opts.block \ {e}
  <1>1. /\ edit' = edit /\ SaveBlocked(block) /\ edits' = edits + 1 /\ edits < MaxEdits
        /\ Kind("configure") /\ tx.stage = "panel" => "early" \in marks'
        /\ marks \subseteq marks' /\ marks' \subseteq marks \cup {"early"}
    BY DEF RemoveBlocked, Mark, At, Kind
  <1>2. /\ block \in SUBSET Net /\ edit' \in EditType
        /\ marks' \subseteq Marks /\ edits' \in 0 .. MaxEdits
    <2>1. opts.block \in SUBSET Net
      BY DEF Inv, TypeOK, Options
    <2>2. edits \in 0 .. MaxEdits /\ MaxEdits \in Nat
      BY DEF Inv, TypeOK, ConfigurationAssumption
    <2>3. edit' \in EditType /\ marks' \subseteq Marks
      BY <1>1 DEF Inv, TypeOK, EditType, Marks
    <2>4. edits' \in 0 .. MaxEdits
      BY <1>1, <2>2
    <2> QED
      BY <2>1, <2>3, <2>4
  <1>b. Local \in block => Local \in opts.block
    OBVIOUS
  <1> HIDE DEF block
  <1>3. /\ TypeOK' /\ CallsFit' /\ TxFits' /\ SwitchesFit' /\ EdgeHearsOfOptions'
        /\ LevelFits' /\ GeoFits' /\ ReaderFits' /\ RegionFits'
        /\ Req' = Req /\ tx' = tx
        /\ opts'.allow = opts.allow /\ opts'.block = block /\ opts'.deny = opts.deny
        /\ live'.allow = live.allow /\ live'.block = block /\ live'.deny = opts.deny
    BY <1>1, <1>2, BlockedSaved
  <1>4. SafeFits'
    <2>1. Safe(opts.allow, opts.block, opts.deny) => Safe(opts'.allow, opts'.block, opts'.deny)
      BY <1>3, <1>b DEF Safe
    <2>2. marks' \cap {"crossed", "overwrote", "broken"} = {} =>
             marks \cap {"crossed", "overwrote", "broken"} = {}
      BY <1>1
    <2>3. marks \cap {"crossed", "overwrote", "broken"} = {} =>
             \/ tx.stage \in {"dns", "undo", "undo_detach", "undo_dns"}
             \/ live.allow = opts.allow
      BY DEF Inv, Fits, LevelFits, Behind
    <2>4. marks \cap {"crossed", "overwrote", "broken"} = {} =>
             \/ tx.stage \in {"dns", "undo", "undo_detach", "undo_dns"}
             \/ Kind("configure") /\ tx.stage = "panel"
             \/ Safe(opts.allow, opts.block, opts.deny)
      BY DEF Inv, Fits, SafeFits
    <2>5. marks \cap {"crossed", "overwrote", "broken"} = {} =>
             \/ tx.stage \in {"dns", "undo", "undo_detach", "undo_dns"}
             \/ Kind("configure") /\ tx.stage = "panel" /\ "early" \in marks'
             \/ Safe(live'.allow, live'.block, live'.deny)
      BY <1>1, <1>3, <2>1, <2>3, <2>4
    <2>6. Kind("configure")' = Kind("configure") /\ Kind("options")' = Kind("options")
          /\ Kind("import")' = Kind("import")
      BY <1>3 DEF Kind
    <2> QED
      BY <1>1, <1>3, <2>1, <2>2, <2>5, <2>6 DEF Inv, Fits, SafeFits, Safe
  <1> QED
    BY <1>3, <1>4 DEF Inv, Fits

\* The refresh finds a difference only while a restore or an undo is behind.
LEMMA TimerRefreshInv ==
    ASSUME Inv, TimerRefresh
    PROVE  Inv'
  <1>1. UNCHANGED <<opts, reader, file, call, tx, edit, edits, files, marks, acked>>
    BY DEF TimerRefresh
  <1>2. /\ live.allow # opts.allow /\ ~ owed' /\ owed' = FALSE
        /\ live' = [live EXCEPT !.allow = opts.allow]
    BY DEF TimerRefresh
  <1>3. /\ live' \in LiveType /\ live'.allow = opts.allow
        /\ live'.block = live.block
        /\ live'.deny = live.deny /\ live'.region = live.region
    BY <1>2 DEF Inv, TypeOK, LiveType, Options
  <1>4. TypeOK'
    BY <1>1, <1>2, <1>3 DEF Inv, TypeOK, LiveType
  <1>5. Req' = Req
    BY <1>1, Kept
  <1>6. CallsFit' /\ TxFits' /\ SwitchesFit' /\ LevelFits' /\ EdgeHearsOfOptions'
    BY <1>1, <1>2, <1>3, <1>5
    DEF Inv, Fits, CallsFit, TxFits, SwitchesFit, LevelFits, EdgeHearsOfOptions,
        Kind, Wrote, Behind
  <1>7. SafeFits'
    <2>1. marks \cap {"crossed", "overwrote", "broken"} = {} =>
             tx.stage \in {"dns", "undo", "undo_detach", "undo_dns"}
      BY <1>2 DEF Inv, Fits, LevelFits, Behind
    <2> QED
      BY <1>1, <1>5, <2>1 DEF Inv, Fits, SafeFits, Kind, Safe
  <1>8. GeoFits' /\ ReaderFits' /\ RegionFits'
    BY <1>1, <1>5 DEF Inv, Fits, GeoFits, ReaderFits, RegionFits, Kind
  <1> QED
    BY <1>4, <1>6, <1>7, <1>8 DEF Inv, Fits

\* A download or a loss: the reader is promised only for the first database.
LEMMA FilesInv ==
    ASSUME ConfigurationAssumption, Inv, Download \/ LoseFile
    PROVE  Inv'
  <1>1. UNCHANGED <<opts, live, call, tx, edit, edits, owed, marks, acked>>
    BY DEF Download, LoseFile
  <1>2. /\ files' = files + 1 /\ files < MaxFiles /\ files \in 0 .. MaxFiles
        /\ file' \in BOOLEAN /\ reader' \in BOOLEAN
    BY DEF Download, LoseFile, Inv, TypeOK
  <1>3. files' \in 0 .. MaxFiles /\ files' # 0
    BY <1>2 DEF ConfigurationAssumption
  <1>4. TypeOK'
    BY <1>1, <1>2, <1>3 DEF Inv, TypeOK
  <1>5. Req' = Req
    BY <1>1, Kept
  <1>6. CallsFit' /\ TxFits' /\ SwitchesFit' /\ LevelFits' /\ EdgeHearsOfOptions'
    BY <1>1, <1>5
    DEF Inv, Fits, CallsFit, TxFits, SwitchesFit, LevelFits, EdgeHearsOfOptions,
        Kind, Wrote, Behind
  <1>7. SafeFits' /\ GeoFits' /\ RegionFits'
    BY <1>1, <1>5 DEF Inv, Fits, SafeFits, GeoFits, RegionFits, Kind, Safe
  <1>8. ReaderFits'
    BY <1>3 DEF ReaderFits
  <1> QED
    BY <1>4, <1>6, <1>7, <1>8 DEF Inv, Fits

-----------------------------------------------------------------------------
(* The lock is taken.                                                      *)

LEMMA FirstStageIs ==
    ASSUME NEW r \in Requests
    PROVE  /\ FirstStage(r) \in Awaits
           /\ r.kind = "options" => FirstStage(r) = "check"
           /\ r.kind = "import" /\ Plan(r).region.on => FirstStage(r) = "prepare"
           /\ r.kind = "import" /\ ~ Plan(r).region.on => FirstStage(r) = "check"
           /\ r.kind = "configure" => FirstStage(r) = "panel"
  <1>1. r.kind \in {"options", "import", "configure"}
    BY DEF Requests
  <1>2. CASE r.kind = "options"
    BY <1>2 DEF FirstStage, Awaits
  <1>3. CASE r.kind = "import"
    BY <1>3 DEF FirstStage, Awaits
  <1>4. CASE r.kind = "configure"
    BY <1>4 DEF FirstStage, Awaits
  <1> QED
    BY <1>1, <1>2, <1>3, <1>4

LEMMA AcquireInv ==
    ASSUME Inv, NEW c \in Call, Acquire(c), Idle \notin Call
    PROVE  Inv'
  <1> DEFINE r == call[c].req
             plan == Plan(r)
  <1>1. /\ tx.who = Idle /\ tx.stage = "none" /\ call[c].pc = "waiting" /\ c # Idle
        /\ UNCHANGED <<live, reader, file, edit, edits, files, owed, acked>>
    BY DEF Acquire, Inv, Fits, TxFits
  <1>2. r \in Requests /\ RequestFits(r)
    BY DEF Inv, TypeOK, Fits, CallsFit
  <1>3. /\ plan \in PlanType
        /\ plan.region = Or(r.region, opts.region)
        /\ r.kind # "configure" => (plan.region.on => plan.geo)
        /\ r.kind = "import" => plan.region \in Regions
        /\ r.kind = "configure" =>
              plan.region = opts.region /\ Safe(plan.allow, plan.block, plan.deny)
    BY <1>2, PlanIs DEF Inv
  <1>4. /\ call' \in [Call -> CallType] /\ call'[c].pc = "in" /\ call'[c].req = r
        /\ \A d \in Call : call'[d].req = call[d].req
    BY DEF Acquire, Inv, TypeOK, CallType
  <1>5. CallsFit'
    BY <1>4 DEF Inv, Fits, CallsFit
  <1>6. /\ FirstStage(r) \in Awaits
        /\ r.kind = "options" => FirstStage(r) = "check"
        /\ r.kind = "import" /\ plan.region.on => FirstStage(r) = "prepare"
        /\ r.kind = "import" /\ ~ plan.region.on => FirstStage(r) = "check"
        /\ r.kind = "configure" => FirstStage(r) = "panel"
    BY <1>2, FirstStageIs
  <1>7. tx' = [who |-> c, stage |-> FirstStage(r), base |-> opts, plan |-> plan]
    BY DEF Acquire
  <1> HIDE DEF plan
  <1>8. /\ tx'.who = c /\ tx'.stage = FirstStage(r) /\ tx'.base = opts /\ tx'.plan = plan
        /\ tx' \in TxType
    BY <1>3, <1>6, <1>7 DEF Inv, TypeOK, TxType
  <1>9. Req' = r
    BY <1>4, <1>8 DEF Req
  <1>10. /\ opts' \in Options /\ opts'.allow = opts.allow
         /\ opts'.region = opts.region /\ opts'.npm = opts.npm
         /\ r.kind = "configure" => opts'.deny = plan.deny /\ opts'.geo = plan.geo
         /\ r.kind # "configure" => opts' = opts
    <2>1. opts \in Options /\ plan.block \in SUBSET Net
          /\ plan.deny \in BOOLEAN /\ plan.geo \in BOOLEAN
      BY <1>3 DEF Inv, TypeOK, PlanType
    <2>2. opts' = IF r.kind = "configure"
                  THEN [opts EXCEPT !.block = plan.block, !.deny = plan.deny,
                                    !.geo = plan.geo]
                  ELSE opts
      BY DEF Acquire, plan
    <2> QED
      BY <2>1, <2>2 DEF Options
  <1>11. /\ marks \subseteq marks' /\ marks' \subseteq marks \cup {"overlapped", "darkened"}
         /\ r.read # {} /\ opts.region \notin r.read => "overlapped" \in marks'
         /\ opts'.region.on /\ ~opts'.geo => "darkened" \in marks'
    BY DEF Acquire
  <1> HIDE DEF r
  <1>12. TypeOK'
    BY <1>1, <1>4, <1>8, <1>10, <1>11 DEF Inv, TypeOK, TxType, PlanType, CallType, Marks
  <1>13. TxFits'
    BY <1>1, <1>2, <1>3, <1>4, <1>6, <1>8, <1>9
    DEF TxFits, Kind, OptionStages, ImportStages, Requests
  <1>14. SwitchesFit'
    BY <1>1, <1>2, <1>3, <1>6, <1>8, <1>9, <1>10 DEF SwitchesFit, Kind, Wrote, Requests
  <1>15. LevelFits'
    BY <1>1, <1>2, <1>6, <1>8, <1>9, <1>10, <1>11
    DEF Inv, Fits, LevelFits, Behind, Kind, Requests
  <1>16. SafeFits'
    BY <1>1, <1>2, <1>3, <1>6, <1>8, <1>9, <1>10, <1>11
    DEF Inv, Fits, SafeFits, Kind, Requests
  <1>17. GeoFits'
    BY <1>1, <1>8, <1>10, <1>11 DEF Inv, Fits, GeoFits
  <1>18. ReaderFits'
    BY <1>1, <1>2, <1>6, <1>8, <1>9, <1>10, <1>11
    DEF Inv, Fits, ReaderFits, Kind, Requests
  <1>19. RegionFits' /\ EdgeHearsOfOptions'
    BY <1>1, <1>8, <1>9, <1>11 DEF Inv, Fits, RegionFits, EdgeHearsOfOptions
  <1> QED
    BY <1>5, <1>12, <1>13, <1>14, <1>15, <1>16, <1>17, <1>18, <1>19 DEF Inv, Fits

-----------------------------------------------------------------------------
(* The transaction ends.                                                   *)

\* What holds of every end: who is idle and what the region settings are.
LEMMA EndedInv ==
    ASSUME Inv, tx.who # Idle, Leave, marks \subseteq marks',
           opts'.region = acked' \/ "overlapped" \in marks',
           owed' => marks' \cap {"broken", "formed"} # {}
    PROVE  CallsFit' /\ TxFits' /\ SwitchesFit' /\ RegionFits' /\ EdgeHearsOfOptions'
  <1>1. /\ tx'.who = Idle /\ tx'.stage = "none"
        /\ CallsFit'
    BY Left DEF Inv, Fits
  <1>2. TxFits' /\ SwitchesFit' /\ EdgeHearsOfOptions'
    BY <1>1 DEF TxFits, SwitchesFit, EdgeHearsOfOptions, Kind
  <1>3. RegionFits'
    BY <1>1 DEF RegionFits
  <1> QED
    BY <1>1, <1>2, <1>3

\* The region settings that are acknowledged are those of the plan.
LEMMA Acknowledged ==
    ASSUME Inv, tx.who # Idle
    PROVE  /\ AckedAfter \in Settings
           /\ "overlapped" \notin marks => AckedAfter = tx.plan.region
  <1> DEFINE new == Or(Req.region, acked)
             read == Or(Req.read, new).rules
             base == tx.base.region
  <1>1. /\ Req \in Requests /\ tx.who \in Call /\ RequestFits(Req)
    BY ReqTyped DEF Inv, Fits, CallsFit, Req
  <1>2. /\ acked \in Settings /\ Req.region \in Optional(Settings)
        /\ new \in Settings
    BY <1>1, OrTyped DEF Inv, TypeOK, Requests
  <1>3. "overlapped" \notin marks => base = acked /\ (Req.read = {} \/ base \in Req.read)
    BY DEF Inv, Fits, RegionFits
  <1>4. tx.plan.region = Or(Req.region, base)
    BY DEF Inv, Fits, TxFits
  <1>5. CASE Req.read = {}
    BY <1>2, <1>3, <1>4, <1>5 DEF AckedAfter
  <1>6. CASE Req.read # {}
    <2>1. PICK old \in Regions, rules \in SUBSET Rule :
             Req.read = {old} /\ Req.region = {[old EXCEPT !.rules = rules]}
      BY <1>1, <1>6 DEF RequestFits
    <2> DEFINE set == [old EXCEPT !.rules = rules]
    <2>2. old \in Settings /\ old.rules \in SUBSET Rule
      BY RegionsTyped DEF Settings
    <2>3. set \in Settings /\ set.rules = rules /\ set.on = old.on
      BY <2>2 DEF Settings
    <2> HIDE DEF set
    <2>4. Or(Req.region, acked) = set /\ tx.plan.region = set
      BY <1>4, <2>1, OrOf DEF set
    <2>5. Or(Req.read, set) = old
      BY <2>1, OrOf
    <2>6. AckedAfter = [acked EXCEPT !.rules = (acked.rules \ (old.rules \ rules))
                                                 \cup (rules \ old.rules)]
      BY <1>6, <2>3, <2>4, <2>5 DEF AckedAfter
    <2>7. AckedAfter \in Settings
      BY <1>2, <2>2, <2>6 DEF Settings
    <2>8. ASSUME "overlapped" \notin marks PROVE AckedAfter = set
      <3>1. acked = old
        BY <1>3, <1>6, <2>1, <2>8
      <3>2. (old.rules \ (old.rules \ rules)) \cup (rules \ old.rules) = rules
        OBVIOUS
      <3> QED
        BY <2>6, <3>1, <3>2 DEF set
    <2> QED
      BY <2>4, <2>7, <2>8
  <1> QED
    BY <1>5, <1>6

\* A transaction that succeeds: the plan's region is saved, the proxy knows.
LEMMA FinishedInv ==
    ASSUME Inv, tx.who # Idle, Finish, marks \subseteq marks',
           opts'.region = tx.plan.region,
           Req.kind = "configure" => "formed" \in marks'
    PROVE  /\ CallsFit' /\ TxFits' /\ SwitchesFit' /\ RegionFits' /\ EdgeHearsOfOptions'
           /\ tx' \in TxType /\ tx'.who = Idle /\ tx'.stage = "none"
           /\ call' \in [Call -> CallType] /\ acked' \in Settings /\ owed' \in BOOLEAN
  <1>1. /\ Leave /\ acked' = AckedAfter /\ owed' = (owed /\ Req.kind = "configure")
    BY DEF Finish
  <1>2. /\ tx' \in TxType /\ tx'.who = Idle /\ tx'.stage = "none"
        /\ call' \in [Call -> CallType]
    BY <1>1, Left DEF Inv
  <1>3. acked' \in Settings /\ owed' \in BOOLEAN
    BY <1>1, Acknowledged DEF Inv, TypeOK
  <1>4. opts'.region = acked' \/ "overlapped" \in marks'
    BY <1>1, Acknowledged
  <1>5. owed' => marks' \cap {"broken", "formed"} # {}
    BY <1>1
  <1> QED
    BY <1>1, <1>2, <1>3, <1>4, <1>5, EndedInv

\* A transaction that is undone: what was saved before is saved again.
LEMMA UndoneInv ==
    ASSUME Inv, tx.who # Idle, Leave, marks \subseteq marks', acked' = acked,
           opts'.region = tx.base.region, owed' => "broken" \in marks'
    PROVE  CallsFit' /\ TxFits' /\ SwitchesFit' /\ RegionFits' /\ EdgeHearsOfOptions'
  <1>1. opts'.region = acked' \/ "overlapped" \in marks'
    BY DEF Inv, Fits, RegionFits
  <1> QED
    BY <1>1, EndedInv

\* At the end the switches are what they were: nothing is ahead or behind.
LEMMA SettledInv ==
    ASSUME Inv, tx.who # Idle, tx'.who = Idle, tx'.stage = "none",
           tx.stage \notin {"dns", "undo", "undo_detach", "undo_dns", "undo_open"},
           ~ (Kind("configure") /\ tx.stage = "panel"),
           marks \subseteq marks', live' = live, reader' = reader, file' = file,
           edit' = edit, files' = files, opts'.deny = opts.deny,
           opts'.region = opts.region, opts'.geo = opts.geo,
           \/ opts'.allow = opts.allow /\ opts'.block = opts.block
           \/ "overwrote" \in marks'
    PROVE  LevelFits' /\ SafeFits' /\ GeoFits' /\ ReaderFits'
  <1>1. ~ Behind
    BY DEF Behind
  <1>2. LevelFits'
    BY <1>1 DEF Inv, Fits, LevelFits
  <1>3. SafeFits'
    BY DEF Inv, Fits, SafeFits, Kind, Safe
  <1>4. GeoFits' /\ ReaderFits'
    BY DEF Inv, Fits, GeoFits, ReaderFits, Kind
  <1> QED
    BY <1>2, <1>3, <1>4

-----------------------------------------------------------------------------
(* A stage of the transaction ends and the next one begins.                *)

\* What holds whatever the next stage is: the call goes on, and the region
\* settings and the databases are as they were.
LEMMA StageInv ==
    ASSUME Inv, tx.who # Idle, NEW stage \in Awaits \cup Undoing, Move(stage),
           opts' \in Options, live' \in LiveType, reader' \in BOOLEAN, owed' \in BOOLEAN,
           marks \subseteq marks', marks' \subseteq Marks,
           UNCHANGED <<file, call, edit, edits, files, acked>>
    PROVE  /\ TypeOK' /\ CallsFit' /\ RegionFits' /\ EdgeHearsOfOptions'
           /\ Req' = Req /\ tx'.who = tx.who /\ tx'.stage = stage /\ stage # "none"
           /\ tx'.base = tx.base /\ tx'.plan = tx.plan
  <1>1. /\ tx' \in TxType /\ tx'.who = tx.who /\ tx'.stage = stage
        /\ tx'.base = tx.base /\ tx'.plan = tx.plan
    BY Moved DEF Inv
  <1>2. Req' = Req
    BY <1>1, Kept
  <1>3. TypeOK'
    BY <1>1 DEF Inv, TypeOK, TxType, PlanType, LiveType
  <1>4. stage # "none"
    BY DEF Awaits, Undoing
  <1>5. CallsFit' /\ EdgeHearsOfOptions'
    BY <1>1 DEF Inv, Fits, CallsFit, EdgeHearsOfOptions
  <1>6. RegionFits'
    BY <1>1, <1>2 DEF Inv, Fits, RegionFits
  <1> QED
    BY <1>1, <1>2, <1>3, <1>4, <1>5, <1>6

\* A stage that changes at most the reader.
LEMMA QuietInv ==
    ASSUME Inv, tx.who # Idle, NEW stage \in Awaits \cup Undoing, Move(stage),
           reader' \in BOOLEAN,
           UNCHANGED <<opts, live, file, call, edit, edits, files, owed, marks, acked>>
    PROVE  /\ TypeOK' /\ CallsFit' /\ RegionFits' /\ EdgeHearsOfOptions' /\ GeoFits'
           /\ Req' = Req /\ tx'.who = tx.who /\ tx'.stage = stage /\ stage # "none"
           /\ tx'.base = tx.base /\ tx'.plan = tx.plan
  <1>1. opts \in Options /\ live \in LiveType /\ owed \in BOOLEAN /\ marks \subseteq Marks
    BY DEF Inv, TypeOK, LiveType
  <1>2. /\ TypeOK' /\ CallsFit' /\ RegionFits' /\ EdgeHearsOfOptions'
        /\ Req' = Req /\ tx'.who = tx.who /\ tx'.stage = stage /\ stage # "none"
        /\ tx'.base = tx.base /\ tx'.plan = tx.plan
    BY <1>1, StageInv
  <1> QED
    BY <1>2 DEF Inv, Fits, GeoFits

\* The undo may begin anywhere: it restores whatever was written.
LEMMA FailedInv ==
    ASSUME Inv, tx.who # Idle, tx.stage \in Awaits, Move("undo"), reader' \in BOOLEAN,
           UNCHANGED <<opts, live, file, call, edit, edits, files, owed, marks, acked>>
    PROVE  Inv'
  <1>1. "undo" \in Awaits \cup Undoing
    BY DEF Undoing
  <1>2. /\ TypeOK' /\ CallsFit' /\ RegionFits' /\ EdgeHearsOfOptions' /\ GeoFits'
        /\ Req' = Req /\ tx'.who = tx.who /\ tx'.stage = "undo"
        /\ tx'.base = tx.base /\ tx'.plan = tx.plan
    BY <1>1, QuietInv
  <1>3. TxFits' /\ SwitchesFit'
    BY <1>2 DEF Inv, Fits, TxFits, SwitchesFit, Kind, Wrote, Undoing
  <1>4. LevelFits' /\ ReaderFits'
    BY <1>2 DEF LevelFits, Behind, ReaderFits, Kind
  <1>5. SafeFits'
    BY <1>2 DEF Inv, Fits, SafeFits, Kind, Safe
  <1> QED
    BY <1>2, <1>3, <1>4, <1>5 DEF Inv, Fits

LEMMA FailInv ==
    ASSUME Inv, Fail
    PROVE  Inv'
  <1>1. tx.stage \in Awaits /\ tx.who # Idle
    BY DEF Fail, Inv, Fits, TxFits, Awaits
  <1>2. /\ reader' \in BOOLEAN /\ Move("undo")
        /\ UNCHANGED <<opts, live, file, call, edit, edits, files, owed, marks, acked>>
    BY DEF Fail, Inv, TypeOK
  <1> QED
    BY <1>1, <1>2, FailedInv

-----------------------------------------------------------------------------
(* Panel options.                                                          *)

\* The switches are written over a list that is safe with them, or crossed.
LEMMA WrittenInv ==
    ASSUME Inv, Kind("options"), tx.stage \in {"check", "file", "open"}, WriteOptions,
           tx.plan.region \in Regions,
           marks \cap {"crossed", "overwrote", "broken"} = {} =>
              Safe(tx.base.allow, tx.base.block, tx.plan.deny),
           reader' \in BOOLEAN, files = 0 /\ file /\ tx.plan.region.on => reader',
           UNCHANGED <<file, call, edit, edits, files, acked>>
    PROVE  Inv'
  <1>1. /\ tx.who # Idle /\ Req.kind = "options" /\ "panel" \in Awaits
    BY DEF Kind, Awaits
  <1>2. /\ Move("panel") /\ marks \subseteq marks' /\ marks' \subseteq marks \cup {"crossed"}
        /\ opts.allow # tx.base.allow \/ opts.block # tx.base.block => "crossed" \in marks'
        /\ marks' \subseteq Marks /\ owed' \in BOOLEAN
    BY DEF WriteOptions, Mark, ListsMoved, Inv, TypeOK, Marks
  <1>3. tx.plan \in PlanType /\ opts \in Options /\ live \in LiveType
    BY DEF Inv, TypeOK, PlanType, LiveType
  <1>4. /\ opts' \in Options /\ opts'.allow = opts.allow /\ opts'.block = opts.block
        /\ opts'.deny = tx.plan.deny
        /\ opts'.geo = tx.plan.geo /\ opts'.region = tx.plan.region
    BY <1>3 DEF WriteOptions, Options, PlanType
  <1>5. /\ live' \in LiveType /\ live'.allow = live.allow /\ live'.block = opts.block
        /\ live'.deny = tx.plan.deny /\ live'.region = tx.plan.region
    BY <1>3, <1>4 DEF WriteOptions, Applied, Enforced, LiveType, Options
  <1>6. /\ TypeOK' /\ CallsFit' /\ RegionFits' /\ EdgeHearsOfOptions'
        /\ Req' = Req /\ tx'.who = tx.who /\ tx'.stage = "panel"
        /\ tx'.base = tx.base /\ tx'.plan = tx.plan
    BY <1>1, <1>2, <1>4, <1>5, StageInv
  <1>7. TxFits' /\ SwitchesFit'
    BY <1>1, <1>4, <1>6
    DEF Inv, Fits, TxFits, SwitchesFit, Kind, Wrote, OptionStages
  <1>8. LevelFits'
    BY <1>1, <1>2, <1>4, <1>5, <1>6 DEF Inv, Fits, LevelFits, Behind, Kind
  <1>9. SafeFits'
    <2>1. marks' \cap {"crossed", "overwrote", "broken"} = {} =>
             /\ marks \cap {"crossed", "overwrote", "broken"} = {}
             /\ Safe(opts'.allow, opts'.block, opts'.deny)
      BY <1>2, <1>4
    <2>2. marks \cap {"crossed", "overwrote", "broken"} = {} => live.allow = opts.allow
      BY <1>1 DEF Inv, Fits, LevelFits, Behind, Kind
    <2> QED
      BY <1>1, <1>4, <1>5, <1>6, <2>1, <2>2 DEF Inv, Fits, SafeFits, Kind, Safe
  <1>10. GeoFits'
    BY <1>1, <1>2, <1>4, <1>6 DEF Inv, Fits, GeoFits, TxFits, Kind
  <1>11. ReaderFits'
    BY <1>1, <1>2, <1>4, <1>6 DEF ReaderFits, Kind
  <1> QED
    BY <1>6, <1>7, <1>8, <1>9, <1>10, <1>11 DEF Inv, Fits

LEMMA OptionsCheckInv ==
    ASSUME Inv, OptionsCheck
    PROVE  Inv'
  <1>1. /\ Kind("options") /\ tx.who # Idle /\ Req.kind = "options" /\ tx.stage = "check"
        /\ tx.plan.region \in Regions /\ Safe(tx.base.allow, tx.base.block, tx.plan.deny)
        /\ UNCHANGED <<file, call, edit, edits, files, acked>>
    BY DEF OptionsCheck, At, Kind, RegionAccepted
  <1>2. CASE tx.plan.geo
    <2>1. /\ Move("file") /\ "file" \in Awaits /\ reader' \in BOOLEAN
          /\ UNCHANGED <<opts, live, file, call, edit, edits, files, owed, marks, acked>>
      BY <1>1, <1>2 DEF OptionsCheck, Awaits, Inv, TypeOK
    <2>2. /\ TypeOK' /\ CallsFit' /\ RegionFits' /\ EdgeHearsOfOptions' /\ GeoFits'
          /\ Req' = Req /\ tx'.who = tx.who /\ tx'.stage = "file"
          /\ tx'.base = tx.base /\ tx'.plan = tx.plan
      BY <1>1, <2>1, QuietInv
    <2>3. reader' = reader
      BY <1>2 DEF OptionsCheck
    <2>4. TxFits' /\ SwitchesFit' /\ LevelFits'
      BY <1>1, <2>1, <2>2
      DEF Inv, Fits, TxFits, SwitchesFit, LevelFits, Kind, Wrote, Behind, OptionStages
    <2>5. SafeFits' /\ ReaderFits'
      BY <1>1, <2>1, <2>2, <2>3 DEF Inv, Fits, SafeFits, ReaderFits, Kind, Safe
    <2> QED
      BY <2>2, <2>4, <2>5 DEF Inv, Fits
  <1>3. CASE ~ tx.plan.geo
    <2>1. WriteOptions /\ reader' = FALSE
      BY <1>3 DEF OptionsCheck
    <2>2. ~ tx.plan.region.on
      BY <1>1, <1>3 DEF Inv, Fits, TxFits
    <2>3. reader' \in BOOLEAN
      BY <2>1
    <2> QED
      BY <1>1, <2>1, <2>2, <2>3, WrittenInv
  <1> QED
    BY <1>2, <1>3

LEMMA OptionsFileInv ==
    ASSUME Inv, OptionsFile
    PROVE  Inv'
  <1>1. /\ Kind("options") /\ tx.who # Idle /\ Req.kind = "options" /\ tx.stage = "file"
        /\ reader' = reader /\ reader' \in BOOLEAN
        /\ UNCHANGED <<file, call, edit, edits, files, acked>>
    BY DEF OptionsFile, At, Kind, Inv, TypeOK
  <1>2. /\ tx.plan.region \in Regions
        /\ marks \cap {"crossed", "overwrote", "broken"} = {} =>
              Safe(tx.base.allow, tx.base.block, tx.plan.deny)
    BY <1>1 DEF Inv, Fits, TxFits, SafeFits
  <1>3. CASE file
    <2>1. /\ Move("open") /\ "open" \in Awaits
          /\ UNCHANGED <<opts, live, file, call, edit, edits, files, owed, marks, acked>>
      BY <1>1, <1>3 DEF OptionsFile, Awaits
    <2>2. /\ TypeOK' /\ CallsFit' /\ RegionFits' /\ EdgeHearsOfOptions' /\ GeoFits'
          /\ Req' = Req /\ tx'.who = tx.who /\ tx'.stage = "open"
          /\ tx'.base = tx.base /\ tx'.plan = tx.plan
      BY <1>1, <2>1, QuietInv
    <2>3. TxFits' /\ SwitchesFit' /\ LevelFits'
      BY <1>1, <2>1, <2>2
      DEF Inv, Fits, TxFits, SwitchesFit, LevelFits, Kind, Wrote, Behind, OptionStages
    <2>4. SafeFits' /\ ReaderFits'
      BY <1>1, <2>1, <2>2 DEF Inv, Fits, SafeFits, ReaderFits, Kind, Safe
    <2> QED
      BY <2>2, <2>3, <2>4 DEF Inv, Fits
  <1>4. CASE ~ file
    BY <1>1, <1>2, <1>4, WrittenInv DEF OptionsFile
  <1> QED
    BY <1>3, <1>4

LEMMA OptionsOpenInv ==
    ASSUME Inv, OptionsOpen
    PROVE  Inv'
  <1>1. /\ Kind("options") /\ tx.who # Idle /\ Req.kind = "options" /\ tx.stage = "open"
        /\ reader' = file /\ reader' \in BOOLEAN /\ tx.stage \in Awaits
        /\ UNCHANGED <<file, call, edit, edits, files, acked>>
    BY DEF OptionsOpen, At, Kind, Inv, TypeOK, Awaits
  <1>2. /\ tx.plan.region \in Regions
        /\ marks \cap {"crossed", "overwrote", "broken"} = {} =>
              Safe(tx.base.allow, tx.base.block, tx.plan.deny)
    BY <1>1 DEF Inv, Fits, TxFits, SafeFits
  <1>3. CASE LockAsked /\ ~ file
    BY <1>1, <1>3, FailedInv DEF OptionsOpen
  <1>4. CASE ~ (LockAsked /\ ~ file)
    BY <1>1, <1>2, <1>4, WrittenInv DEF OptionsOpen
  <1> QED
    BY <1>3, <1>4

LEMMA OptionsPanelInv ==
    ASSUME Inv, OptionsPanel
    PROVE  Inv'
  <1>1. /\ Kind("options") /\ tx.who # Idle /\ Req.kind = "options" /\ tx.stage = "panel"
        /\ UNCHANGED <<opts, live, reader, file, edit, edits, files, marks>>
        /\ opts.region = tx.plan.region /\ reader' \in BOOLEAN
    BY DEF OptionsPanel, At, Kind, Inv, TypeOK, Fits, SwitchesFit, Wrote
  <1>2. CASE Req.npm = {}
    <2>1. Finish
      BY <1>2 DEF OptionsPanel
    <2>2. /\ CallsFit' /\ TxFits' /\ SwitchesFit' /\ RegionFits' /\ EdgeHearsOfOptions'
          /\ tx' \in TxType /\ tx'.who = Idle /\ tx'.stage = "none"
          /\ call' \in [Call -> CallType] /\ acked' \in Settings /\ owed' \in BOOLEAN
      BY <1>1, <2>1, FinishedInv
    <2>3. LevelFits' /\ SafeFits' /\ GeoFits' /\ ReaderFits'
      BY <1>1, <2>2, SettledInv DEF Kind
    <2>4. TypeOK'
      BY <1>1, <2>2 DEF Inv, TypeOK, TxType, PlanType, CallType
    <2> QED
      BY <2>2, <2>3, <2>4 DEF Inv, Fits
  <1>3. CASE Req.npm # {}
    <2>1. /\ Move("attach") /\ "attach" \in Awaits
          /\ UNCHANGED <<opts, live, file, call, edit, edits, files, owed, marks, acked>>
      BY <1>1, <1>3 DEF OptionsPanel, Awaits
    <2>2. /\ TypeOK' /\ CallsFit' /\ RegionFits' /\ EdgeHearsOfOptions' /\ GeoFits'
          /\ Req' = Req /\ tx'.who = tx.who /\ tx'.stage = "attach"
          /\ tx'.base = tx.base /\ tx'.plan = tx.plan
      BY <1>1, <2>1, QuietInv
    <2>3. TxFits' /\ SwitchesFit' /\ LevelFits'
      BY <1>1, <2>1, <2>2
      DEF Inv, Fits, TxFits, SwitchesFit, LevelFits, Kind, Wrote, Behind, OptionStages
    <2>4. SafeFits' /\ ReaderFits'
      BY <1>1, <2>1, <2>2 DEF Inv, Fits, SafeFits, ReaderFits, Kind, Safe
    <2> QED
      BY <2>2, <2>3, <2>4 DEF Inv, Fits
  <1> QED
    BY <1>2, <1>3

LEMMA OptionsAttachInv ==
    ASSUME Inv, OptionsAttach
    PROVE  Inv'
  <1>1. /\ tx.who # Idle /\ Req.kind = "options" /\ tx.stage = "attach" /\ Finish
        /\ UNCHANGED <<live, reader, file, edit, edits, files, marks>>
        /\ opts' = [opts EXCEPT !.npm = tx.plan.npm]
        /\ opts.region = tx.plan.region
    BY DEF OptionsAttach, At, Kind, Inv, Fits, SwitchesFit, Wrote
  <1>2. /\ opts' \in Options /\ opts'.allow = opts.allow /\ opts'.block = opts.block
        /\ opts'.deny = opts.deny /\ opts'.region = opts.region /\ opts'.geo = opts.geo
    <2>1. opts \in Options /\ tx.plan.npm \in BOOLEAN
      BY DEF Inv, TypeOK
    <2> QED
      BY <1>1, <2>1 DEF Options
  <1>3. /\ CallsFit' /\ TxFits' /\ SwitchesFit' /\ RegionFits' /\ EdgeHearsOfOptions'
        /\ tx' \in TxType /\ tx'.who = Idle /\ tx'.stage = "none"
        /\ call' \in [Call -> CallType] /\ acked' \in Settings /\ owed' \in BOOLEAN
    BY <1>1, <1>2, FinishedInv
  <1>4. LevelFits' /\ SafeFits' /\ GeoFits' /\ ReaderFits'
    BY <1>1, <1>2, <1>3, SettledInv DEF Kind
  <1>5. TypeOK'
    BY <1>1, <1>2, <1>3 DEF Inv, TypeOK, TxType, PlanType, CallType
  <1> QED
    BY <1>3, <1>4, <1>5 DEF Inv, Fits

-----------------------------------------------------------------------------
(* The restore of a backup.                                                *)

\* A restored lock is usable before anything is written.
LEMMA ImportPrepareInv ==
    ASSUME Inv, ImportPrepare
    PROVE  Inv'
  <1>1. /\ tx.who # Idle /\ Req.kind = "import" /\ tx.stage = "prepare"
        /\ tx.stage \in Awaits /\ reader' = file /\ reader' \in BOOLEAN
        /\ UNCHANGED <<opts, live, file, call, edit, edits, files, owed, marks, acked>>
    BY DEF ImportPrepare, At, Inv, TypeOK, Awaits
  <1>2. CASE ~ file
    BY <1>1, <1>2, FailedInv DEF ImportPrepare
  <1>3. CASE file
    <2>1. Move("check") /\ "check" \in Awaits
      BY <1>3 DEF ImportPrepare, Awaits
    <2>2. /\ TypeOK' /\ CallsFit' /\ RegionFits' /\ EdgeHearsOfOptions' /\ GeoFits'
          /\ Req' = Req /\ tx'.who = tx.who /\ tx'.stage = "check"
          /\ tx'.base = tx.base /\ tx'.plan = tx.plan
      BY <1>1, <2>1, QuietInv
    <2>3. TxFits' /\ SwitchesFit' /\ LevelFits'
      BY <1>1, <2>1, <2>2
      DEF Inv, Fits, TxFits, SwitchesFit, LevelFits, Kind, Wrote, Behind, ImportStages
    <2>4. SafeFits' /\ ReaderFits'
      BY <1>1, <1>3, <2>1, <2>2 DEF Inv, Fits, SafeFits, ReaderFits, Kind, Safe
    <2> QED
      BY <2>2, <2>3, <2>4 DEF Inv, Fits
  <1> QED
    BY <1>2, <1>3

LEMMA ImportCheckInv ==
    ASSUME Inv, ImportCheck
    PROVE  Inv'
  <1>1. /\ tx.who # Idle /\ Req.kind = "import" /\ tx.stage = "check"
        /\ Safe(tx.plan.allow, tx.plan.block, tx.plan.deny) /\ Move("detach") /\ "detach" \in Awaits
        /\ reader' = reader /\ reader' \in BOOLEAN
        /\ UNCHANGED <<opts, live, file, call, edit, edits, files, owed, marks, acked>>
    BY DEF ImportCheck, At, Inv, TypeOK, Awaits
  <1>2. /\ TypeOK' /\ CallsFit' /\ RegionFits' /\ EdgeHearsOfOptions' /\ GeoFits'
        /\ Req' = Req /\ tx'.who = tx.who /\ tx'.stage = "detach"
        /\ tx'.base = tx.base /\ tx'.plan = tx.plan
    BY <1>1, QuietInv
  <1>3. TxFits' /\ SwitchesFit' /\ LevelFits'
    BY <1>1, <1>2
    DEF Inv, Fits, TxFits, SwitchesFit, LevelFits, Kind, Wrote, Behind, ImportStages
  <1>4. SafeFits' /\ ReaderFits'
    BY <1>1, <1>2 DEF Inv, Fits, SafeFits, ReaderFits, Kind, Safe
  <1> QED
    BY <1>2, <1>3, <1>4 DEF Inv, Fits

LEMMA ImportWriteInv ==
    ASSUME Inv, ImportWrite
    PROVE  Inv'
  <1>1. /\ tx.who # Idle /\ Req.kind = "import" /\ tx.stage = "detach"
        /\ Move("dns") /\ "dns" \in Awaits /\ opts' = tx.plan
        /\ live' = [live EXCEPT !.allow = opts'.allow]
        /\ owed' = (owed \/ live' # live)
        /\ UNCHANGED <<reader, file, call, edit, edits, files, marks, acked>>
    BY DEF ImportWrite, At, Awaits
  <1>2. /\ tx.plan \in Options /\ (tx.plan.region.on => tx.plan.geo)
    BY <1>1 DEF Inv, Fits, TxFits, Kind, TypeOK, Options
  <1>3. /\ opts' \in Options /\ live' \in LiveType /\ reader' \in BOOLEAN
        /\ owed' \in BOOLEAN /\ marks \subseteq marks' /\ marks' \subseteq Marks
        /\ UNCHANGED <<file, call, edit, edits, files, acked>>
    <2>1. opts' \in Options
      BY <1>1, <1>2
    <2>2. opts'.allow \in SUBSET Entry
      BY <2>1 DEF Options
    <2>3. live \in LiveType
      BY DEF Inv, TypeOK, LiveType
    <2>4. live' \in LiveType
      BY <1>1, <2>2, <2>3 DEF LiveType
    <2> QED
      BY <1>1, <2>1, <2>4 DEF Inv, TypeOK
  <1>4. /\ TypeOK' /\ CallsFit' /\ RegionFits' /\ EdgeHearsOfOptions'
        /\ Req' = Req /\ tx'.who = tx.who /\ tx'.stage = "dns"
        /\ tx'.base = tx.base /\ tx'.plan = tx.plan
    BY <1>1, <1>3, StageInv
  <1>5. TxFits' /\ SwitchesFit'
    BY <1>1, <1>4 DEF Inv, Fits, TxFits, SwitchesFit, Kind, Wrote, ImportStages
  <1>6. LevelFits'
    BY <1>1, <1>4 DEF LevelFits, Behind, Kind
  <1>7. SafeFits'
    BY <1>1, <1>4 DEF Inv, Fits, SafeFits, Kind, Safe
  <1>8. GeoFits' /\ ReaderFits'
    BY <1>1, <1>2, <1>4 DEF Inv, Fits, GeoFits, ReaderFits, Kind
  <1> QED
    BY <1>4, <1>5, <1>6, <1>7, <1>8 DEF Inv, Fits

LEMMA Enforcing ==
    ASSUME Inv, NEW o \in Options, Write(o)
    PROVE  /\ opts' = o /\ opts' \in Options
           /\ live' \in LiveType /\ live'.allow = o.allow /\ live'.block = o.block
           /\ live'.deny = o.deny /\ live'.region = o.region /\ owed' \in BOOLEAN
  BY DEF Write, Enforced, LiveType, Options, Inv, TypeOK

LEMMA ImportApplyInv ==
    ASSUME Inv, ImportApply
    PROVE  Inv'
  <1>1. /\ tx.who # Idle /\ Req.kind = "import" /\ tx.stage = "dns"
        /\ Move("file") /\ "file" \in Awaits /\ opts \in Options /\ Write(opts)
        /\ UNCHANGED <<reader, file, call, edit, edits, files, marks, acked>>
        /\ reader' \in BOOLEAN /\ marks \subseteq marks' /\ marks' \subseteq Marks
    BY DEF ImportApply, At, Awaits, Inv, TypeOK
  <1>2. /\ opts' = opts /\ live' \in LiveType /\ owed' \in BOOLEAN
        /\ live'.allow = opts.allow /\ live'.block = opts.block
        /\ live'.deny = opts.deny /\ live'.region = opts.region
    BY <1>1, Enforcing
  <1>3. /\ TypeOK' /\ CallsFit' /\ RegionFits' /\ EdgeHearsOfOptions'
        /\ Req' = Req /\ tx'.who = tx.who /\ tx'.stage = "file"
        /\ tx'.base = tx.base /\ tx'.plan = tx.plan
    BY <1>1, <1>2, StageInv
  <1>4. TxFits' /\ SwitchesFit' /\ LevelFits'
    BY <1>1, <1>2, <1>3
    DEF Inv, Fits, TxFits, SwitchesFit, LevelFits, Kind, Wrote, ImportStages
  <1>5. SafeFits'
    BY <1>1, <1>2, <1>3 DEF Inv, Fits, SafeFits, Kind, Safe
  <1>6. GeoFits' /\ ReaderFits'
    BY <1>1, <1>2, <1>3 DEF Inv, Fits, GeoFits, ReaderFits, Kind
  <1> QED
    BY <1>3, <1>4, <1>5, <1>6 DEF Inv, Fits

\* The reader is closed only when the plan has GeoIP off, and then no lock.
LEMMA ImportReaderInv ==
    ASSUME Inv, ImportFile \/ ImportOpen \/ ImportPanel
    PROVE  Inv'
  <1>1. /\ tx.who # Idle /\ Req.kind = "import" /\ tx.stage \in {"file", "open", "panel"}
        /\ UNCHANGED <<opts, live, file, call, edit, edits, files, owed, marks, acked>>
        /\ reader' \in BOOLEAN
    BY DEF ImportFile, ImportOpen, ImportPanel, At, Inv, TypeOK
  <1>2. PICK stage \in {"open", "panel", "bans"} : Move(stage)
    BY DEF ImportFile, ImportOpen, ImportPanel
  <1>3. stage \in Awaits \cup Undoing /\ stage \in ImportStages
    BY DEF Awaits, ImportStages
  <1>4. /\ TypeOK' /\ CallsFit' /\ RegionFits' /\ EdgeHearsOfOptions' /\ GeoFits'
        /\ Req' = Req /\ tx'.who = tx.who /\ tx'.stage = stage
        /\ tx'.base = tx.base /\ tx'.plan = tx.plan
    BY <1>1, <1>2, <1>3, QuietInv
  <1>5. TxFits' /\ SwitchesFit' /\ LevelFits'
    BY <1>1, <1>3, <1>4
    DEF Inv, Fits, TxFits, SwitchesFit, LevelFits, Kind, Wrote, Behind, ImportStages
  <1>6. SafeFits'
    BY <1>1, <1>4 DEF Inv, Fits, SafeFits, Kind, Safe
  <1>7. file /\ opts.region.on /\ reader => reader'
    <2>1. opts.region = tx.plan.region /\ (tx.plan.region.on => tx.plan.geo)
      BY <1>1 DEF Inv, Fits, SwitchesFit, TxFits, Wrote, Kind
    <2> QED
      BY <2>1 DEF ImportFile, ImportOpen, ImportPanel
  <1>8. ReaderFits'
    BY <1>1, <1>4, <1>7 DEF Inv, Fits, ReaderFits, Kind
  <1> QED
    BY <1>4, <1>5, <1>6, <1>8 DEF Inv, Fits

LEMMA ImportBansInv ==
    ASSUME Inv, ImportBans
    PROVE  Inv'
  <1>1. /\ tx.who # Idle /\ Req.kind = "import" /\ tx.stage = "bans" /\ Finish
        /\ UNCHANGED <<opts, live, reader, file, edit, edits, files, marks>>
        /\ opts.region = tx.plan.region /\ reader' \in BOOLEAN
    BY DEF ImportBans, At, Inv, TypeOK, Fits, SwitchesFit, Wrote, Kind
  <1>2. /\ CallsFit' /\ TxFits' /\ SwitchesFit' /\ RegionFits' /\ EdgeHearsOfOptions'
        /\ tx' \in TxType /\ tx'.who = Idle /\ tx'.stage = "none"
        /\ call' \in [Call -> CallType] /\ acked' \in Settings /\ owed' \in BOOLEAN
    BY <1>1, FinishedInv
  <1>3. LevelFits' /\ SafeFits' /\ GeoFits' /\ ReaderFits'
    BY <1>1, <1>2, SettledInv DEF Kind
  <1>4. TypeOK'
    BY <1>1, <1>2 DEF Inv, TypeOK, TxType, PlanType, CallType
  <1> QED
    BY <1>2, <1>3, <1>4 DEF Inv, Fits

-----------------------------------------------------------------------------
(* The Configure form.                                                     *)

LEMMA FormPanelInv ==
    ASSUME Inv, FormPanel
    PROVE  Inv'
  <1> DEFINE o == [opts EXCEPT !.allow = tx.plan.allow]
  <1>1. /\ tx.who # Idle /\ Req.kind = "configure" /\ tx.stage = "panel"
        /\ Move("dns") /\ "dns" \in Awaits /\ Write(o)
        /\ UNCHANGED <<reader, file, call, edit, edits, files, marks, acked>>
        /\ reader' \in BOOLEAN /\ marks \subseteq marks' /\ marks' \subseteq Marks
    BY DEF FormPanel, At, Awaits, Inv, TypeOK
  <1>2. opts \in Options /\ tx.plan.allow \in SUBSET Entry
    BY DEF Inv, TypeOK
  <1>3. /\ o \in Options /\ o.allow = tx.plan.allow /\ o.block = opts.block
        /\ o.deny = opts.deny
        /\ o.region = opts.region /\ o.geo = opts.geo
    BY <1>2 DEF Options
  <1> HIDE DEF o
  <1>4. /\ opts' = o /\ live' \in LiveType /\ owed' \in BOOLEAN
        /\ live'.allow = o.allow /\ live'.block = o.block
        /\ live'.deny = o.deny /\ live'.region = o.region
    BY <1>1, <1>3, Enforcing
  <1>5. /\ TypeOK' /\ CallsFit' /\ RegionFits' /\ EdgeHearsOfOptions'
        /\ Req' = Req /\ tx'.who = tx.who /\ tx'.stage = "dns"
        /\ tx'.base = tx.base /\ tx'.plan = tx.plan
    BY <1>1, <1>3, <1>4, StageInv
  <1>6. opts.deny = tx.plan.deny
    BY <1>1 DEF Inv, Fits, SwitchesFit, Wrote, Kind, Awaits
  <1>7. TxFits' /\ SwitchesFit' /\ LevelFits'
    BY <1>1, <1>3, <1>4, <1>5
    DEF Inv, Fits, TxFits, SwitchesFit, LevelFits, Kind, Wrote, Awaits
  <1>8. SafeFits'
    BY <1>1, <1>3, <1>4, <1>5, <1>6 DEF Inv, Fits, SafeFits, Kind, Safe
  <1>9. GeoFits' /\ ReaderFits'
    BY <1>1, <1>3, <1>4, <1>5 DEF Inv, Fits, GeoFits, ReaderFits, Kind
  <1> QED
    BY <1>5, <1>7, <1>8, <1>9 DEF Inv, Fits

LEMMA FormApplyInv ==
    ASSUME Inv, FormApply
    PROVE  Inv'
  <1> DEFINE o == [opts EXCEPT !.block = tx.plan.block]
  <1>1. /\ tx.who # Idle /\ Req.kind = "configure" /\ tx.stage = "dns"
        /\ Move("bans") /\ "bans" \in Awaits /\ Write(o)
        /\ UNCHANGED <<reader, file, call, edit, edits, files, acked>>
        /\ reader' \in BOOLEAN
    BY DEF FormApply, At, Awaits, Inv, TypeOK
  <1>m. /\ marks \subseteq marks' /\ marks' \subseteq Marks
        /\ opts.allow # tx.plan.allow => "crossed" \in marks'
    BY DEF FormApply, Mark, Inv, TypeOK, Marks
  <1>2. opts \in Options /\ tx.plan.block \in SUBSET Net
    BY DEF Inv, TypeOK
  <1>3. /\ o \in Options /\ o.allow = opts.allow /\ o.block = tx.plan.block
        /\ o.deny = opts.deny /\ o.region = opts.region /\ o.geo = opts.geo
    BY <1>2 DEF Options
  <1> HIDE DEF o
  <1>4. /\ opts' = o /\ live' \in LiveType /\ owed' \in BOOLEAN
        /\ live'.allow = o.allow /\ live'.block = o.block
        /\ live'.deny = o.deny /\ live'.region = o.region
    BY <1>1, <1>3, Enforcing
  <1>5. /\ TypeOK' /\ CallsFit' /\ RegionFits' /\ EdgeHearsOfOptions'
        /\ Req' = Req /\ tx'.who = tx.who /\ tx'.stage = "bans"
        /\ tx'.base = tx.base /\ tx'.plan = tx.plan
    BY <1>1, <1>m, <1>3, <1>4, StageInv
  <1>6. opts.deny = tx.plan.deny /\ Safe(tx.plan.allow, tx.plan.block, tx.plan.deny)
    BY <1>1 DEF Inv, Fits, SwitchesFit, TxFits, Wrote, Kind, Awaits
  <1>7. TxFits' /\ SwitchesFit' /\ LevelFits'
    BY <1>1, <1>m, <1>3, <1>4, <1>5
    DEF Inv, Fits, TxFits, SwitchesFit, LevelFits, Kind, Wrote, Awaits
  <1>8. SafeFits'
    BY <1>1, <1>m, <1>3, <1>4, <1>5, <1>6 DEF Inv, Fits, SafeFits, Kind, Safe
  <1>9. GeoFits' /\ ReaderFits'
    BY <1>1, <1>m, <1>3, <1>4, <1>5 DEF Inv, Fits, GeoFits, ReaderFits, Kind
  <1> QED
    BY <1>5, <1>7, <1>8, <1>9 DEF Inv, Fits

LEMMA FormFinishInv ==
    ASSUME Inv, FormFinish
    PROVE  Inv'
  <1>1. /\ tx.who # Idle /\ Req.kind = "configure" /\ tx.stage = "bans" /\ Finish
        /\ UNCHANGED <<live, reader, file, edit, edits, files>>
        /\ opts' = [opts EXCEPT !.allow = tx.plan.allow, !.block = tx.plan.block,
                                !.deny = tx.plan.deny, !.geo = tx.plan.geo]
    BY DEF FormFinish, At
  <1>2. /\ marks \subseteq marks' /\ marks' \subseteq Marks /\ "formed" \in marks'
        /\ opts' # opts => "overwrote" \in marks'
    BY DEF FormFinish, Inv, TypeOK, Marks
  <1>3. /\ opts.deny = tx.plan.deny /\ opts.region = tx.plan.region
        /\ opts.geo = tx.plan.geo
    BY <1>1 DEF Inv, Fits, SwitchesFit, Wrote, Kind, Awaits
  <1>4. /\ opts' \in Options /\ opts'.deny = opts.deny
        /\ opts'.region = opts.region /\ opts'.geo = opts.geo
    <2>1. opts \in Options /\ tx.plan.allow \in SUBSET Entry /\ tx.plan.block \in SUBSET Net
          /\ tx.plan.deny \in BOOLEAN /\ tx.plan.geo \in BOOLEAN
      BY DEF Inv, TypeOK
    <2> QED
      BY <1>1, <1>3, <2>1 DEF Options
  <1>5. /\ CallsFit' /\ TxFits' /\ SwitchesFit' /\ RegionFits' /\ EdgeHearsOfOptions'
        /\ tx' \in TxType /\ tx'.who = Idle /\ tx'.stage = "none"
        /\ call' \in [Call -> CallType] /\ acked' \in Settings /\ owed' \in BOOLEAN
    BY <1>1, <1>2, <1>3, <1>4, FinishedInv
  <1>6. LevelFits' /\ SafeFits' /\ GeoFits' /\ ReaderFits'
    BY <1>1, <1>2, <1>4, <1>5, SettledInv DEF Kind
  <1>7. TypeOK'
    BY <1>1, <1>2, <1>4, <1>5 DEF Inv, TypeOK, TxType, PlanType, CallType
  <1> QED
    BY <1>5, <1>6, <1>7 DEF Inv, Fits

-----------------------------------------------------------------------------
(* The undo.                                                               *)

\* Restored options are those the transaction began with.
LEMMA RestoredInv ==
    ASSUME Inv, tx.stage \in {"undo", "undo_detach"}, tx.who # Idle,
           opts' = tx.base, Move("undo_dns"),
           UNCHANGED <<live, reader, file, call, edit, edits, files, owed, marks, acked>>
    PROVE  Inv'
  <1>1. /\ opts' \in Options /\ live' \in LiveType /\ reader' \in BOOLEAN
        /\ owed' \in BOOLEAN /\ marks \subseteq marks' /\ marks' \subseteq Marks
        /\ UNCHANGED <<file, call, edit, edits, files, acked>> /\ "undo_dns" \in Undoing
    BY DEF Inv, TypeOK, LiveType, Undoing
  <1>2. /\ TypeOK' /\ CallsFit' /\ RegionFits' /\ EdgeHearsOfOptions'
        /\ Req' = Req /\ tx'.who = tx.who /\ tx'.stage = "undo_dns"
        /\ tx'.base = tx.base /\ tx'.plan = tx.plan
    BY <1>1, StageInv
  <1>3. TxFits' /\ SwitchesFit'
    BY <1>2 DEF Inv, Fits, TxFits, SwitchesFit, Kind, Wrote, Undoing, Awaits
  <1>4. LevelFits' /\ ReaderFits'
    BY <1>2 DEF LevelFits, Behind, ReaderFits, Kind
  <1>5. SafeFits'
    BY <1>2 DEF Inv, Fits, SafeFits, Kind, Safe
  <1>6. GeoFits'
    BY <1>2 DEF Inv, Fits, GeoFits
  <1> QED
    BY <1>2, <1>3, <1>4, <1>5, <1>6 DEF Inv, Fits

LEMMA UndoInv ==
    ASSUME Inv, Undo \/ UndoDetach
    PROVE  Inv'
  <1>1. /\ tx.stage \in {"undo", "undo_detach"} /\ tx.who # Idle
        /\ UNCHANGED <<live, reader, file, call, edit, edits, files, owed, marks, acked>>
    BY DEF Undo, UndoDetach, Inv, Fits, TxFits
  <1>2. CASE opts' = tx.base /\ Move("undo_dns")
    BY <1>1, <1>2, RestoredInv
  <1>3. CASE Move("undo_detach") /\ UNCHANGED opts
    <2>1. reader' \in BOOLEAN /\ "undo_detach" \in Undoing
      BY <1>1 DEF Inv, TypeOK, Undoing
    <2>2. /\ TypeOK' /\ CallsFit' /\ RegionFits' /\ EdgeHearsOfOptions' /\ GeoFits'
          /\ Req' = Req /\ tx'.who = tx.who /\ tx'.stage = "undo_detach"
          /\ tx'.base = tx.base /\ tx'.plan = tx.plan
      BY <1>1, <1>3, <2>1, QuietInv
    <2>3. TxFits' /\ SwitchesFit'
      BY <1>1, <2>2 DEF Inv, Fits, TxFits, SwitchesFit, Kind, Wrote, Undoing
    <2>4. LevelFits' /\ ReaderFits'
      BY <2>2 DEF LevelFits, Behind, ReaderFits, Kind
    <2>5. SafeFits'
      BY <1>1, <1>3, <2>2 DEF Inv, Fits, SafeFits, Kind, Safe
    <2> QED
      BY <2>2, <2>3, <2>4, <2>5 DEF Inv, Fits
  <1> QED
    BY <1>2, <1>3 DEF Undo, UndoDetach

LEMMA UndoDnsInv ==
    ASSUME Inv, UndoDns
    PROVE  Inv'
  <1> DEFINE stage == IF opts.geo THEN "undo_open" ELSE "undo_panel"
  <1>1. /\ tx.stage = "undo_dns" /\ tx.who # Idle /\ opts \in Options /\ Write(opts)
        /\ reader' = (reader /\ opts.geo) /\ reader' \in BOOLEAN
        /\ Move(stage) /\ stage \in Undoing /\ stage \in {"undo_open", "undo_panel"}
        /\ ~ opts.geo => stage = "undo_panel"
        /\ opts.geo => stage = "undo_open"
        /\ UNCHANGED <<file, call, edit, edits, files, marks, acked>>
        /\ marks \subseteq marks' /\ marks' \subseteq Marks
    BY DEF UndoDns, Inv, TypeOK, Fits, TxFits, Undoing
  <1> HIDE DEF stage
  <1>2. /\ opts' = opts /\ live' \in LiveType /\ owed' \in BOOLEAN
        /\ live'.allow = opts.allow /\ live'.block = opts.block
        /\ live'.deny = opts.deny /\ live'.region = opts.region
    BY <1>1, Enforcing
  <1>3. /\ TypeOK' /\ CallsFit' /\ RegionFits' /\ EdgeHearsOfOptions'
        /\ Req' = Req /\ tx'.who = tx.who /\ tx'.stage = stage
        /\ tx'.base = tx.base /\ tx'.plan = tx.plan
    BY <1>1, <1>2, StageInv
  <1>4. TxFits' /\ SwitchesFit' /\ LevelFits'
    BY <1>1, <1>2, <1>3
    DEF Inv, Fits, TxFits, SwitchesFit, LevelFits, Kind, Wrote, Undoing, Awaits
  <1>5. SafeFits'
    BY <1>1, <1>2, <1>3 DEF Inv, Fits, SafeFits, Kind, Safe
  <1>6. GeoFits' /\ ReaderFits'
    BY <1>1, <1>2, <1>3 DEF Inv, Fits, GeoFits, ReaderFits, Kind
  <1> QED
    BY <1>3, <1>4, <1>5, <1>6 DEF Inv, Fits

LEMMA UndoOpenInv ==
    ASSUME Inv, UndoOpen
    PROVE  Inv'
  <1>1. /\ tx.stage = "undo_open" /\ tx.who # Idle /\ reader' = file /\ reader' \in BOOLEAN
        /\ Move("undo_panel") /\ "undo_panel" \in Undoing
        /\ UNCHANGED <<opts, live, file, call, edit, edits, files, owed, marks, acked>>
    BY DEF UndoOpen, Inv, TypeOK, Fits, TxFits, Undoing
  <1>2. /\ TypeOK' /\ CallsFit' /\ RegionFits' /\ EdgeHearsOfOptions' /\ GeoFits'
        /\ Req' = Req /\ tx'.who = tx.who /\ tx'.stage = "undo_panel"
        /\ tx'.base = tx.base /\ tx'.plan = tx.plan
    BY <1>1, QuietInv
  <1>3. TxFits' /\ SwitchesFit' /\ LevelFits'
    BY <1>1, <1>2
    DEF Inv, Fits, TxFits, SwitchesFit, LevelFits, Kind, Wrote, Behind, Undoing, Awaits
  <1>4. SafeFits' /\ ReaderFits'
    BY <1>1, <1>2 DEF Inv, Fits, SafeFits, ReaderFits, Kind, Safe
  <1> QED
    BY <1>2, <1>3, <1>4 DEF Inv, Fits

\* The end of the undo: as before the transaction, and the proxy knows.
LEMMA UndoEndInv ==
    ASSUME Inv, UndoPanel \/ UndoSync
    PROVE  Inv'
  <1>1. /\ tx.stage \in {"undo_panel", "undo_sync"} /\ tx.who # Idle
        /\ UNCHANGED <<opts, live, reader, file, edit, edits, files, marks, acked>>
        /\ reader' \in BOOLEAN
    BY DEF UndoPanel, UndoSync, Inv, TypeOK, Fits, TxFits
  <1>2. opts.region = tx.base.region
    BY <1>1 DEF Inv, Fits, SwitchesFit, Wrote, Awaits
  <1>3. CASE Leave /\ owed' = FALSE
    <2>1. /\ tx' \in TxType /\ tx'.who = Idle /\ tx'.stage = "none"
          /\ call' \in [Call -> CallType]
      BY <1>1, <1>3, Left DEF Inv
    <2>2. CallsFit' /\ TxFits' /\ SwitchesFit' /\ RegionFits' /\ EdgeHearsOfOptions'
      BY <1>1, <1>2, <1>3, UndoneInv
    <2>3. LevelFits' /\ SafeFits' /\ GeoFits' /\ ReaderFits'
      BY <1>1, <2>1, SettledInv
    <2>4. TypeOK'
      BY <1>1, <1>3, <2>1 DEF Inv, TypeOK, TxType, PlanType, CallType
    <2> QED
      BY <2>2, <2>3, <2>4 DEF Inv, Fits
  <1>4. CASE tx.stage = "undo_panel" /\ Move("undo_sync") /\ UNCHANGED <<call, owed>>
    <2>1. "undo_sync" \in Undoing
      BY DEF Undoing
    <2>2. /\ TypeOK' /\ CallsFit' /\ RegionFits' /\ EdgeHearsOfOptions' /\ GeoFits'
          /\ Req' = Req /\ tx'.who = tx.who /\ tx'.stage = "undo_sync"
          /\ tx'.base = tx.base /\ tx'.plan = tx.plan
      BY <1>1, <1>4, <2>1, QuietInv
    <2>3. TxFits' /\ SwitchesFit' /\ LevelFits'
      BY <1>1, <1>4, <2>2
      DEF Inv, Fits, TxFits, SwitchesFit, LevelFits, Kind, Wrote, Behind, Undoing, Awaits
    <2>4. SafeFits' /\ ReaderFits'
      BY <1>1, <1>4, <2>2 DEF Inv, Fits, SafeFits, ReaderFits, Kind, Safe
    <2> QED
      BY <2>2, <2>3, <2>4 DEF Inv, Fits
  <1> QED
    BY <1>3, <1>4 DEF UndoPanel, UndoSync

\* An undo that broke has restored the options and nothing else.
LEMMA BreakInv ==
    ASSUME Inv, Break
    PROVE  Inv'
  <1>1. /\ tx.stage \in Undoing /\ tx.stage # "undo" /\ tx.who # Idle
        /\ UNCHANGED <<live, reader, file, edit, edits, files, owed, acked>>
        /\ Leave /\ "broken" \in marks' /\ marks \subseteq marks' /\ marks' \subseteq Marks
    BY DEF Break, Mark, Inv, TypeOK, Fits, TxFits, Undoing, Marks
  <1>2. opts' \in Options /\ opts'.region = tx.base.region
    BY <1>1 DEF Break, Inv, TypeOK, Fits, SwitchesFit, Wrote, Awaits, Undoing
  <1>3. opts' = tx.base \/ opts' = opts
    BY DEF Break
  <1>4. /\ tx' \in TxType /\ tx'.who = Idle /\ tx'.stage = "none"
        /\ call' \in [Call -> CallType]
    BY <1>1, Left DEF Inv
  <1>5. CallsFit' /\ TxFits' /\ SwitchesFit' /\ RegionFits' /\ EdgeHearsOfOptions'
    BY <1>1, <1>2, UndoneInv
  <1>6. LevelFits' /\ ReaderFits'
    BY <1>1 DEF LevelFits, ReaderFits
  <1>7. SafeFits'
    BY <1>1 DEF Inv, Fits, SafeFits, Safe
  <1>8. GeoFits'
    BY <1>1, <1>3, <1>4 DEF Inv, Fits, GeoFits
  <1>9. TypeOK'
    BY <1>1, <1>2, <1>4 DEF Inv, TypeOK, TxType, PlanType, CallType
  <1> QED
    BY <1>5, <1>6, <1>7, <1>8, <1>9 DEF Inv, Fits

-----------------------------------------------------------------------------
(* Every step keeps the invariant.                                         *)

LEMMA RunInv ==
    ASSUME ConfigurationAssumption, Inv, Run
    PROVE  Inv'
  <1>1. Idle \notin Call
    BY DEF ConfigurationAssumption
  <1>2. ASSUME NEW c \in Call, Acquire(c) PROVE Inv'
    BY <1>1, <1>2, AcquireInv
  <1>3. CASE OptionsCheck \/ OptionsFile \/ OptionsOpen \/ OptionsPanel \/ OptionsAttach
    BY <1>3, OptionsCheckInv, OptionsFileInv, OptionsOpenInv, OptionsPanelInv,
       OptionsAttachInv
  <1>4. CASE ImportPrepare \/ ImportCheck \/ ImportWrite \/ ImportApply
    BY <1>4, ImportPrepareInv, ImportCheckInv, ImportWriteInv, ImportApplyInv
  <1>5. CASE ImportFile \/ ImportOpen \/ ImportPanel \/ ImportBans
    BY <1>5, ImportReaderInv, ImportBansInv
  <1>6. CASE FormPanel \/ FormApply \/ FormFinish
    BY <1>6, FormPanelInv, FormApplyInv, FormFinishInv
  <1>7. CASE Fail
    BY <1>7, FailInv
  <1>8. CASE Undo \/ UndoDetach \/ UndoDns \/ UndoOpen
    BY <1>8, UndoInv, UndoDnsInv, UndoOpenInv
  <1>9. CASE UndoPanel \/ UndoSync \/ Break
    BY <1>9, UndoEndInv, BreakInv
  <1> QED
    BY <1>2, <1>3, <1>4, <1>5, <1>6, <1>7, <1>8, <1>9 DEF Run

LEMMA StutterInv ==
    ASSUME Inv, UNCHANGED vars
    PROVE  Inv'
  <1>1. UNCHANGED <<opts, live, reader, file, call, tx, edit, edits, files, owed, marks,
                    acked>>
    BY DEF vars
  <1>2. Req' = Req
    BY <1>1, Kept
  <1>3. TypeOK' /\ CallsFit' /\ TxFits' /\ SwitchesFit' /\ LevelFits' /\ EdgeHearsOfOptions'
    BY <1>1, <1>2
    DEF Inv, Fits, TypeOK, CallsFit, TxFits, SwitchesFit, LevelFits,
        EdgeHearsOfOptions, Kind, Wrote, Behind
  <1>4. SafeFits' /\ GeoFits' /\ ReaderFits' /\ RegionFits'
    BY <1>1, <1>2 DEF Inv, Fits, SafeFits, GeoFits, ReaderFits, RegionFits, Kind, Safe
  <1> QED
    BY <1>3, <1>4 DEF Inv, Fits

LEMMA NextInv ==
    ASSUME ConfigurationAssumption, Inv, [Next]_vars
    PROVE  Inv'
  <1>1. CASE Run
    BY <1>1, RunInv
  <1>2. ASSUME NEW c \in Call,
               \/ \E r \in OptionRequests : SetOptions(c, r)
               \/ \E r \in ImportRequests : ImportBackup(c, r)
               \/ \E r \in FormRequests : SendForm(c, r)
               \/ \E old \in Rule, region \in Rule : SetRegion(c, old, region)
               \/ \E region \in opts.region.rules : RemoveRegion(c, region)
        PROVE  Inv'
    BY <1>2, CallsInv
  <1>3. ASSUME NEW allow \in SUBSET Entry, EditAllow(allow) PROVE Inv'
    <2>1. opts.block \in SUBSET Net
      BY DEF Inv, TypeOK, Options
    <2> QED
      BY <1>3, <2>1, StartEditInv DEF EditAllow
  <1>7. ASSUME NEW e \in Net, AddBlocked(e) PROVE Inv'
    <2>1. opts.allow \in SUBSET Entry /\ opts.block \cup {e} \in SUBSET Net
      BY DEF Inv, TypeOK, Options
    <2> QED
      BY <1>7, <2>1, StartEditInv DEF AddBlocked
  <1>8. ASSUME NEW e \in Net, RemoveBlocked(e) PROVE Inv'
    BY <1>8, RemoveBlockedInv
  <1>4. CASE WriteAllow \/ WriteBlocked \/ TimerRefresh
    BY <1>4, WriteAllowInv, WriteBlockedInv, TimerRefreshInv
  <1>5. CASE Download \/ LoseFile
    BY <1>5, FilesInv
  <1>6. CASE UNCHANGED vars
    BY <1>6, StutterInv
  <1> QED
    BY <1>1, <1>2, <1>3, <1>4, <1>5, <1>6, <1>7, <1>8 DEF Next

\* In every reachable state of the service, for whatever calls are made and
\* wherever they fail, the options, what is enforced, the reader, and the
\* stage of the transaction fit each other.
THEOREM InvHolds ==
    ASSUME ConfigurationAssumption
    PROVE  Spec => []Inv
  <1>1. Init => Inv
    BY InitInv
  <1>2. Inv /\ [Next]_vars => Inv'
    BY NextInv
  <1> QED
    BY <1>1, <1>2, PTL DEF Spec

-----------------------------------------------------------------------------
(* The properties.                                                         *)

LEMMA InvMeans ==
    ASSUME Inv
    PROVE  LiveFollowsOptions /\ NoLockout /\ RegionLockUsable /\ SequentialRegions
  <1>1. LiveFollowsOptions
    <2> SUFFICES ASSUME tx.who = Idle, marks \cap {"broken", "overwrote"} = {}
                 PROVE  live = Enforced(opts)
      BY DEF LiveFollowsOptions
    <2>1. /\ live.allow = opts.allow /\ live.block = opts.block
          /\ live.deny = opts.deny /\ live.region = opts.region
      BY DEF Inv, Fits, TxFits, LevelFits, Behind, Kind
    <2>2. live \in LiveType
      BY DEF Inv, TypeOK, LiveType
    <2> QED
      BY <2>1, <2>2 DEF Enforced, LiveType
  <1>2. NoLockout
    BY DEF NoLockout, Inv, Fits, SafeFits, Kind, At
  <1>3. RegionLockUsable
    <2> SUFFICES ASSUME tx.who = Idle, live.region.on,
                        marks \cap {"darkened", "broken"} = {}
                 PROVE  opts.geo /\ (files = 0 /\ file => reader)
      BY DEF RegionLockUsable
    <2>1. tx.stage = "none"
      BY DEF Inv, Fits, TxFits
    <2>2. live.region = opts.region
      BY <2>1 DEF Inv, Fits, LevelFits, Behind, Kind
    <2> QED
      BY <2>1, <2>2 DEF Inv, Fits, GeoFits, ReaderFits
  <1>4. SequentialRegions
    BY DEF SequentialRegions, Inv, Fits, RegionFits
  <1> QED
    BY <1>1, <1>2, <1>3, <1>4

\* Every value of the state stays in its set: of a transaction and the calls
\* that wait, of the options saved and enforced, of the proxy's policy, and of
\* the reader and its files, for any number of calls and of edits beside them.
THEOREM TypesHold ==
    ASSUME ConfigurationAssumption
    PROVE  Spec => []TypeOK
  <1>1. Inv => TypeOK
    BY DEF Inv
  <1> QED
    BY <1>1, InvHolds, PTL

\* Whatever await a transaction failed in and whatever was edited meanwhile,
\* the lookup enforces what is saved once the lock is free, unless the undo
\* itself failed or a form wrote over a list edit.
THEOREM EnforcedIsSaved ==
    ASSUME ConfigurationAssumption
    PROVE  Spec => []LiveFollowsOptions
  <1>1. Inv => LiveFollowsOptions
    BY InvMeans
  <1> QED
    BY <1>1, InvHolds, PTL

\* Whatever edits, unchecked removals and transactions follow each other, as
\* long as none was written beside lists or switches it had not been checked
\* with: what is enforced keeps a local path, except while a restore, a form
\* or an undo has not applied what it wrote, or a removal has applied the
\* form's switches before the allowlist that comes with them.
THEOREM LocalPathStays ==
    ASSUME ConfigurationAssumption
    PROVE  Spec => []NoLockout
  <1>1. Inv => NoLockout
    BY InvMeans
  <1> QED
    BY <1>1, InvHolds, PTL

\* A region lock that is enforced has GeoIP on and keeps its reader, whatever
\* was changed, restored or undone, unless the Configure form turned it off.
THEOREM LockTellsRegions ==
    ASSUME ConfigurationAssumption
    PROVE  Spec => []RegionLockUsable
  <1>1. Inv => RegionLockUsable
    BY InvMeans
  <1> QED
    BY <1>1, InvHolds, PTL

\* Region edits that did not overlap add up, for any rules and any codes
\* that replace each other, also after transactions that were undone.
THEOREM RegionsAddUp ==
    ASSUME ConfigurationAssumption
    PROVE  Spec => []SequentialRegions
  <1>1. Inv => SequentialRegions
    BY InvMeans
  <1> QED
    BY <1>1, InvHolds, PTL

\* What a transaction changed, or its undo, the proxy has been told of when
\* the lock is free, unless the undo failed or it was the Configure form.
THEOREM EdgeIsTold ==
    ASSUME ConfigurationAssumption
    PROVE  Spec => []EdgeHearsOfOptions
  <1>1. Inv => EdgeHearsOfOptions
    BY DEF Inv, Fits
  <1> QED
    BY <1>1, InvHolds, PTL

\* No step of a transaction that saves other options touches the lists, as
\* they are or as an edit outside the lock has made them; only its undo does.
THEOREM ListsStay ==
    ASSUME ConfigurationAssumption
    PROVE  Spec => ListsKept
  <1> DEFINE Allowed == <<opts.allow, opts.block>>' # <<opts.allow, opts.block>> =>
                 \/ edits' # edits
                 \/ edit.on /\ ~edit'.on
                 \/ \E c \in {tx.who, tx'.who} \ {Idle} :
                       call[c].req.kind # "options" \/ tx.stage \in Undoing
  <1>1. ASSUME Inv, [Next]_vars PROVE [Allowed]_vars
    <2> SUFFICES ASSUME <<opts.allow, opts.block>>' # <<opts.allow, opts.block>>
                 PROVE  Allowed
      OBVIOUS
    <2>1. tx.who = Idle <=> tx.stage = "none"
      BY <1>1 DEF Inv, Fits, TxFits
    <2>2. CASE WriteAllow \/ WriteBlocked
      BY <2>2 DEF WriteAllow, WriteBlocked, NoEdit
    <2>3. CASE Undo \/ UndoDetach \/ Break
      BY <2>1, <2>3 DEF Undo, UndoDetach, Break, Undoing
    <2>4. CASE ImportWrite \/ FormPanel \/ FormApply \/ FormFinish
      BY <2>4 DEF ImportWrite, FormPanel, FormApply, FormFinish, At, Req
    <2>5. opts \in Options
      BY <1>1 DEF Inv, TypeOK
    <2>6. ASSUME NEW c \in Call, Acquire(c) PROVE Allowed
      <3>1. CASE call[c].req.kind = "configure"
        <4>1. tx'.who = c /\ c # Idle
          BY <2>6, ConfigurationAssumption DEF Acquire, ConfigurationAssumption
        <4> QED
          BY <3>1, <4>1
      <3>2. CASE call[c].req.kind # "configure"
        BY <2>6, <3>2 DEF Acquire
      <3> QED
        BY <3>1, <3>2
    <2>7. ASSUME WriteOptions PROVE FALSE
      BY <2>5, <2>7 DEF WriteOptions, Options
    <2>8. ~ OptionsAttach
      BY <2>5 DEF OptionsAttach, Options
    <2>9. ~ UNCHANGED opts
      OBVIOUS
    <2>10. ~ (OptionsCheck \/ OptionsFile \/ OptionsOpen \/ OptionsPanel)
      BY <2>7, <2>9 DEF OptionsCheck, OptionsFile, OptionsOpen, OptionsPanel
    <2>11. ~ (ImportPrepare \/ ImportCheck \/ ImportFile \/ ImportOpen \/ ImportPanel
              \/ ImportBans)
      BY <2>9 DEF ImportPrepare, ImportCheck, ImportFile, ImportOpen, ImportPanel,
                  ImportBans
    <2>12. ~ (ImportApply \/ UndoDns)
      BY <2>9 DEF ImportApply, UndoDns, Write
    <2>13. ~ (Fail \/ UndoOpen \/ UndoPanel \/ UndoSync)
      BY <2>9 DEF Fail, UndoOpen, UndoPanel, UndoSync
    <2>14. ~ (TimerRefresh \/ Download \/ LoseFile \/ Waiting)
      BY <2>9 DEF TimerRefresh, Download, LoseFile, Waiting
    <2>15. \A allow \in SUBSET Entry : ~ EditAllow(allow)
      BY <2>9 DEF EditAllow, StartEdit
    <2>20. \A e \in Net : ~ AddBlocked(e)
      BY <2>9 DEF AddBlocked, StartEdit
    <2>16. ASSUME NEW e \in Net, RemoveBlocked(e) PROVE Allowed
      <3>1. edits' = edits + 1 /\ edits \in Nat
        BY <1>1, <2>16 DEF RemoveBlocked, Inv, TypeOK
      <3> QED
        BY <3>1
    <2>19. ~ UNCHANGED vars
      BY <2>9 DEF vars
    <2>17. Run => Allowed
      BY <2>3, <2>4, <2>6, <2>8, <2>10, <2>11, <2>12, <2>13 DEF Run
    <2>18. CASE Next
      BY <2>2, <2>14, <2>15, <2>16, <2>17, <2>18, <2>20
      DEF Next, SetOptions, ImportBackup, SendForm, SetRegion, RemoveRegion
    <2> QED
      BY <1>1, <2>18, <2>19
  <1>2. Spec => [][Allowed]_vars
    BY <1>1, InvHolds, PTL DEF Spec
  <1> QED
    BY <1>2 DEF ListsKept
=============================================================================
