----------------------------- MODULE FilterPage -----------------------------
(***************************************************************************)
(* The page on which administrators manage filter rules (filters.ts with   *)
(* filtersPageModel.ts), the handlers it calls (dashboard_filters.py) and  *)
(* what a rule finds (filter_rules.py).                                    *)
(*                                                                         *)
(* Nothing on the page waits: while one click is under way the next one    *)
(* starts, and each mutation first fetches a CSRF token, which takes the   *)
(* one before it out of force.  Handlers of two administrators overlap as  *)
(* in FilterRules: a row is read in one step and its changed columns are   *)
(* written in a later one.                                                 *)
(*                                                                         *)
(* `label` stands for category, label and description; a text field is a   *)
(* list of words or one value, and None where it is blank.  Messages,      *)
(* versions, lengths, the sensitivity of a context rule and the sign-in    *)
(* are left out.                                                           *)
(***************************************************************************)
EXTENDS Naturals, Sequences, FiniteSets

CONSTANTS
  Pages,        \* open pages, each with a dashboard session of its own
  Slots,        \* clicks of one page that may be under way at a time
  Touched,      \* built-in rules whose rows the administrators may touch
  NewIds,       \* ids of the rules that administrators make
  MadeBefore,   \* those of them that are there when the pages open
  Words,        \* what a text field or an entry of a list may hold
  Groupings,    \* what the groups of a context rule may be: lists under a name
  Drafts,       \* what an administrator may type into the form
  Compiling,    \* the patterns that re.compile accepts
  Samples,      \* texts for dry runs: sets of words, matches of patterns and detector keys
  MaxClicks,    \* bound on the clicks of a page
  None

VARIABLES
  rows,         \* table filter_rules
  csrf,         \* the slot whose CSRF token is in force, for each session
  pageState, table, form, result,  \* pageState, rules, formState, dryRunResult
  ops,          \* for each page and slot: the click under way
  clicks

vars == <<rows, csrf, pageState, table, form, result, ops, clicks>>
page == <<pageState, table, form, result>>

(***************************************************************************)
(* Rules                                                                   *)
(***************************************************************************)
BuiltInRule(kind, key, pattern, severity, action) ==
  [origin |-> "built_in", kind |-> kind, label |-> key, keyword |-> None, pattern |-> pattern,
   placeholder |-> key, severity |-> severity, action |-> action, enabled |-> TRUE,
   config |-> None, archived |-> FALSE]

DetectorRules ==
  [EMAIL        |-> BuiltInRule("detector", "EMAIL", None, "medium", "MASK"),
   PHONE        |-> BuiltInRule("detector", "PHONE", None, "medium", "MASK"),
   RRN          |-> BuiltInRule("detector", "RRN", None, "high", "MASK"),
   CARD         |-> BuiltInRule("detector", "CARD", None, "high", "MASK"),
   BANK_ACCOUNT |-> BuiltInRule("detector", "BANK_ACCOUNT", None, "high", "MASK"),
   API_SECRET   |-> BuiltInRule("regex", "API_SECRET", "API_SECRET", "critical", "BLOCK")]

\* Rules of the context classifier; detect_pii() knows none of these keys.
BlockedContexts ==
  {"SECRET_CREDENTIAL_CONTEXT", "CONFIDENTIAL_BUSINESS_CONTEXT", "PROPRIETARY_TECHNICAL_CONTEXT",
   "SECURITY_CONTROL_CONTEXT", "BULK_SENSITIVE_RECORD_CONTEXT"}

ContextRiskRules ==
  [key \in BlockedContexts \cup {"PERSONAL_DATA_CONTEXT", "FINANCIAL_IDENTIFIER_CONTEXT", "INTERNAL_OPERATION_CONTEXT"} |->
     BuiltInRule("detector", key, None, IF key \in BlockedContexts THEN "critical" ELSE "high",
                 IF key \in BlockedContexts THEN "BLOCK" ELSE "WARN")]

BuiltInRules ==
  [key \in DOMAIN DetectorRules \cup DOMAIN ContextRiskRules |->
     IF key \in DOMAIN DetectorRules THEN DetectorRules[key] ELSE ContextRiskRules[key]]

\* The rows of the migration.
Seeded == [key \in {"EMAIL", "PHONE", "RRN", "CARD"} |-> DetectorRules[key]]

Ids == Touched \cup NewIds

Exists(id) == rows[id] # None

InCode(id) == IF id \in Touched THEN BuiltInRules[id] ELSE None

Current(id) == IF Exists(id) /\ ~rows[id].archived THEN rows[id] ELSE InCode(id)

Manageable ==
  [id \in Ids |-> IF id \in Touched \/ (Exists(id) /\ ~rows[id].archived) THEN Current(id) ELSE None]

Field(config, name, default) ==
  IF config # None /\ name \in DOMAIN config THEN config[name] ELSE default

KeywordHits(rule, text) == rule.keyword # None /\ rule.keyword \in text

RegexHits(rule, text) == rule.pattern # None /\ rule.pattern \in text

ContextHits(rule, text) ==
  LET groups == Field(rule.config, "groups", <<>>)
      terms == UNION {{<<g, i>> : i \in DOMAIN groups[g]} : g \in DOMAIN groups}
  IN Cardinality({t \in terms : groups[t[1]][t[2]] \in text}) >= Field(rule.config, "min", 1)

DetectorHits(rule, text) == rule.origin = "built_in" /\ rule.placeholder \in text \ DOMAIN ContextRiskRules

Matches(rule, text) ==
  /\ rule.enabled /\ ~rule.archived
  /\ \/ rule.kind = "detector" /\ DetectorHits(rule, text)
     \/ rule.kind = "keyword" /\ KeywordHits(rule, text)
     \/ rule.kind = "regex" /\ RegexHits(rule, text)
     \/ rule.kind = "context_rule" /\ ContextHits(rule, text)

DryRunAnswer(rule, text) ==
  [matched |-> Matches(rule, text), action |-> IF Matches(rule, text) THEN rule.action ELSE "ALLOW"]

(***************************************************************************)
(* The form                                                                *)
(***************************************************************************)
BlankForm ==
  [mode |-> "create", id |-> None, origin |-> "custom", kind |-> "keyword", label |-> None,
   placeholder |-> "CUSTOM_KEYWORD", severity |-> "medium", action |-> "MASK", enabled |-> TRUE,
   keywords |-> <<>>, exclusions |-> <<>>, pattern |-> None,
   groups |-> [business |-> <<"internal strategy">>], window |-> 80, min |-> 1]

FormFromRule(id, rule) ==
  [mode |-> "edit", id |-> id, origin |-> rule.origin, kind |-> rule.kind, label |-> rule.label,
   placeholder |-> rule.placeholder, severity |-> rule.severity, action |-> rule.action,
   enabled |-> rule.enabled, keywords |-> Field(rule.config, "keywords", <<>>),
   exclusions |-> Field(rule.config, "exclusions", <<>>), pattern |-> Field(rule.config, "pattern", None),
   groups |-> Field(rule.config, "groups", <<>>), window |-> Field(rule.config, "window", 80),
   min |-> Field(rule.config, "min", 1)]

\* The fields that are shown and not disabled; the kind of a stored rule is fixed.
Editable(f) ==
  {"severity", "action", "enabled"}
    \cup (IF f.origin = "built_in" THEN {}
          ELSE {"label", "exclusions"}
               \cup CASE f.kind = "keyword" -> {"keywords"}
                      [] f.kind = "regex" -> {"pattern"}
                      [] OTHER -> {"groups", "window", "min"})

\* The placeholder is shown for MASK and emptied with any other action.
Typed(f, draft) ==
  LET k == IF f.mode = "edit" THEN f ELSE [f EXCEPT !.kind = draft.kind]
      g == [x \in DOMAIN k |-> IF x \in Editable(k) /\ x \in DOMAIN draft THEN draft[x] ELSE k[x]]
  IN [g EXCEPT !.placeholder = IF g.action # "MASK" THEN None
                               ELSE IF g.origin = "custom" THEN Field(draft, "placeholder", @) ELSE @]

\* Lines without a colon, a name or a term are dropped.
ContextGroups(groups) == [g \in {h \in DOMAIN groups : groups[h] # <<>>} |-> groups[g]]

PositiveInteger(n) == n # None /\ n > 0

FormOK(f) ==
  /\ f.label # None
  /\ f.kind = "keyword" => f.keywords # <<>>
  /\ f.kind = "regex" => f.pattern # None
  /\ f.kind = "context_rule" =>
       ContextGroups(f.groups) # <<>> /\ PositiveInteger(f.window) /\ PositiveInteger(f.min)

\* Mutant: the words are sent as `keyword` only.
ConfigWithoutKeywords(f) == [exclusions |-> f.exclusions]

ConfigFromForm(f) ==
  CASE f.kind = "keyword" -> [keywords |-> f.keywords, exclusions |-> f.exclusions]
    [] f.kind = "regex"   -> [pattern |-> f.pattern, exclusions |-> f.exclusions]
    [] OTHER -> [groups |-> ContextGroups(f.groups), exclusions |-> f.exclusions, window |-> f.window, min |-> f.min]

\* The columns that are sent: of a built-in rule those an override may change.
BodyFields(f) ==
  {"severity", "action", "enabled"}
    \cup IF f.mode = "edit" /\ f.origin = "built_in" THEN {}
         ELSE {"label", "config", "placeholder"}
                \cup CASE f.kind = "keyword" -> {"keyword"} [] f.kind = "regex" -> {"pattern"} [] OTHER -> {}

Body(f) ==
  LET all == [severity |-> f.severity, action |-> f.action, enabled |-> f.enabled, label |-> f.label,
              config |-> ConfigFromForm(f), placeholder |-> IF f.action = "MASK" THEN f.placeholder ELSE None,
              keyword |-> IF f.keywords = <<>> THEN None ELSE Head(f.keywords), pattern |-> f.pattern]
  IN [field \in BodyFields(f) |-> all[field]]

SavePlan(f) ==
  [do |-> IF f.mode = "edit" THEN "update" ELSE "create", id |-> f.id, kind |-> f.kind, body |-> Body(f), text |-> {}]

\* A rule that is being edited is tried as it is stored.
DryRunPlan(f, text) ==
  [do |-> "dry_run", id |-> f.id, kind |-> f.kind, body |-> IF f.mode = "edit" THEN None ELSE Body(f), text |-> text]

(***************************************************************************)
(* What the server checks                                                  *)
(***************************************************************************)
ContextConfigOK(config) ==
  /\ config # None
  /\ Field(config, "groups", <<>>) # <<>>
  /\ PositiveInteger(Field(config, "window", None)) /\ PositiveInteger(Field(config, "min", None))

CreateOK(kind, body) ==
  /\ body.label # None
  /\ kind = "keyword" => body.keyword # None \/ Field(body.config, "keywords", <<>>) # <<>>
  /\ kind = "regex" => body.pattern \in Compiling
  /\ kind = "context_rule" => ContextConfigOK(body.config)

RuleFromCreate(kind, body) ==
  [origin |-> "custom", kind |-> kind, label |-> body.label, keyword |-> Field(body, "keyword", None),
   pattern |-> Field(body, "pattern", None), placeholder |-> body.placeholder, severity |-> body.severity,
   action |-> body.action, enabled |-> body.enabled, config |-> body.config, archived |-> FALSE]

EditableFields(rule) ==
  {"severity", "action", "enabled"}
    \cup IF rule.origin = "built_in" THEN {} ELSE {"label", "keyword", "pattern", "placeholder", "config"}

Overwritten(rule, patch) == [f \in DOMAIN rule |-> IF f \in DOMAIN patch THEN patch[f] ELSE rule[f]]

UpdateOK(rule, patch) ==
  LET next == Overwritten(rule, patch) IN
  /\ DOMAIN patch \subseteq EditableFields(rule)
  /\ rule.kind = "context_rule" => ContextConfigOK(next.config)
  /\ rule.kind = "regex" =>
       (IF next.pattern # None THEN next.pattern ELSE Field(next.config, "pattern", None)) \in Compiling

PatchOf(request) == IF request.do = "archive" THEN [archived |-> TRUE, enabled |-> FALSE] ELSE request.body

\* The columns in which the row the handler read was changed.
Dirty(seen, patch) == [f \in {g \in DOMAIN patch : patch[g] # seen[g]} |-> patch[f]]

\* The page can open the rule and save it again, and the rule can find something.
Usable(id, rule) ==
  LET f == FormFromRule(id, rule) IN
  /\ FormOK(f) /\ UpdateOK(rule, Body(f))
  /\ rule.kind = "keyword" => KeywordHits(rule, {rule.keyword})
  /\ rule.kind = "regex" => rule.pattern \in Compiling

(***************************************************************************)
(* Types                                                                   *)
(***************************************************************************)
CustomKinds == {"keyword", "regex", "context_rule"}
Severities == {"low", "medium", "high", "critical"}
Actions == {"ALLOW", "WARN", "MASK", "BLOCK"}
Blank == Words \cup {None}
Lists == Seq(Words)
Limits == Nat \cup {None}

KeywordConfig == [keywords: Lists, exclusions: Lists]
PatternConfig == [pattern: Blank, exclusions: Lists]
ContextConfig == [groups: Groupings, exclusions: Lists, window: Limits, min: Limits]

Rule ==
  [origin: {"built_in", "custom"}, kind: CustomKinds \cup {"detector"}, label: Blank, keyword: Blank, pattern: Blank,
   placeholder: Blank, severity: Severities, action: Actions, enabled: BOOLEAN,
   config: KeywordConfig \cup PatternConfig \cup ContextConfig \cup {None}, archived: BOOLEAN]

\* What can be typed into each field of the form.
FieldType ==
  [kind |-> CustomKinds, label |-> Blank, placeholder |-> Blank, severity |-> Severities, action |-> Actions,
   enabled |-> BOOLEAN, keywords |-> Lists, exclusions |-> Lists, pattern |-> Blank, groups |-> Groupings,
   window |-> Limits, min |-> Limits]

Form ==
  [mode: {"create", "edit"}, id: Ids \cup {None}, origin: {"built_in", "custom"}, kind: CustomKinds \cup {"detector"},
   label: Blank, placeholder: Blank, severity: Severities, action: Actions, enabled: BOOLEAN, keywords: Lists,
   exclusions: Lists, pattern: Blank, groups: Groupings, window: Limits, min: Limits]

Toggle == [enabled: BOOLEAN]
Override == [severity: Severities, action: Actions, enabled: BOOLEAN]
KeywordBody ==
  [severity: Severities, action: Actions, enabled: BOOLEAN, label: Blank, config: KeywordConfig, placeholder: Blank,
   keyword: Blank]
PatternBody ==
  [severity: Severities, action: Actions, enabled: BOOLEAN, label: Blank, config: PatternConfig, placeholder: Blank,
   pattern: Blank]
ContextBody ==
  [severity: Severities, action: Actions, enabled: BOOLEAN, label: Blank, config: ContextConfig, placeholder: Blank]

Request ==
  [do: {"load", "create", "update", "archive", "dry_run"}, id: Ids \cup {None},
   kind: CustomKinds \cup {"detector", "toggle", None},
   body: Toggle \cup Override \cup KeywordBody \cup PatternBody \cup ContextBody \cup {None},
   text: Samples \cup {{}}]

Held == [new: BOOLEAN, row: Rule]
Trial == [matched: BOOLEAN, action: Actions]
Table == [Ids -> Rule \cup {None}]

Operation ==
  [request: Request, pc: {"token", "sent", "held", "answered"}, seen: Held \cup {None},
   answer: {"none", "ok", "failed"}, value: Table \cup Trial \cup {None}]

\* A draft names the fields that were typed into; rules of before are as the page
\* made them.
ASSUME FilterPageAssumption ==
  /\ Touched \subseteq DOMAIN BuiltInRules /\ NewIds \cap (DOMAIN BuiltInRules \cup {"settings"}) = {}
  /\ Slots # {}
  /\ DOMAIN BuiltInRules \cup Compiling \cup {"CUSTOM_KEYWORD", "internal strategy"} \subseteq Words
  /\ {<<>>, BlankForm.groups} \cup {ContextGroups(groups) : groups \in Groupings} \subseteq Groupings
  /\ \A draft \in Drafts :
       "kind" \in DOMAIN draft /\ \A x \in DOMAIN draft : x \in DOMAIN FieldType /\ draft[x] \in FieldType[x]
  /\ MadeBefore # None /\ DOMAIN MadeBefore \subseteq NewIds
  /\ \A id \in DOMAIN MadeBefore :
       MadeBefore[id] \in Rule /\ MadeBefore[id].origin = "custom" /\ MadeBefore[id].kind \in CustomKinds
       /\ ~MadeBefore[id].archived
       /\ Usable(id, MadeBefore[id])
  /\ None \notin Words \cup Nat \cup Slots \cup Ids
  /\ None \notin KeywordConfig \cup PatternConfig \cup ContextConfig
  /\ None \notin KeywordBody \cup PatternBody \cup ContextBody
  /\ None \notin Rule /\ None \notin Operation

(***************************************************************************)
(* The page: one click, its requests, their answers                        *)
(***************************************************************************)
Free(p) == {s \in Slots : ops[p][s] = None}

Call(do) == [do |-> do, id |-> None, kind |-> None, body |-> None, text |-> {}]

Waiting(request, pc) == [request |-> request, pc |-> pc, seen |-> None, answer |-> "none", value |-> None]

NoRules == [id \in Ids |-> None]

LoadRules == Waiting(Call("load"), "sent")

Init ==
  /\ rows = [id \in Ids |-> IF id \in DOMAIN Seeded THEN Seeded[id] ELSE Field(MadeBefore, id, None)]
  /\ csrf = [p \in Pages |-> None]
  /\ pageState = [p \in Pages |-> "loading"]
  /\ table = [p \in Pages |-> NoRules]
  /\ form = [p \in Pages |-> BlankForm]
  /\ result = [p \in Pages |-> None]
  /\ ops = [p \in Pages |-> [s \in Slots |-> IF s = CHOOSE first \in Slots : TRUE THEN LoadRules ELSE None]]
  /\ clicks = [p \in Pages |-> 0]

\* While the rules load, or after that failed, the page shows neither form nor table.
Shown(p) == pageState[p] \in {"loaded", "empty"}

\* Every mutation asks for a CSRF token first.
Start(p, request) ==
  /\ Shown(p) /\ clicks[p] < MaxClicks
  /\ \E s \in Free(p) : ops' = [ops EXCEPT ![p][s] = Waiting(request, "token")]
  /\ clicks' = [clicks EXCEPT ![p] = @ + 1]
  /\ UNCHANGED <<rows, csrf, page>>

Creations == {o \in Pages \X Slots : ops[o[1]][o[2]] # None /\ ops[o[1]][o[2]].request.do = "create"}

\* NewIds bounds the rules that are made.
Save(p) ==
  /\ FormOK(form[p])
  /\ form[p].mode = "create" => Cardinality(Creations) < Cardinality({c \in NewIds : ~Exists(c)})
  /\ Start(p, SavePlan(form[p]))

SetEnabled(p, id) ==
  Start(p, [Call("update") EXCEPT !.id = id, !.kind = "toggle", !.body = [enabled |-> ~table[p][id].enabled]])

Archive(p, id) ==
  table[p][id].origin = "custom" /\ Start(p, [Call("archive") EXCEPT !.id = id])

DryRun(p, text) == text # {} /\ FormOK(form[p]) /\ Start(p, DryRunPlan(form[p], text))

Open(p, id) ==
  /\ Shown(p)
  /\ form' = [form EXCEPT ![p] = FormFromRule(id, table[p][id])]
  /\ result' = [result EXCEPT ![p] = None]
  /\ UNCHANGED <<rows, csrf, pageState, table, ops, clicks>>

New(p) ==
  /\ Shown(p)
  /\ form' = [form EXCEPT ![p] = BlankForm]
  /\ result' = [result EXCEPT ![p] = None]
  /\ UNCHANGED <<rows, csrf, pageState, table, ops, clicks>>

\* Another kind or action takes the dry run's result off the page.
Type(p, draft) ==
  /\ Shown(p)
  /\ form[p].mode = "edit" /\ form[p].origin = "custom" => draft.kind = form[p].kind
  /\ form' = [form EXCEPT ![p] = Typed(@, draft)]
  /\ result' = [result EXCEPT ![p] =
                  IF form'[p].kind = form[p].kind /\ form'[p].action = form[p].action THEN @ ELSE None]
  /\ UNCHANGED <<rows, csrf, pageState, table, ops, clicks>>

\* An error page can only be loaded anew.
Reload(p) ==
  /\ pageState[p] = "error" /\ clicks[p] < MaxClicks /\ Free(p) = Slots
  /\ pageState' = [pageState EXCEPT ![p] = "loading"]
  /\ ops' = [ops EXCEPT ![p][CHOOSE s \in Slots : TRUE] = LoadRules]
  /\ clicks' = [clicks EXCEPT ![p] = @ + 1]
  /\ UNCHANGED <<rows, csrf, table, form, result>>

(***************************************************************************)
(* The server                                                              *)
(***************************************************************************)
At(p, s, pc) == ops[p][s] # None /\ ops[p][s].pc = pc

Answered(p, s, answer, value) ==
  ops' = [ops EXCEPT ![p][s].pc = "answered", ![p][s].answer = answer, ![p][s].value = value]

GiveToken(p, s) ==
  /\ At(p, s, "token")
  /\ csrf' = [csrf EXCEPT ![p] = s]
  /\ ops' = [ops EXCEPT ![p][s].pc = "sent"]
  /\ UNCHANGED <<rows, page, clicks>>

ListRules(p, s) ==
  /\ At(p, s, "sent") /\ ops[p][s].request.do = "load"
  /\ Answered(p, s, "ok", Manageable)
  /\ UNCHANGED <<rows, csrf, page, clicks>>

Refused(p, s) ==
  LET r == ops[p][s].request IN
  \/ csrf[p] # s
  \/ r.do = "create" /\ ~CreateOK(r.kind, r.body)
  \/ r.do = "update" /\ r.kind # "toggle" /\ ~UpdateOK(IF Exists(r.id) THEN rows[r.id] ELSE InCode(r.id), r.body)
  \/ r.do = "dry_run" /\ r.body # None /\ ~CreateOK(r.kind, r.body)
  \/ r.do = "dry_run" /\ r.body = None /\ (~Exists(r.id) \/ rows[r.id].archived)

\* 403, 404 and 422, or the request does not get there.
Refuse(p, s) ==
  /\ At(p, s, "sent") /\ ops[p][s].request.do # "load"
  /\ Refused(p, s)
  /\ Answered(p, s, "failed", None)
  /\ UNCHANGED <<rows, csrf, page, clicks>>

Lose(p, s) ==
  /\ At(p, s, "token") \/ At(p, s, "sent")
  /\ Answered(p, s, "failed", None)
  /\ UNCHANGED <<rows, csrf, page, clicks>>

TryRule(p, s) ==
  LET r == ops[p][s].request IN
  /\ At(p, s, "sent") /\ r.do = "dry_run" /\ ~Refused(p, s)
  /\ Answered(p, s, "ok", DryRunAnswer(IF r.body = None THEN rows[r.id] ELSE RuleFromCreate(r.kind, r.body), r.text))
  /\ UNCHANGED <<rows, csrf, page, clicks>>

\* A built-in rule without a row gets one, filled from the code.
ReadRow(p, s) ==
  LET r == ops[p][s].request IN
  /\ At(p, s, "sent") /\ r.do \in {"update", "archive"} /\ ~Refused(p, s)
  /\ ops' = [ops EXCEPT ![p][s].pc = "held", ![p][s].seen =
               [new |-> ~Exists(r.id), row |-> IF Exists(r.id) THEN rows[r.id] ELSE InCode(r.id)]]
  /\ UNCHANGED <<rows, csrf, page, clicks>>

CreateRule(p, s) ==
  LET r == ops[p][s].request IN
  /\ At(p, s, "sent") /\ r.do = "create" /\ ~Refused(p, s)
  /\ \E id \in NewIds : ~Exists(id) /\ rows' = [rows EXCEPT ![id] = RuleFromCreate(r.kind, r.body)]
  /\ Answered(p, s, "ok", None)
  /\ UNCHANGED <<csrf, page, clicks>>

\* Mutant: the whole row that was read is written back.
CommitWholeRow(p, s) ==
  LET r == ops[p][s].request
      seen == ops[p][s].seen
      patch == PatchOf(r)
      clash == seen.new /\ Exists(r.id)
  IN
  /\ At(p, s, "held")
  /\ rows' = IF clash THEN rows
             ELSE [rows EXCEPT ![r.id] = Overwritten(seen.row, patch)]
  /\ \E lost \in BOOLEAN : Answered(p, s, IF clash \/ lost THEN "failed" ELSE "ok", None)
  /\ UNCHANGED <<csrf, page, clicks>>

\* A second first override of one built-in fails.
Commit(p, s) ==
  LET r == ops[p][s].request
      seen == ops[p][s].seen
      patch == PatchOf(r)
      clash == seen.new /\ Exists(r.id)
  IN
  /\ At(p, s, "held")
  /\ rows' = IF clash THEN rows
             ELSE [rows EXCEPT ![r.id] = IF seen.new THEN Overwritten(seen.row, patch)
                                         ELSE Overwritten(@, Dirty(seen.row, patch))]
  /\ \E lost \in BOOLEAN : Answered(p, s, IF clash \/ lost THEN "failed" ELSE "ok", None)
  /\ UNCHANGED <<csrf, page, clicks>>

(***************************************************************************)
(* Answers                                                                 *)
(***************************************************************************)
\* Mutant: a failed load leaves the page as it was.
RulesArriveQuietly(p, s) ==
  /\ At(p, s, "answered") /\ ops[p][s].request.do = "load"
  /\ IF ops[p][s].answer = "failed" THEN UNCHANGED page
     ELSE /\ table' = [table EXCEPT ![p] = ops[p][s].value]
          /\ pageState' = [pageState EXCEPT ![p] = IF ops[p][s].value = NoRules THEN "empty" ELSE "loaded"]
          /\ UNCHANGED <<form, result>>
  /\ ops' = [ops EXCEPT ![p][s] = None]
  /\ UNCHANGED <<rows, csrf, clicks>>

RulesArrive(p, s) ==
  /\ At(p, s, "answered") /\ ops[p][s].request.do = "load"
  /\ IF ops[p][s].answer = "failed"
       THEN /\ table' = [table EXCEPT ![p] = NoRules]
            /\ form' = [form EXCEPT ![p] = BlankForm]
            /\ pageState' = [pageState EXCEPT ![p] = "error"]
       ELSE /\ table' = [table EXCEPT ![p] = ops[p][s].value]
            /\ pageState' = [pageState EXCEPT ![p] = IF ops[p][s].value = NoRules THEN "empty" ELSE "loaded"]
            /\ UNCHANGED form
  /\ ops' = [ops EXCEPT ![p][s] = None]
  /\ UNCHANGED <<rows, csrf, result, clicks>>

\* The form stays as it is after a save, also after the creation of a rule.
Saved(p, s) ==
  /\ At(p, s, "answered") /\ ops[p][s].answer = "ok" /\ ops[p][s].request.do \in {"create", "update", "archive"}
  /\ LET r == ops[p][s].request IN
     /\ form' = IF r.do = "archive" THEN [form EXCEPT ![p] = BlankForm] ELSE form
     /\ result' = IF r.do = "archive" \/ r.kind = "toggle" THEN result ELSE [result EXCEPT ![p] = None]
  /\ pageState' = [pageState EXCEPT ![p] = "loading"]
  /\ ops' = [ops EXCEPT ![p][s] = LoadRules]
  /\ UNCHANGED <<rows, csrf, table, clicks>>

Failed(p, s) ==
  /\ At(p, s, "answered") /\ ops[p][s].answer = "failed" /\ ops[p][s].request.do # "load"
  /\ ops' = [ops EXCEPT ![p][s] = None]
  /\ UNCHANGED <<rows, csrf, page, clicks>>

Tried(p, s) ==
  /\ At(p, s, "answered") /\ ops[p][s].request.do = "dry_run" /\ ops[p][s].answer # "failed"
  /\ result' = [result EXCEPT ![p] = ops[p][s].value]
  /\ ops' = [ops EXCEPT ![p][s] = None]
  /\ UNCHANGED <<rows, csrf, pageState, table, form, clicks>>

Progress(p, s) ==
  \/ GiveToken(p, s) \/ ListRules(p, s) \/ Refuse(p, s) \/ TryRule(p, s) \/ ReadRow(p, s)
  \/ CreateRule(p, s) \/ Commit(p, s)
  \/ RulesArrive(p, s) \/ Saved(p, s) \/ Failed(p, s) \/ Tried(p, s)

Next ==
  \E p \in Pages :
    \/ Save(p) \/ New(p) \/ Reload(p)
    \/ \E id \in {i \in Ids : table[p][i] # None} : Open(p, id) \/ SetEnabled(p, id) \/ Archive(p, id)
    \/ \E draft \in Drafts : Type(p, draft)
    \/ \E text \in Samples : DryRun(p, text)
    \/ \E s \in Slots : Progress(p, s) \/ Lose(p, s)

Spec == Init /\ [][Next]_vars

(***************************************************************************)
(* Properties                                                              *)
(***************************************************************************)
TypeOK ==
  /\ rows \in [Ids -> Rule \cup {None}]
  /\ csrf \in [Pages -> Slots \cup {None}]
  /\ pageState \in [Pages -> {"loading", "loaded", "empty", "error"}]
  /\ table \in [Pages -> Table]
  /\ form \in [Pages -> Form]
  /\ result \in [Pages -> Trial \cup {None}]
  /\ ops \in [Pages -> [Slots -> Operation \cup {None}]]
  /\ clicks \in [Pages -> Nat]

\* A rule that administrators made finds something as long as it is on, and the
\* page can open it and save it again, whatever edits of it overlapped and
\* whichever of their columns came to be written.
RulesStayUsable ==
  \A c \in NewIds : Exists(c) /\ ~rows[c].archived => Usable(c, rows[c])

\* The loading notice hides everything that one could click.  While it shows, a
\* request for the rules is under way whose answer, also a failed one, takes it
\* away, however many clicks started before it.
LoadingIsAwaited ==
  \A p \in Pages : pageState[p] = "loading" =>
    \E s \in Slots : ops[p][s] # None /\ ops[p][s].request.do = "load"

(***************************************************************************)
(* The pages as the editors of FilterRules: of a rule they keep its        *)
(* action, severity, state and archive mark, of a click what its handler   *)
(* holds between the read of the row and its commit.                       *)
(***************************************************************************)
ActionOf == [ALLOW |-> "allow", WARN |-> "warn", MASK |-> "mask", BLOCK |-> "block"]

EditedColumns == {"action", "severity", "enabled", "archived"}

Columns(row) ==
  [f \in EditedColumns \cap DOMAIN row |-> IF f = "action" THEN ActionOf[row[f]] ELSE row[f]]

EditorRows ==
  [id \in DOMAIN rows \cup {"settings"} |->
     IF id = "settings" THEN None ELSE IF Exists(id) THEN Columns(rows[id]) ELSE None]

EditorEdits ==
  [o \in Pages \X Slots |->
     IF ~At(o[1], o[2], "held") THEN None
     ELSE LET op == ops[o[1]][o[2]] IN
          [id |-> op.request.id, patch |-> Columns(PatchOf(op.request)),
           new |-> op.seen.new, seen |-> Columns(op.seen.row)]]

EditorActions == {"allow", "warn", "mask", "block"}

EditorRow == [action: EditorActions, severity: Severities, enabled: BOOLEAN, archived: BOOLEAN]
EditorMade == [action: EditorActions, severity: Severities, enabled: BOOLEAN, archived: {FALSE}]
EditorOverride == [action: EditorActions, severity: Severities, enabled: BOOLEAN]
EditorArchive == [enabled: BOOLEAN, archived: BOOLEAN]

\* DEFAULT_POLICY_SETTINGS; this page leaves the settings alone.
EditorSettings ==
  [context_classifier_action |-> "warn", content_not_scanned_action |-> "warn", parser_or_ocr_failure_action |-> "warn",
   empty_input_action |-> "allow", unsupported_mask_fallback_action |-> "block"]

\* Of the rules to be made only the ids are known before.
EditorToBeMade == [action |-> "mask", severity |-> "medium", enabled |-> TRUE, archived |-> FALSE]

EditorDefault ==
  [id \in Ids \cup {"settings"} |->
     CASE id = "settings" -> EditorSettings
       [] id \in Touched -> Columns(BuiltInRules[id])
       [] id \in DOMAIN MadeBefore -> Columns(MadeBefore[id])
       [] OTHER -> EditorToBeMade]

EditorPatches == [id \in Ids \cup {"settings"} |-> IF id = "settings" THEN {} ELSE Toggle \cup EditorOverride]

Editors == INSTANCE FilterRules
  WITH BuiltIn <- Touched, Custom <- NewIds, Settings <- "settings",
       Seeded <- (DOMAIN Seeded \cap Touched) \cup DOMAIN MadeBefore,
       Default <- EditorDefault, Made <- EditorMade, Patches <- EditorPatches,
       Edits <- Pages \X Slots, NoRow <- None, NoEdit <- None,
       rows <- EditorRows, edit <- EditorEdits

ASSUME EditorAssumption ==
  /\ None \notin EditorRow /\ None \notin Editors!PolicyActionSettings
  /\ None \notin [id: Ids, patch: Toggle \cup EditorOverride \cup EditorArchive, new: BOOLEAN, seen: EditorRow]

\* Whatever clicks overlap, whichever answers are lost and however old a page
\* is, the rows change as the editors of FilterRules change them: an override
\* starts from the code, a commit leaves the columns alone that its click does
\* not write, and what is archived stays so.  This is Editors!AdminSpec, with
\* the steps that change nothing of it first.
ImplementsEditors ==
  Editors!AdminInit /\ [][UNCHANGED <<rows, EditorEdits>> \/ Editors!AdminNext]_vars

\* promptguard_dev_docs_1_0_2.md: a keyword rule has a list of keywords.  The
\* handlers store the list and the first word; only the word is looked for.
KeywordListIsSearched ==
  \A c \in NewIds : Exists(c) /\ rows[c].enabled /\ ~rows[c].archived /\ rows[c].kind = "keyword" =>
    \A i \in DOMAIN Field(rows[c].config, "keywords", <<>>) : Matches(rows[c], {rows[c].config.keywords[i]})

\* promptguard_dev_docs_1_0_2.md: a duplicate label is answered with 409.
LabelsAreUnique ==
  \A c, d \in NewIds : c # d /\ Exists(c) /\ Exists(d) /\ ~rows[c].archived /\ ~rows[d].archived =>
    rows[c].label # rows[d].label
=============================================================================
