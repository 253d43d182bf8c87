--------------------------- MODULE FilterPageProofs ---------------------------
(***************************************************************************)
(* FilterPage for any number of pages, clicks and rules, whatever is typed *)
(* into the form.                                                          *)
(*                                                                         *)
(* That rules stay usable is not inductive.  A handler writes single       *)
(* columns of a row that others write between its read and its commit, so  *)
(* usable is split into what each column must be for the kind of the rule  *)
(* (UsableColumn).  The kind is that of the form from which the request    *)
(* was made, of the answer to an earlier load, or of a click on it: each   *)
(* of these must agree with the row there is by now, which it does because *)
(* rows stay and keep their kind (KindIs).  So the invariant follows a     *)
(* rule from the table of a page to its form, its request, the handler and *)
(* the answer.  These parts take the rows as a parameter: a step that      *)
(* writes one row leaves the rest of the state fit for the new rows        *)
(* (StaysFit), and one that writes none only has to look at its own click. *)
(***************************************************************************)
EXTENDS FilterPage, SequenceTheorems, TLAPS

-------------------------------------------------------------------------------
(***************************************************************************)
(* The invariant and its parts                                             *)
(***************************************************************************)
PatchColumns ==
  {"label", "keyword", "pattern", "placeholder", "severity", "action", "enabled", "config", "archived"}

(* What a column of a rule of a kind must be for the rule to stay usable,    *)
(* whatever its other columns hold.                                          *)
UsableColumn(kind, column, value) ==
  /\ column = "label" => value # None
  /\ column = "keyword" /\ kind = "keyword" => value # None
  /\ column = "pattern" /\ kind = "regex" => value \in Compiling
  /\ column = "config" /\ kind = "keyword" => Field(value, "keywords", <<>>) # <<>>
  /\ column = "config" /\ kind = "regex" => Field(value, "pattern", None) \in Compiling
  /\ column = "config" /\ kind = "context_rule" =>
       /\ ContextGroups(Field(value, "groups", <<>>)) # <<>>
       /\ PositiveInteger(Field(value, "window", 80)) /\ PositiveInteger(Field(value, "min", 1))

OriginOf(id) == IF id \in Touched THEN "built_in" ELSE "custom"

(* The kind of a rule is fixed once there is a row for it in the table rs.   *)
KindIs(rs, id, kind) == IF id \in Touched THEN kind = BuiltInRules[id].kind ELSE rs[id] # None /\ rs[id].kind = kind

RowsFit(rs) ==
  \A id \in Ids : rs[id] # None =>
    /\ rs[id].origin = OriginOf(id) /\ KindIs(rs, id, rs[id].kind)
    /\ id \in NewIds => rs[id].kind \in CustomKinds /\ \A c \in PatchColumns : UsableColumn(rs[id].kind, c, rs[id][c])

TableFits(rs, rules) ==
  \A id \in Ids : rules[id] # None => rules[id].origin = OriginOf(id) /\ KindIs(rs, id, rules[id].kind)

FormFits(rs, f) ==
  /\ f.mode = "create" => f.id = None /\ f.origin = "custom" /\ f.kind \in CustomKinds
  /\ f.mode = "edit" => f.id \in Ids /\ f.origin = OriginOf(f.id) /\ KindIs(rs, f.id, f.kind)

(* What the page has checked of a form before it sends it.                   *)
PlanOK(kind, body) ==
  /\ body.label # None
  /\ kind = "keyword" => body \in KeywordBody /\ body.keyword # None /\ body.config.keywords # <<>>
  /\ kind = "regex" => body \in PatternBody /\ body.pattern # None /\ body.config.pattern = body.pattern
  /\ kind = "context_rule" =>
       /\ body \in ContextBody /\ ContextGroups(body.config.groups) # <<>>
       /\ PositiveInteger(body.config.window) /\ PositiveInteger(body.config.min)

RequestFits(rs, r) ==
  /\ r.do = "create" => r.kind \in CustomKinds /\ PlanOK(r.kind, r.body)
  /\ r.do = "update" /\ r.kind = "toggle" => r.id \in Ids /\ r.body \in Toggle /\ (r.id \in NewIds => rs[r.id] # None)
  /\ r.do = "update" /\ r.kind # "toggle" =>
       /\ r.id \in Ids /\ KindIs(rs, r.id, r.kind)
       /\ r.id \in Touched => r.body \in Override
       /\ r.id \in NewIds => PlanOK(r.kind, r.body)
  /\ r.do = "archive" => r.id \in NewIds /\ rs[r.id] # None
  /\ r.do = "dry_run" => IF r.body = None THEN r.id \in Ids ELSE r.kind \in CustomKinds /\ PlanOK(r.kind, r.body)

(* A handler that holds a row: a row that it makes comes from the code, and  *)
(* what it will write of a rule of the administrators keeps it usable.       *)
HeldFits(rs, op) ==
  LET r == op.request IN
  /\ r.do \in {"update", "archive"} /\ op.seen \in Held
  /\ op.seen.new => r.id \in Touched /\ op.seen.row = BuiltInRules[r.id]
  /\ ~op.seen.new => rs[r.id] # None
  /\ r.id \in NewIds => \A c \in DOMAIN PatchOf(r) : UsableColumn(rs[r.id].kind, c, PatchOf(r)[c])

OperationFits(rs, op) ==
  /\ RequestFits(rs, op.request)
  /\ op.pc = "held" => HeldFits(rs, op)
  /\ op.pc = "answered" =>
       /\ op.answer # "none"
       /\ op.request.do = "load" /\ op.answer = "ok" => op.value \in Table /\ TableFits(rs, op.value)
       /\ op.request.do = "dry_run" /\ op.answer = "ok" => op.value \in Trial

PageFits(rs) ==
  /\ \A p \in Pages : TableFits(rs, table[p]) /\ FormFits(rs, form[p])
  /\ \A p \in Pages, s \in Slots : ops[p][s] # None => OperationFits(rs, ops[p][s])

IndInv == TypeOK /\ RowsFit(rows) /\ PageFits(rows)

-------------------------------------------------------------------------------
(***************************************************************************)
(* Rules and forms by their columns                                        *)
(***************************************************************************)
Configs == KeywordConfig \cup PatternConfig \cup ContextConfig \cup {None}

Column ==
  [label |-> Blank, keyword |-> Blank, pattern |-> Blank, placeholder |-> Blank, severity |-> Severities,
   action |-> Actions, enabled |-> BOOLEAN, config |-> Configs, archived |-> BOOLEAN]

RuleFields == PatchColumns \cup {"origin", "kind"}

AllKinds == CustomKinds \cup {"detector"}

LEMMA RuleColumns ==
  ASSUME NEW r \in Rule
  PROVE  /\ DOMAIN r = RuleFields /\ r = [c \in RuleFields |-> r[c]]
         /\ \A c \in PatchColumns : r[c] \in Column[c]
         /\ r.origin \in {"built_in", "custom"} /\ r.kind \in AllKinds
<1>1. DOMAIN r = RuleFields /\ r = [c \in RuleFields |-> r[c]]
  BY DEF Rule, RuleFields, PatchColumns
<1>2. \A c \in PatchColumns : r[c] \in Column[c]
  BY DEF Rule, PatchColumns, Column, Configs
<1>3. r.origin \in {"built_in", "custom"} /\ r.kind \in AllKinds
  BY DEF Rule, AllKinds
<1> QED
  BY <1>1, <1>2, <1>3

LEMMA RuleFromColumns ==
  ASSUME NEW r, r = [c \in RuleFields |-> r[c]], \A c \in PatchColumns : r[c] \in Column[c],
         r.origin \in {"built_in", "custom"}, r.kind \in AllKinds
  PROVE  r \in Rule
<1> DEFINE q == [origin |-> r.origin, kind |-> r.kind, label |-> r.label, keyword |-> r.keyword, pattern |-> r.pattern,
                 placeholder |-> r.placeholder, severity |-> r.severity, action |-> r.action, enabled |-> r.enabled,
                 config |-> r.config, archived |-> r.archived]
<1>1. r = q
  BY DEF RuleFields, PatchColumns
<1>2. q \in Rule
  BY DEF Rule, PatchColumns, Column, Configs, AllKinds
<1> QED
  BY <1>1, <1>2

LEMMA OverwrittenRule ==
  ASSUME NEW rule \in Rule, NEW patch,
         \A c \in DOMAIN patch : c \in PatchColumns /\ patch[c] \in Column[c]
  PROVE  /\ Overwritten(rule, patch) \in Rule
         /\ Overwritten(rule, patch).origin = rule.origin /\ Overwritten(rule, patch).kind = rule.kind
         /\ \A c \in PatchColumns :
              Overwritten(rule, patch)[c] = IF c \in DOMAIN patch THEN patch[c] ELSE rule[c]
<1> DEFINE new == Overwritten(rule, patch)
<1>1. DOMAIN rule = RuleFields /\ (\A c \in PatchColumns : rule[c] \in Column[c])
      /\ rule.origin \in {"built_in", "custom"} /\ rule.kind \in AllKinds
  BY RuleColumns
<1>2. new = [c \in RuleFields |-> IF c \in DOMAIN patch THEN patch[c] ELSE rule[c]]
  BY <1>1 DEF Overwritten
<1>3. new = [c \in RuleFields |-> new[c]]
  BY <1>2
<1>4. \A c \in PatchColumns : new[c] = IF c \in DOMAIN patch THEN patch[c] ELSE rule[c]
  BY <1>2 DEF RuleFields
<1>5. "origin" \notin DOMAIN patch /\ "kind" \notin DOMAIN patch
  BY DEF PatchColumns
<1>6. new.origin = rule.origin /\ new.kind = rule.kind
  BY <1>2, <1>5 DEF RuleFields
<1>7. \A c \in PatchColumns : new[c] \in Column[c]
  BY <1>1, <1>4
<1>8. new \in Rule
  BY <1>1, <1>3, <1>6, <1>7, RuleFromColumns
<1> QED
  BY <1>4, <1>6, <1>8

LEMMA BuiltInKeys ==
  DOMAIN BuiltInRules =
    {"EMAIL", "PHONE", "RRN", "CARD", "BANK_ACCOUNT", "API_SECRET"} \cup BlockedContexts
      \cup {"PERSONAL_DATA_CONTEXT", "FINANCIAL_IDENTIFIER_CONTEXT", "INTERNAL_OPERATION_CONTEXT"}
  BY DEF BuiltInRules, DetectorRules, ContextRiskRules

LEMMA BuiltInRuleTyped ==
  ASSUME NEW kind \in AllKinds, NEW key \in Words, NEW pattern \in Blank, NEW severity \in Severities,
         NEW action \in Actions
  PROVE  /\ BuiltInRule(kind, key, pattern, severity, action) \in Rule
         /\ BuiltInRule(kind, key, pattern, severity, action).origin = "built_in"
         /\ ~BuiltInRule(kind, key, pattern, severity, action).archived
  BY DEF BuiltInRule, Rule, AllKinds, Blank

LEMMA BuiltInRulesTyped ==
  ASSUME NEW id \in DOMAIN BuiltInRules
  PROVE  BuiltInRules[id] \in Rule /\ BuiltInRules[id].origin = "built_in" /\ ~BuiltInRules[id].archived
<1>1. DOMAIN BuiltInRules \subseteq Words
  BY FilterPageAssumption
<1>2. BuiltInRules[id] = IF id \in DOMAIN DetectorRules THEN DetectorRules[id] ELSE ContextRiskRules[id]
  BY DEF BuiltInRules
<1>3. DOMAIN DetectorRules = {"EMAIL", "PHONE", "RRN", "CARD", "BANK_ACCOUNT", "API_SECRET"}
  BY DEF DetectorRules
<1>4. \E kind \in AllKinds, pattern \in Blank, severity \in Severities, action \in Actions :
        BuiltInRules[id] = BuiltInRule(kind, id, pattern, severity, action)
  <2>1. CASE id \in DOMAIN DetectorRules
    <3>1. CASE id = "API_SECRET"
      <4>1. BuiltInRules[id] = BuiltInRule("regex", id, id, "critical", "BLOCK")
        BY <1>2, <2>1, <3>1 DEF DetectorRules
      <4> QED
        BY <1>1, <4>1 DEF AllKinds, CustomKinds, Blank, Severities, Actions
    <3>2. CASE id \in {"EMAIL", "PHONE"}
      <4>1. BuiltInRules[id] = BuiltInRule("detector", id, None, "medium", "MASK")
        BY <1>2, <2>1, <3>2 DEF DetectorRules
      <4> QED
        BY <4>1 DEF AllKinds, CustomKinds, Blank, Severities, Actions
    <3>3. CASE id \in {"RRN", "CARD", "BANK_ACCOUNT"}
      <4>1. BuiltInRules[id] = BuiltInRule("detector", id, None, "high", "MASK")
        BY <1>2, <2>1, <3>3 DEF DetectorRules
      <4> QED
        BY <4>1 DEF AllKinds, CustomKinds, Blank, Severities, Actions
    <3> QED
      BY <1>3, <2>1, <3>1, <3>2, <3>3
  <2>2. CASE id \notin DOMAIN DetectorRules
    <3>1. id \in DOMAIN ContextRiskRules
      BY <2>2 DEF BuiltInRules
    <3>2. BuiltInRules[id] = BuiltInRule("detector", id, None, IF id \in BlockedContexts THEN "critical" ELSE "high",
                                         IF id \in BlockedContexts THEN "BLOCK" ELSE "WARN")
      BY <1>2, <2>2, <3>1 DEF ContextRiskRules
    <3> QED
      BY <3>2 DEF AllKinds, CustomKinds, Blank, Severities, Actions
  <2> QED
    BY <2>1, <2>2
<1> QED
  BY <1>1, <1>4, BuiltInRuleTyped

LEMMA SeededIsBuiltIn ==
  DOMAIN Seeded \subseteq DOMAIN BuiltInRules /\ \A id \in DOMAIN Seeded : Seeded[id] = BuiltInRules[id]
<1>1. DOMAIN Seeded = {"EMAIL", "PHONE", "RRN", "CARD"} /\ \A id \in DOMAIN Seeded : Seeded[id] = DetectorRules[id]
  BY DEF Seeded
<1>2. DOMAIN Seeded \subseteq DOMAIN DetectorRules
  BY <1>1 DEF DetectorRules
<1> QED
  BY <1>1, <1>2 DEF BuiltInRules

LEMMA TouchedOrNew == Touched \cap NewIds = {} /\ Ids = Touched \cup NewIds /\ Touched \subseteq DOMAIN BuiltInRules
  BY FilterPageAssumption DEF Ids

LEMMA BlankFormTyped == BlankForm \in Form /\ \A rs : FormFits(rs, BlankForm)
<1>1. BlankForm.groups \in Groupings /\ "CUSTOM_KEYWORD" \in Words
  BY FilterPageAssumption
<1>2. <<>> \in Lists
  BY DEF Lists
<1>3. None \in Blank /\ "CUSTOM_KEYWORD" \in Blank /\ 80 \in Limits /\ 1 \in Limits
  BY <1>1 DEF Blank, Limits
<1>4. BlankForm \in Form
  BY <1>1, <1>2, <1>3 DEF BlankForm, Form, CustomKinds, Severities, Actions
<1> QED
  BY <1>4 DEF FormFits, BlankForm, CustomKinds

LEMMA FieldsOfConfig ==
  ASSUME NEW config \in Configs
  PROVE  /\ Field(config, "keywords", <<>>) \in Lists /\ Field(config, "exclusions", <<>>) \in Lists
         /\ Field(config, "pattern", None) \in Blank /\ Field(config, "groups", <<>>) \in Groupings
         /\ Field(config, "window", 80) \in Limits /\ Field(config, "min", 1) \in Limits
<1>0. <<>> \in Groupings
  BY FilterPageAssumption
<1>1. <<>> \in Lists /\ <<>> \in Groupings /\ None \in Blank /\ 80 \in Limits /\ 1 \in Limits
  BY <1>0 DEF Lists, Blank, Limits
<1>2. CASE config \in KeywordConfig
  BY <1>1, <1>2 DEF KeywordConfig, Field
<1>3. CASE config \in PatternConfig
  BY <1>1, <1>3 DEF PatternConfig, Field
<1>4. CASE config \in ContextConfig
  BY <1>1, <1>4 DEF ContextConfig, Field
<1>5. CASE config = None
  BY <1>1, <1>5 DEF Field
<1> QED
  BY <1>2, <1>3, <1>4, <1>5 DEF Configs

LEMMA FormFromRuleTyped ==
  ASSUME NEW id \in Ids, NEW rule \in Rule
  PROVE  FormFromRule(id, rule) \in Form
<1>1. rule.config \in Configs
  BY DEF Rule, Configs
<1> QED
  BY <1>1, FieldsOfConfig DEF FormFromRule, Form, Rule

FormColumn ==
  [kind |-> AllKinds, label |-> Blank, placeholder |-> Blank, severity |-> Severities, action |-> Actions,
   enabled |-> BOOLEAN, keywords |-> Lists, exclusions |-> Lists, pattern |-> Blank, groups |-> Groupings,
   window |-> Limits, min |-> Limits, mode |-> {"create", "edit"}, id |-> Ids \cup {None},
   origin |-> {"built_in", "custom"}]

FormFields ==
  {"mode", "id", "origin", "kind", "label", "placeholder", "severity", "action", "enabled", "keywords", "exclusions",
   "pattern", "groups", "window", "min"}

LEMMA FormColumns ==
  ASSUME NEW f \in Form
  PROVE  f = [x \in FormFields |-> f[x]] /\ \A x \in FormFields : f[x] \in FormColumn[x]
  BY DEF Form, FormFields, FormColumn, AllKinds

LEMMA FormFromColumns ==
  ASSUME NEW f, f = [x \in FormFields |-> f[x]], \A x \in FormFields : f[x] \in FormColumn[x]
  PROVE  f \in Form
<1> DEFINE q == [mode |-> f.mode, id |-> f.id, origin |-> f.origin, kind |-> f.kind, label |-> f.label,
                 placeholder |-> f.placeholder, severity |-> f.severity, action |-> f.action, enabled |-> f.enabled,
                 keywords |-> f.keywords, exclusions |-> f.exclusions, pattern |-> f.pattern, groups |-> f.groups,
                 window |-> f.window, min |-> f.min]
<1>1. f = q
  BY DEF FormFields
<1>2. q \in Form
  BY DEF Form, FormFields, FormColumn, AllKinds
<1> QED
  BY <1>1, <1>2

LEMMA DraftFields ==
  ASSUME NEW draft \in Drafts
  PROVE  /\ draft.kind \in CustomKinds
         /\ \A x \in DOMAIN draft : x \in FormFields \ {"mode", "id", "origin"} /\ draft[x] \in FormColumn[x]
<1>1. "kind" \in DOMAIN draft /\ \A x \in DOMAIN draft : x \in DOMAIN FieldType /\ draft[x] \in FieldType[x]
  BY FilterPageAssumption
<1>2. \A x \in DOMAIN FieldType : x \in FormFields \ {"mode", "id", "origin"} /\ FieldType[x] \subseteq FormColumn[x]
  BY DEF FieldType, FormFields, FormColumn, AllKinds
<1>3. FieldType.kind = CustomKinds
  BY DEF FieldType
<1> QED
  BY <1>1, <1>2, <1>3

(* Typing into the form leaves alone which rule it is of, and its kind       *)
(* once the rule is stored.                                                  *)
LEMMA TypedForm ==
  ASSUME NEW f \in Form, NEW draft \in Drafts
  PROVE  LET g == Typed(f, draft) IN
         /\ g \in Form /\ g.mode = f.mode /\ g.id = f.id /\ g.origin = f.origin
         /\ f.mode = "edit" => g.kind = f.kind
         /\ f.mode # "edit" => g.kind \in CustomKinds
<1> DEFINE k == IF f.mode = "edit" THEN f ELSE [f EXCEPT !.kind = draft.kind]
           g == [x \in DOMAIN k |-> IF x \in Editable(k) /\ x \in DOMAIN draft THEN draft[x] ELSE k[x]]
           placeholder == IF g.action # "MASK" THEN None
                          ELSE IF g.origin = "custom" THEN Field(draft, "placeholder", g.placeholder) ELSE g.placeholder
           h == [g EXCEPT !.placeholder = placeholder]
<1>1. f = [x \in FormFields |-> f[x]] /\ \A x \in FormFields : f[x] \in FormColumn[x]
  BY FormColumns
<1>2. draft.kind \in CustomKinds
      /\ \A x \in DOMAIN draft : x \in FormFields \ {"mode", "id", "origin"} /\ draft[x] \in FormColumn[x]
  BY DraftFields
<1>3. /\ DOMAIN k = FormFields /\ \A x \in FormFields : k[x] \in FormColumn[x]
      /\ k.mode = f.mode /\ k.id = f.id /\ k.origin = f.origin
      /\ f.mode = "edit" => k.kind = f.kind
      /\ f.mode # "edit" => k.kind \in CustomKinds
  BY <1>1, <1>2 DEF FormFields, FormColumn, AllKinds
<1>4. "kind" \notin Editable(k)
  BY DEF Editable
<1> HIDE DEF k
<1>5. /\ DOMAIN g = FormFields /\ \A x \in FormFields : g[x] \in FormColumn[x]
      /\ g.mode = k.mode /\ g.id = k.id /\ g.origin = k.origin /\ g.kind = k.kind
  BY <1>2, <1>3, <1>4 DEF FormFields
<1> HIDE DEF g
<1>6. placeholder \in FormColumn["placeholder"]
  <2>1. g.placeholder \in FormColumn["placeholder"] /\ None \in FormColumn["placeholder"]
    BY <1>5 DEF FormFields, FormColumn, Blank
  <2>2. Field(draft, "placeholder", g.placeholder) \in FormColumn["placeholder"]
    BY <1>2, <2>1 DEF Field
  <2> QED
    BY <2>1, <2>2
<1> HIDE DEF placeholder
<1>7. h = [x \in FormFields |-> h[x]] /\ \A x \in FormFields : h[x] \in FormColumn[x]
  BY <1>5, <1>6
<1>8. h \in Form
  BY <1>7, FormFromColumns
<1>9. h.mode = g.mode /\ h.id = g.id /\ h.origin = g.origin /\ h.kind = g.kind
  BY <1>5 DEF FormFields
<1>10. Typed(f, draft) = h
  BY DEF Typed, h, g, k, placeholder
<1> QED
  BY <1>3, <1>5, <1>8, <1>9, <1>10

LEMMA ContextGroupsKept ==
  ASSUME NEW groups
  PROVE  ContextGroups(ContextGroups(groups)) = ContextGroups(groups)
  BY DEF ContextGroups

LEMMA ConfigTyped ==
  ASSUME NEW f \in Form, FormOK(f)
  PROVE  /\ f.kind = "keyword" => ConfigFromForm(f) \in KeywordConfig /\ ConfigFromForm(f).keywords = f.keywords
         /\ f.kind = "regex" => ConfigFromForm(f) \in PatternConfig /\ ConfigFromForm(f).pattern = f.pattern
         /\ f.kind = "context_rule" =>
              /\ ConfigFromForm(f) \in ContextConfig /\ ConfigFromForm(f).groups = ContextGroups(f.groups)
              /\ ConfigFromForm(f).window = f.window /\ ConfigFromForm(f).min = f.min
<1>1. \A groups \in Groupings : ContextGroups(groups) \in Groupings
  BY FilterPageAssumption
<1>2. /\ f.keywords \in Lists /\ f.exclusions \in Lists /\ f.pattern \in Blank /\ f.groups \in Groupings
      /\ f.window \in Limits /\ f.min \in Limits
  BY DEF Form
<1>3. CASE f.kind = "keyword"
  BY <1>2, <1>3 DEF ConfigFromForm, KeywordConfig
<1>4. CASE f.kind = "regex"
  BY <1>2, <1>4 DEF ConfigFromForm, PatternConfig
<1>5. CASE f.kind = "context_rule"
  BY <1>1, <1>2, <1>5 DEF ConfigFromForm, ContextConfig
<1> QED
  BY <1>3, <1>4, <1>5

(* A form that passes the checks of the page gives a request that is whole.  *)
LEMMA BodyOfForm ==
  ASSUME NEW f \in Form, NEW rs, FormFits(rs, f), FormOK(f)
  PROVE  /\ f.mode = "edit" /\ f.origin = "built_in" => Body(f) \in Override
         /\ ~(f.mode = "edit" /\ f.origin = "built_in") /\ f.kind \in CustomKinds => PlanOK(f.kind, Body(f))
<1>1. /\ f.severity \in Severities /\ f.action \in Actions /\ f.enabled \in BOOLEAN /\ f.label \in Blank
      /\ f.keywords \in Lists /\ f.pattern \in Blank /\ f.placeholder \in Blank
  BY DEF Form
<1>2. f.label # None
  BY DEF FormOK
<1> DEFINE placeholder == IF f.action = "MASK" THEN f.placeholder ELSE None
           keyword == IF f.keywords = <<>> THEN None ELSE Head(f.keywords)
<1>3. placeholder \in Blank
  BY <1>1 DEF Blank
<1>4. keyword \in Blank /\ (f.keywords # <<>> => keyword # None)
  <2>1. f.keywords # <<>> => Head(f.keywords) \in Words
    BY <1>1 DEF Lists
  <2>2. None \notin Words
    BY FilterPageAssumption
  <2> QED
    BY <2>1, <2>2 DEF Blank
<1> DEFINE config == ConfigFromForm(f)
<1> HIDE DEF placeholder, keyword, config
<1> DEFINE all == [severity |-> f.severity, action |-> f.action, enabled |-> f.enabled, label |-> f.label,
                   config |-> config, placeholder |-> placeholder, keyword |-> keyword, pattern |-> f.pattern]
<1>5. Body(f) = [field \in BodyFields(f) |-> all[field]]
  BY DEF Body, config, placeholder, keyword
<1>6. CASE f.mode = "edit" /\ f.origin = "built_in"
  <2>1. BodyFields(f) = {"severity", "action", "enabled"}
    BY <1>6 DEF BodyFields
  <2>2. Body(f) = [severity |-> f.severity, action |-> f.action, enabled |-> f.enabled]
    BY <1>5, <2>1
  <2> QED
    BY <1>1, <1>6, <2>2 DEF Override
<1>7. CASE ~(f.mode = "edit" /\ f.origin = "built_in") /\ f.kind = "keyword"
  <2>1. BodyFields(f) = {"severity", "action", "enabled", "label", "config", "placeholder", "keyword"}
    BY <1>7 DEF BodyFields
  <2>2. Body(f) = [severity |-> f.severity, action |-> f.action, enabled |-> f.enabled, label |-> f.label,
                   config |-> config, placeholder |-> placeholder, keyword |-> keyword]
    BY <1>5, <2>1
  <2>3. config \in KeywordConfig /\ config.keywords = f.keywords
    BY <1>7, ConfigTyped DEF config
  <2>4. f.keywords # <<>>
    BY <1>7 DEF FormOK
  <2>5. Body(f) \in KeywordBody
    BY <1>1, <1>3, <1>4, <2>2, <2>3 DEF KeywordBody
  <2> QED
    BY <1>2, <1>4, <1>7, <2>2, <2>3, <2>4, <2>5 DEF PlanOK
<1>8. CASE ~(f.mode = "edit" /\ f.origin = "built_in") /\ f.kind = "regex"
  <2>1. BodyFields(f) = {"severity", "action", "enabled", "label", "config", "placeholder", "pattern"}
    BY <1>8 DEF BodyFields
  <2>2. Body(f) = [severity |-> f.severity, action |-> f.action, enabled |-> f.enabled, label |-> f.label,
                   config |-> config, placeholder |-> placeholder, pattern |-> f.pattern]
    BY <1>5, <2>1
  <2>3. config \in PatternConfig /\ config.pattern = f.pattern
    BY <1>8, ConfigTyped DEF config
  <2>4. f.pattern # None
    BY <1>8 DEF FormOK
  <2>5. Body(f) \in PatternBody
    BY <1>1, <1>3, <2>2, <2>3 DEF PatternBody
  <2> QED
    BY <1>2, <1>8, <2>2, <2>3, <2>4, <2>5 DEF PlanOK
<1>9. CASE ~(f.mode = "edit" /\ f.origin = "built_in") /\ f.kind = "context_rule"
  <2>1. BodyFields(f) = {"severity", "action", "enabled", "label", "config", "placeholder"}
    BY <1>9 DEF BodyFields
  <2>2. Body(f) = [severity |-> f.severity, action |-> f.action, enabled |-> f.enabled, label |-> f.label,
                   config |-> config, placeholder |-> placeholder]
    BY <1>5, <2>1
  <2>3. config \in ContextConfig /\ config.groups = ContextGroups(f.groups) /\ config.window = f.window
        /\ config.min = f.min
    BY <1>9, ConfigTyped DEF config
  <2>4. ContextGroups(f.groups) # <<>> /\ PositiveInteger(f.window) /\ PositiveInteger(f.min)
    BY <1>9 DEF FormOK
  <2>5. Body(f) \in ContextBody
    BY <1>1, <1>3, <2>2, <2>3 DEF ContextBody
  <2> QED
    BY <1>2, <1>9, <2>2, <2>3, <2>4, <2>5, ContextGroupsKept DEF PlanOK
<1> QED
  BY <1>6, <1>7, <1>8, <1>9 DEF CustomKinds

(* What a request writes of a rule: columns of their types, and only such as *)
(* a patch may write.                                                        *)
IsPatch(patch) == \A c \in DOMAIN patch : c \in PatchColumns /\ patch[c] \in Column[c]

LEMMA PatchTyped ==
  ASSUME NEW patch \in Toggle \cup Override \cup KeywordBody \cup PatternBody \cup ContextBody
  PROVE  IsPatch(patch)
<1>1. CASE patch \in Toggle \cup Override
  BY <1>1 DEF Toggle, Override, IsPatch, PatchColumns, Column
<1>2. CASE patch \in KeywordBody
  BY <1>2 DEF KeywordBody, IsPatch, PatchColumns, Column, Configs
<1>3. CASE patch \in PatternBody
  BY <1>3 DEF PatternBody, IsPatch, PatchColumns, Column, Configs
<1>4. CASE patch \in ContextBody
  BY <1>4 DEF ContextBody, IsPatch, PatchColumns, Column, Configs
<1> QED
  BY <1>1, <1>2, <1>3, <1>4

ArchivePatch == [archived |-> TRUE, enabled |-> FALSE]

LEMMA ArchivePatchTyped == IsPatch(ArchivePatch)
<1>1. DOMAIN ArchivePatch = {"archived", "enabled"} /\ ArchivePatch.archived \in BOOLEAN /\ ArchivePatch.enabled \in BOOLEAN
  BY DEF ArchivePatch
<1>2. Column.archived = BOOLEAN /\ Column.enabled = BOOLEAN
  BY DEF Column
<1> QED
  BY <1>1, <1>2 DEF IsPatch, PatchColumns

(* A whole request that the server accepts writes usable columns.            *)
LEMMA PlanUsable ==
  ASSUME NEW kind \in CustomKinds, NEW body, PlanOK(kind, body), kind = "regex" => body.pattern \in Compiling
  PROVE  \A c \in DOMAIN body : UsableColumn(kind, c, body[c])
<1>0. None \notin KeywordConfig \cup PatternConfig \cup ContextConfig
  BY FilterPageAssumption
<1>1. CASE kind = "keyword"
  <2>1. body \in KeywordBody /\ body.label # None /\ body.keyword # None /\ body.config.keywords # <<>>
    BY <1>1 DEF PlanOK
  <2>2. DOMAIN body = {"severity", "action", "enabled", "label", "config", "placeholder", "keyword"}
        /\ body.config \in KeywordConfig
    BY <2>1 DEF KeywordBody
  <2>3. Field(body.config, "keywords", <<>>) = body.config.keywords
    BY <1>0, <2>2 DEF Field, KeywordConfig
  <2> QED
    BY <1>1, <2>1, <2>2, <2>3 DEF UsableColumn
<1>2. CASE kind = "regex"
  <2>1. body \in PatternBody /\ body.label # None /\ body.config.pattern = body.pattern
    BY <1>2 DEF PlanOK
  <2>2. DOMAIN body = {"severity", "action", "enabled", "label", "config", "placeholder", "pattern"}
        /\ body.config \in PatternConfig
    BY <2>1 DEF PatternBody
  <2>3. Field(body.config, "pattern", None) = body.config.pattern
    BY <1>0, <2>2 DEF Field, PatternConfig
  <2> QED
    BY <1>2, <2>1, <2>2, <2>3 DEF UsableColumn
<1>3. CASE kind = "context_rule"
  <2>1. body \in ContextBody /\ body.label # None /\ ContextGroups(body.config.groups) # <<>>
        /\ PositiveInteger(body.config.window) /\ PositiveInteger(body.config.min)
    BY <1>3 DEF PlanOK
  <2>2. DOMAIN body = {"severity", "action", "enabled", "label", "config", "placeholder"}
        /\ body.config \in ContextConfig
    BY <2>1 DEF ContextBody
  <2>3. Field(body.config, "groups", <<>>) = body.config.groups /\ Field(body.config, "window", 80) = body.config.window
        /\ Field(body.config, "min", 1) = body.config.min
    BY <1>0, <2>2 DEF Field, ContextConfig
  <2> QED
    BY <1>3, <2>1, <2>2, <2>3 DEF UsableColumn
<1> QED
  BY <1>1, <1>2, <1>3 DEF CustomKinds

(* POST: the rule that a whole request makes.                                *)
LEMMA CreatedRule ==
  ASSUME NEW kind \in CustomKinds, NEW body, PlanOK(kind, body), CreateOK(kind, body)
  PROVE  LET rule == RuleFromCreate(kind, body) IN
         /\ rule \in Rule /\ rule.origin = "custom" /\ rule.kind = kind /\ ~rule.archived
         /\ \A c \in PatchColumns : UsableColumn(kind, c, rule[c])
<1> DEFINE rule == RuleFromCreate(kind, body)
<1>1. body \in KeywordBody \cup PatternBody \cup ContextBody
  BY DEF PlanOK, CustomKinds
<1>2. IsPatch(body)
  BY <1>1, PatchTyped
<1>3. {"severity", "action", "enabled", "label", "config", "placeholder"} \subseteq DOMAIN body
  BY <1>1 DEF KeywordBody, PatternBody, ContextBody
<1>4. /\ body.severity \in Severities /\ body.action \in Actions /\ body.enabled \in BOOLEAN /\ body.label \in Blank
      /\ body.config \in Configs /\ body.placeholder \in Blank
  BY <1>2, <1>3 DEF IsPatch, Column
<1>5. Field(body, "keyword", None) \in Blank /\ Field(body, "pattern", None) \in Blank
  BY <1>2 DEF IsPatch, Field, Column, Blank
<1>6. rule \in Rule /\ rule.origin = "custom" /\ rule.kind = kind /\ ~rule.archived
  BY <1>4, <1>5 DEF RuleFromCreate, Rule, Configs
<1>7. kind = "regex" => body.pattern \in Compiling
  BY DEF CreateOK
<1>8. \A c \in DOMAIN body : UsableColumn(kind, c, body[c])
  BY <1>7, PlanUsable
<1>9. UsableColumn(kind, "label", rule.label) /\ UsableColumn(kind, "config", rule.config)
  BY <1>3, <1>8 DEF RuleFromCreate
<1>10. kind = "keyword" => rule.keyword # None
  <2>1. kind = "keyword" => body \in KeywordBody /\ body.keyword # None
    BY DEF PlanOK
  <2>2. None \notin KeywordBody
    BY FilterPageAssumption
  <2>3. kind = "keyword" => rule.keyword = body.keyword
    BY <2>1, <2>2 DEF KeywordBody, RuleFromCreate, Field
  <2> QED
    BY <2>1, <2>3
<1>11. kind = "regex" => rule.pattern = body.pattern
  <2>1. kind = "regex" => body \in PatternBody
    BY DEF PlanOK
  <2>2. None \notin PatternBody
    BY FilterPageAssumption
  <2> QED
    BY <2>1, <2>2 DEF PatternBody, RuleFromCreate, Field
<1>12. UsableColumn(kind, "keyword", rule.keyword) /\ UsableColumn(kind, "pattern", rule.pattern)
  BY <1>7, <1>10, <1>11 DEF UsableColumn
<1>13. \A c \in PatchColumns \ {"label", "config", "keyword", "pattern"} : UsableColumn(kind, c, rule[c])
  BY DEF UsableColumn
<1> QED
  BY <1>6, <1>9, <1>12, <1>13

(* The columns decide whether a rule is usable.                              *)
LEMMA UsableByColumns ==
  ASSUME NEW id \in Ids, NEW rule \in Rule, rule.origin = "custom", rule.kind \in CustomKinds
  PROVE  Usable(id, rule) <=> \A c \in PatchColumns : UsableColumn(rule.kind, c, rule[c])
<1> DEFINE f == FormFromRule(id, rule)
<1>1. /\ f.mode = "edit" /\ f.origin = "custom" /\ f.kind = rule.kind /\ f.label = rule.label /\ f \in Form
      /\ f.keywords = Field(rule.config, "keywords", <<>>) /\ f.pattern = Field(rule.config, "pattern", None)
      /\ f.groups = Field(rule.config, "groups", <<>>) /\ f.window = Field(rule.config, "window", 80)
      /\ f.min = Field(rule.config, "min", 1)
  BY FormFromRuleTyped DEF FormFromRule
<1> HIDE DEF f
<1>2. None \notin Compiling
  BY FilterPageAssumption
<1> DEFINE b == Body(f)
<1>3. /\ b = [x \in BodyFields(f) |-> b[x]] /\ DOMAIN b = BodyFields(f)
      /\ b.config = ConfigFromForm(f) /\ (f.kind = "regex" => b.pattern = f.pattern)
  BY <1>1 DEF Body, BodyFields
<1>4. BodyFields(f) \subseteq EditableFields(rule)
  BY <1>1 DEF BodyFields, EditableFields, CustomKinds
<1> DEFINE next == Overwritten(rule, b)
<1>5. next.config = b.config /\ (f.kind = "regex" => next.pattern = b.pattern)
  <2>1. "config" \in DOMAIN rule /\ "pattern" \in DOMAIN rule
    BY RuleColumns DEF RuleFields, PatchColumns
  <2>2. "config" \in DOMAIN b /\ (f.kind = "regex" => "pattern" \in DOMAIN b)
    BY <1>1, <1>3 DEF BodyFields
  <2> QED
    BY <2>1, <2>2 DEF Overwritten
<1>6. UpdateOK(rule, b) <=>
        /\ rule.kind = "context_rule" => ContextConfigOK(ConfigFromForm(f))
        /\ rule.kind = "regex" => (IF f.pattern # None THEN f.pattern ELSE Field(ConfigFromForm(f), "pattern", None)) \in Compiling
  BY <1>1, <1>3, <1>4, <1>5 DEF UpdateOK
<1>7. Usable(id, rule) <=>
        /\ FormOK(f) /\ UpdateOK(rule, b)
        /\ rule.kind = "keyword" => rule.keyword # None
        /\ rule.kind = "regex" => rule.pattern \in Compiling
  BY DEF Usable, KeywordHits, f
<1> HIDE DEF b, next
<1>8. FormOK(f) /\ rule.kind = "context_rule" => ContextConfigOK(ConfigFromForm(f))
  <2> SUFFICES ASSUME FormOK(f), rule.kind = "context_rule" PROVE ContextConfigOK(ConfigFromForm(f))
    OBVIOUS
  <2>1. ConfigFromForm(f) \in ContextConfig /\ ConfigFromForm(f).groups = ContextGroups(f.groups)
        /\ ConfigFromForm(f).window = f.window /\ ConfigFromForm(f).min = f.min
    BY <1>1, ConfigTyped
  <2>2. ContextGroups(f.groups) # <<>> /\ PositiveInteger(f.window) /\ PositiveInteger(f.min)
    BY <1>1 DEF FormOK
  <2>3. None \notin ContextConfig
    BY FilterPageAssumption
  <2>4. {"groups", "window", "min"} \subseteq DOMAIN ConfigFromForm(f)
    BY <2>1 DEF ContextConfig
  <2> QED
    BY <2>1, <2>2, <2>3, <2>4 DEF ContextConfigOK, Field
<1>9. FormOK(f) <=>
        /\ rule.label # None
        /\ rule.kind = "keyword" => f.keywords # <<>>
        /\ rule.kind = "regex" => f.pattern # None
        /\ rule.kind = "context_rule" =>
             ContextGroups(f.groups) # <<>> /\ PositiveInteger(f.window) /\ PositiveInteger(f.min)
  BY <1>1 DEF FormOK
<1> DEFINE Columns4 ==
        /\ rule.label # None
        /\ rule.kind = "keyword" => rule.keyword # None /\ f.keywords # <<>>
        /\ rule.kind = "regex" => rule.pattern \in Compiling /\ f.pattern \in Compiling
        /\ rule.kind = "context_rule" =>
             ContextGroups(f.groups) # <<>> /\ PositiveInteger(f.window) /\ PositiveInteger(f.min)
<1>10. (\A c \in PatchColumns : UsableColumn(rule.kind, c, rule[c])) <=> Columns4
  <2>1. ASSUME NEW c \in PatchColumns \ {"label", "keyword", "pattern", "config"} PROVE UsableColumn(rule.kind, c, rule[c])
    BY <2>1 DEF UsableColumn
  <2>2. UsableColumn(rule.kind, "label", rule.label) <=> rule.label # None
    BY DEF UsableColumn
  <2>3. UsableColumn(rule.kind, "keyword", rule.keyword) <=> (rule.kind = "keyword" => rule.keyword # None)
    BY DEF UsableColumn
  <2>4. UsableColumn(rule.kind, "pattern", rule.pattern) <=> (rule.kind = "regex" => rule.pattern \in Compiling)
    BY DEF UsableColumn
  <2>5. UsableColumn(rule.kind, "config", rule.config) <=>
          /\ rule.kind = "keyword" => f.keywords # <<>>
          /\ rule.kind = "regex" => f.pattern \in Compiling
          /\ rule.kind = "context_rule" =>
               ContextGroups(f.groups) # <<>> /\ PositiveInteger(f.window) /\ PositiveInteger(f.min)
    BY <1>1 DEF UsableColumn
  <2>6. {"label", "keyword", "pattern", "config"} \subseteq PatchColumns
    BY DEF PatchColumns
  <2> QED
    BY <2>1, <2>2, <2>3, <2>4, <2>5, <2>6
<1> HIDE DEF Columns4
<1>11. Usable(id, rule) <=>
         /\ FormOK(f)
         /\ rule.kind = "regex" => f.pattern \in Compiling
         /\ rule.kind = "keyword" => rule.keyword # None
         /\ rule.kind = "regex" => rule.pattern \in Compiling
  BY <1>6, <1>7, <1>8, <1>9 DEF b
<1> QED
  BY <1>2, <1>9, <1>10, <1>11 DEF Columns4

(***************************************************************************)
(* One step                                                                *)
(***************************************************************************)

(* A row that is there stays, and keeps its kind.                            *)
Keeps(before, after) == \A id \in Ids : before[id] # None => after[id] # None /\ after[id].kind = before[id].kind

LEMMA KeepsItself == \A rs : Keeps(rs, rs)
  BY DEF Keeps

LEMMA StaysFit ==
  ASSUME NEW before, NEW after, Keeps(before, after)
  PROVE  /\ \A id \in Ids : \A kind : KindIs(before, id, kind) => KindIs(after, id, kind)
         /\ \A rules : TableFits(before, rules) => TableFits(after, rules)
         /\ \A f : FormFits(before, f) => FormFits(after, f)
         /\ \A r : RequestFits(before, r) => RequestFits(after, r)
<1>1. \A id \in Ids : \A kind : KindIs(before, id, kind) => KindIs(after, id, kind)
  BY DEF Keeps, KindIs
<1>2. ASSUME NEW rules, TableFits(before, rules) PROVE TableFits(after, rules)
  BY <1>1, <1>2 DEF TableFits
<1>3. ASSUME NEW f, FormFits(before, f) PROVE FormFits(after, f)
  BY <1>1, <1>3 DEF FormFits
<1>4. ASSUME NEW r, RequestFits(before, r) PROVE RequestFits(after, r)
  <2>1. NewIds \subseteq Ids
    BY DEF Ids
  <2> QED
    BY <1>1, <1>4, <2>1 DEF RequestFits, Keeps
<1> QED
  BY <1>1, <1>2, <1>3, <1>4

LEMMA OperationStaysFit ==
  ASSUME NEW before, NEW after, Keeps(before, after), NEW op \in Operation, OperationFits(before, op)
  PROVE  OperationFits(after, op)
<1>1. RequestFits(before, op.request) /\ RequestFits(after, op.request)
  BY StaysFit DEF OperationFits
<1>2. ASSUME op.pc = "held" PROVE HeldFits(after, op)
  <2> DEFINE r == op.request
  <2>1. HeldFits(before, op)
    BY <1>2 DEF OperationFits
  <2>2. r.id \in Ids
    BY <1>1, <2>1, TouchedOrNew DEF HeldFits, RequestFits
  <2>3. ~op.seen.new => before[r.id] # None /\ after[r.id] # None
    BY <2>1, <2>2 DEF HeldFits, Keeps
  <2>4. r.id \in NewIds => after[r.id].kind = before[r.id].kind
    BY <2>1, <2>2, TouchedOrNew DEF HeldFits, Keeps
  <2> QED
    BY <2>1, <2>3, <2>4 DEF HeldFits
<1>3. ASSUME op.pc = "answered"
      PROVE  /\ op.answer # "none"
             /\ op.request.do = "load" /\ op.answer = "ok" => op.value \in Table /\ TableFits(after, op.value)
             /\ op.request.do = "dry_run" /\ op.answer = "ok" => op.value \in Trial
  BY <1>3, StaysFit DEF OperationFits
<1> QED
  BY <1>1, <1>2, <1>3 DEF OperationFits

Operations == [Pages -> [Slots -> Operation \cup {None}]]

(* What the pages hold stays fit when they take over only what fits.         *)
LEMMA PagesStayFit ==
  ASSUME ops' \in Operations, PageFits(rows), Keeps(rows, rows'),
         \A p \in Pages : TableFits(rows, table'[p]) /\ FormFits(rows, form'[p]),
         \A p \in Pages, s \in Slots : ops'[p][s] # None => ops'[p][s] = ops[p][s] \/ OperationFits(rows', ops'[p][s])
  PROVE  PageFits(rows)'
<1>1. ASSUME NEW p \in Pages PROVE TableFits(rows', table'[p]) /\ FormFits(rows', form'[p])
  BY StaysFit
<1>2. ASSUME NEW p \in Pages, NEW s \in Slots, ops'[p][s] # None PROVE OperationFits(rows', ops'[p][s])
  <2>1. ops'[p][s] \in Operation
    BY <1>2 DEF Operations
  <2>2. CASE ops'[p][s] = ops[p][s]
    <3>1. OperationFits(rows, ops[p][s])
      BY <1>2, <2>2 DEF PageFits
    <3> QED
      BY <2>1, <2>2, <3>1, OperationStaysFit
  <2> QED
    BY <1>2, <2>2
<1> QED
  BY <1>1, <1>2 DEF PageFits

(* The requests of the page are typed, and so is the work on one of them.    *)
LEMMA CallTyped ==
  /\ \A do \in {"load", "create", "update", "archive", "dry_run"} : Call(do) \in Request /\ Call(do).do = do
  /\ \A do \in {"update", "archive"} : \A id \in Ids : [Call(do) EXCEPT !.id = id] \in Request
  /\ \A id \in Ids, on \in BOOLEAN :
       [Call("update") EXCEPT !.id = id, !.kind = "toggle", !.body = [enabled |-> on]] \in Request
<1>1. \A on \in BOOLEAN : [enabled |-> on] \in Toggle
  BY DEF Toggle
<1> QED
  BY <1>1 DEF Call, Request

LEMMA WaitingTyped ==
  ASSUME NEW request \in Request, NEW pc \in {"token", "sent"}
  PROVE  /\ Waiting(request, pc) \in Operation
         /\ Waiting(request, pc).request = request /\ Waiting(request, pc).pc = pc
         /\ \A rs : RequestFits(rs, request) => OperationFits(rs, Waiting(request, pc))
<1>1. /\ Waiting(request, pc) \in Operation
      /\ Waiting(request, pc).request = request /\ Waiting(request, pc).pc = pc
  BY DEF Waiting, Operation
<1> QED
  BY <1>1 DEF OperationFits

LEMMA LoadRulesTyped ==
  LoadRules \in Operation /\ LoadRules.request.do = "load" /\ LoadRules.pc = "sent" /\ \A rs : OperationFits(rs, LoadRules)
<1>1. Call("load") \in Request /\ Call("load").do = "load"
  BY CallTyped
<1>2. \A rs : RequestFits(rs, Call("load"))
  BY <1>1 DEF RequestFits
<1> QED
  BY <1>1, <1>2, WaitingTyped DEF LoadRules

LEMMA OperationParts ==
  ASSUME NEW op \in Operation
  PROVE  /\ op.request \in Request /\ op.seen \in Held \cup {None} /\ op.value \in Table \cup Trial \cup {None}
         /\ op.pc \in {"token", "sent", "held", "answered"} /\ op.answer \in {"none", "ok", "failed"}
         /\ op # None
<1>1. None \notin Operation
  BY FilterPageAssumption
<1> QED
  BY <1>1 DEF Operation

LEMMA OperationMoves ==
  ASSUME NEW op \in Operation
  PROVE  \A pc \in {"token", "sent", "held", "answered"} :
           LET new == [op EXCEPT !.pc = pc] IN
           new \in Operation /\ new.pc = pc /\ new.request = op.request /\ new.seen = op.seen
  BY DEF Operation

(* One slot of one page gets a new value.                                    *)
SlotGets(p, s, op) ==
  /\ ops' \in Operations /\ ops'[p][s] = op
  /\ \A q \in Pages, t \in Slots : <<q, t>> # <<p, s>> => ops'[q][t] = ops[q][t]

LEMMA SlotIsSet ==
  ASSUME ops \in Operations, NEW p \in Pages, NEW s \in Slots, NEW op \in Operation \cup {None},
         ops' = [ops EXCEPT ![p][s] = op]
  PROVE  SlotGets(p, s, op)
  BY DEF SlotGets, Operations

LEMMA AnsweredSlot ==
  ASSUME ops \in Operations, NEW p \in Pages, NEW s \in Slots, ops[p][s] # None,
         NEW answer \in {"ok", "failed"}, NEW value \in Table \cup Trial \cup {None}, Answered(p, s, answer, value)
  PROVE  /\ SlotGets(p, s, ops'[p][s]) /\ ops'[p][s] \in Operation
         /\ ops'[p][s].pc = "answered" /\ ops'[p][s].request = ops[p][s].request
         /\ ops'[p][s].answer = answer /\ ops'[p][s].value = value
<1> DEFINE new == [ops[p][s] EXCEPT !.pc = "answered", !.answer = answer, !.value = value]
<1>1. ops[p][s] \in Operation
  BY DEF Operations
<1>2. /\ new \in Operation /\ new.pc = "answered" /\ new.request = ops[p][s].request
      /\ new.answer = answer /\ new.value = value
  BY <1>1 DEF Operation
<1>3. ops' = [ops EXCEPT ![p][s] = new]
  BY DEF Answered, Operations
<1>4. SlotGets(p, s, new)
  BY <1>2, <1>3, SlotIsSet
<1>5. ops'[p][s] = new
  BY <1>4 DEF SlotGets
<1> QED
  BY <1>2, <1>4, <1>5

LEMMA TypesOf ==
  ASSUME TypeOK
  PROVE  /\ ops \in Operations
         /\ \A id \in Ids : rows[id] # None => rows[id] \in Rule
         /\ \A p \in Pages, id \in Ids : table[p][id] # None => table[p][id] \in Rule
         /\ \A p \in Pages : form[p] \in Form
         /\ \A p \in Pages, s \in Slots : ops[p][s] # None => ops[p][s] \in Operation
  BY DEF TypeOK, Operations, Table

(* A step that moves one click and leaves rows, tables and forms alone.      *)
LEMMA OneSlotMoves ==
  ASSUME IndInv, NEW p \in Pages, NEW s \in Slots, NEW op, SlotGets(p, s, op),
         op # None => OperationFits(rows, op), UNCHANGED <<rows, table, form>>
  PROVE  RowsFit(rows)' /\ PageFits(rows)' /\ ops' \in Operations
<1>1. \A q \in Pages, t \in Slots : ops'[q][t] # None => ops'[q][t] = ops[q][t] \/ OperationFits(rows', ops'[q][t])
  BY DEF SlotGets
<1>2. \A q \in Pages : TableFits(rows, table'[q]) /\ FormFits(rows, form'[q])
  BY DEF IndInv, PageFits
<1>3. ops' \in Operations /\ Keeps(rows, rows')
  BY KeepsItself DEF SlotGets
<1>4. PageFits(rows)'
  BY <1>1, <1>2, <1>3, PagesStayFit DEF IndInv
<1> QED
  BY <1>3, <1>4 DEF IndInv, RowsFit

(* A new click takes a free slot and waits for its token.                    *)
Starts(p) ==
  \E s \in Slots : ops[p][s] = None /\ SlotGets(p, s, ops'[p][s]) /\ ops'[p][s] \in Operation /\ ops'[p][s].pc = "token"

LEMMA StartStep ==
  ASSUME IndInv, NEW p \in Pages, NEW request \in Request, RequestFits(rows, request), Start(p, request)
  PROVE  IndInv' /\ Starts(p)
<1> DEFINE op == Waiting(request, "token")
<1>1. op \in Operation /\ op.pc = "token" /\ OperationFits(rows, op)
  BY WaitingTyped
<1>2. PICK s \in Slots : ops[p][s] = None /\ ops' = [ops EXCEPT ![p][s] = op]
  BY DEF Start, Free
<1>3. ops \in Operations
  BY TypesOf DEF IndInv
<1> HIDE DEF op
<1>4. SlotGets(p, s, op)
  BY <1>1, <1>2, <1>3, SlotIsSet
<1>5. UNCHANGED <<rows, csrf, pageState, table, form, result>> /\ clicks' = [clicks EXCEPT ![p] = @ + 1]
  BY DEF Start, page
<1>6. RowsFit(rows)' /\ PageFits(rows)' /\ ops' \in Operations
  BY <1>1, <1>4, <1>5, OneSlotMoves
<1>7. clicks' \in [Pages -> Nat]
  BY <1>5 DEF IndInv, TypeOK
<1>8. Starts(p)
  BY <1>1, <1>2, <1>4 DEF Starts, SlotGets
<1> QED
  BY <1>5, <1>6, <1>7, <1>8 DEF IndInv, TypeOK, Operations

LEMMA SavePlanFits ==
  ASSUME NEW rs, RowsFit(rs), NEW f \in Form, FormFits(rs, f), FormOK(f)
  PROVE  SavePlan(f) \in Request /\ RequestFits(rs, SavePlan(f))
<1>1. f.mode \in {"create", "edit"} /\ f.kind \in AllKinds /\ f.id \in Ids \cup {None}
  BY DEF Form, AllKinds
<1>2. /\ f.mode = "edit" /\ f.origin = "built_in" => Body(f) \in Override
      /\ ~(f.mode = "edit" /\ f.origin = "built_in") /\ f.kind \in CustomKinds => PlanOK(f.kind, Body(f))
  BY BodyOfForm
<1>3. f.mode = "edit" => f.id \in Ids /\ f.origin = OriginOf(f.id) /\ KindIs(rs, f.id, f.kind)
  BY DEF FormFits
<1>4. f.mode = "edit" /\ f.id \in NewIds => f.origin = "custom" /\ f.kind \in CustomKinds
  BY <1>3, TouchedOrNew DEF RowsFit, KindIs, OriginOf
<1>5. f.mode = "create" => f.id = None /\ f.origin = "custom" /\ f.kind \in CustomKinds
  BY DEF FormFits
<1>6. f.mode = "edit" /\ f.id \in Touched => Body(f) \in Override
  BY <1>2, <1>3 DEF OriginOf
<1>7. f.mode = "create" \/ f.id \notin Touched => PlanOK(f.kind, Body(f)) /\ f.kind \in CustomKinds
  BY <1>1, <1>2, <1>3, <1>4, <1>5, TouchedOrNew
<1> DEFINE b == Body(f)
<1> HIDE DEF b
<1>8. b \in Override \cup KeywordBody \cup PatternBody \cup ContextBody
  BY <1>1, <1>6, <1>7 DEF PlanOK, CustomKinds, b
<1>9. SavePlan(f) = [do |-> IF f.mode = "edit" THEN "update" ELSE "create", id |-> f.id, kind |-> f.kind, body |-> b, text |-> {}]
  BY DEF SavePlan, b
<1>10. SavePlan(f) \in Request
  BY <1>1, <1>8, <1>9 DEF Request, AllKinds
<1>11. f.kind # "toggle"
  BY <1>1 DEF AllKinds, CustomKinds
<1>12. CASE f.mode = "edit"
  <2>1. SavePlan(f).do = "update" /\ SavePlan(f).id = f.id /\ SavePlan(f).kind = f.kind /\ SavePlan(f).body = b
    BY <1>9, <1>12
  <2>2. f.id \in NewIds => f.id \notin Touched
    BY TouchedOrNew
  <2> QED
    BY <1>3, <1>6, <1>7, <1>10, <1>11, <1>12, <2>1, <2>2 DEF RequestFits, b
<1>13. CASE f.mode = "create"
  <2>1. SavePlan(f).do = "create" /\ SavePlan(f).kind = f.kind /\ SavePlan(f).body = b
    BY <1>9, <1>13
  <2> QED
    BY <1>7, <1>10, <1>13, <2>1 DEF RequestFits, b
<1> QED
  BY <1>1, <1>12, <1>13

LEMMA DryRunPlanFits ==
  ASSUME NEW rs, NEW f \in Form, FormFits(rs, f), FormOK(f), NEW text \in Samples
  PROVE  DryRunPlan(f, text) \in Request /\ RequestFits(rs, DryRunPlan(f, text))
<1>1. f.mode \in {"create", "edit"} /\ f.kind \in AllKinds /\ f.id \in Ids \cup {None}
  BY DEF Form, AllKinds
<1>2. f.mode # "edit" => PlanOK(f.kind, Body(f)) /\ f.kind \in CustomKinds
  BY <1>1, BodyOfForm DEF FormFits
<1> DEFINE b == IF f.mode = "edit" THEN None ELSE Body(f)
<1>3. b \in KeywordBody \cup PatternBody \cup ContextBody \cup {None}
  BY <1>2 DEF PlanOK, CustomKinds
<1>4. IF b = None THEN f.id \in Ids ELSE PlanOK(f.kind, b) /\ f.kind \in CustomKinds
  <2>1. f.mode # "edit" => Body(f) \in KeywordBody \cup PatternBody \cup ContextBody
    BY <1>2 DEF PlanOK, CustomKinds
  <2>2. None \notin KeywordBody \cup PatternBody \cup ContextBody
    BY FilterPageAssumption
  <2>3. f.mode = "edit" => f.id \in Ids
    BY DEF FormFits
  <2> QED
    BY <1>2, <2>1, <2>2, <2>3
<1>5. DryRunPlan(f, text) = [do |-> "dry_run", id |-> f.id, kind |-> f.kind, body |-> b, text |-> text]
  BY DEF DryRunPlan
<1> HIDE DEF b
<1> QED
  BY <1>1, <1>3, <1>4, <1>5 DEF Request, AllKinds, RequestFits

LEMMA SaveStep ==
  ASSUME IndInv, NEW p \in Pages, Save(p)
  PROVE  IndInv' /\ Starts(p)
<1>1. FormOK(form[p]) /\ form[p] \in Form /\ FormFits(rows, form[p])
  BY TypesOf DEF Save, IndInv, PageFits
<1>2. SavePlan(form[p]) \in Request /\ RequestFits(rows, SavePlan(form[p]))
  BY <1>1, SavePlanFits DEF IndInv
<1> QED
  BY <1>2, StartStep DEF Save

LEMMA SetEnabledStep ==
  ASSUME IndInv, NEW p \in Pages, NEW id \in Ids, table[p][id] # None, SetEnabled(p, id)
  PROVE  IndInv' /\ Starts(p)
<1> DEFINE r == [Call("update") EXCEPT !.id = id, !.kind = "toggle", !.body = [enabled |-> ~table[p][id].enabled]]
<1>1. table[p][id] \in Rule /\ TableFits(rows, table[p])
  BY TypesOf DEF IndInv, PageFits
<1>2. (~table[p][id].enabled) \in BOOLEAN
  BY <1>1 DEF Rule
<1>3. r \in Request
  BY <1>2, CallTyped
<1>4. id \in NewIds => rows[id] # None
  BY <1>1, TouchedOrNew DEF TableFits, KindIs
<1>5. /\ r.do = "update" /\ r.kind = "toggle" /\ r.id = id /\ r.body \in Toggle
  BY DEF Call, Toggle
<1>6. RequestFits(rows, r)
  BY <1>4, <1>5 DEF RequestFits
<1> QED
  BY <1>3, <1>6, StartStep DEF SetEnabled

LEMMA ArchiveStep ==
  ASSUME IndInv, NEW p \in Pages, NEW id \in Ids, table[p][id] # None, Archive(p, id)
  PROVE  IndInv' /\ Starts(p)
<1> DEFINE r == [Call("archive") EXCEPT !.id = id]
<1>1. TableFits(rows, table[p]) /\ table[p][id].origin = "custom"
  BY DEF IndInv, PageFits, Archive
<1>2. id \in NewIds /\ rows[id] # None
  BY <1>1, TouchedOrNew DEF TableFits, KindIs, OriginOf
<1>3. r \in Request
  BY CallTyped
<1>4. r.do = "archive" /\ r.id = id
  BY DEF Call
<1>5. RequestFits(rows, r)
  BY <1>2, <1>4 DEF RequestFits
<1> QED
  BY <1>3, <1>5, StartStep DEF Archive

LEMMA DryRunStep ==
  ASSUME IndInv, NEW p \in Pages, NEW text \in Samples, DryRun(p, text)
  PROVE  IndInv' /\ Starts(p)
<1>1. FormOK(form[p]) /\ form[p] \in Form /\ FormFits(rows, form[p])
  BY TypesOf DEF DryRun, IndInv, PageFits
<1>2. DryRunPlan(form[p], text) \in Request /\ RequestFits(rows, DryRunPlan(form[p], text))
  BY <1>1, DryRunPlanFits
<1> QED
  BY <1>2, StartStep DEF DryRun

(***************************************************************************)
(* The form, and loading anew                                              *)
(***************************************************************************)
(* A step that leaves rows and clicks alone and gives one page another form. *)
LEMMA FormStep ==
  ASSUME IndInv, NEW p \in Pages, NEW f \in Form, FormFits(rows, f), form' = [form EXCEPT ![p] = f],
         result' \in [Pages -> Trial \cup {None}], UNCHANGED <<rows, csrf, pageState, table, ops, clicks>>
  PROVE  IndInv'
<1>1. \A q \in Pages : TableFits(rows, table'[q]) /\ FormFits(rows, form'[q])
  BY DEF IndInv, PageFits, TypeOK
<1>2. \A q \in Pages, t \in Slots : ops'[q][t] # None => ops'[q][t] = ops[q][t]
  OBVIOUS
<1>3. ops' \in Operations /\ Keeps(rows, rows')
  BY TypesOf, KeepsItself DEF IndInv
<1>4. PageFits(rows)'
  BY <1>1, <1>2, <1>3, PagesStayFit DEF IndInv
<1>5. form' \in [Pages -> Form]
  BY DEF IndInv, TypeOK
<1> QED
  BY <1>4, <1>5 DEF IndInv, TypeOK, RowsFit

LEMMA OpenStep ==
  ASSUME IndInv, NEW p \in Pages, NEW id \in Ids, table[p][id] # None, Open(p, id)
  PROVE  IndInv'
<1> DEFINE f == FormFromRule(id, table[p][id])
<1>1. table[p][id] \in Rule /\ TableFits(rows, table[p])
  BY TypesOf DEF IndInv, PageFits
<1>2. f \in Form
  BY <1>1, FormFromRuleTyped
<1>3. f.mode = "edit" /\ f.id = id /\ f.origin = table[p][id].origin /\ f.kind = table[p][id].kind
  BY DEF FormFromRule
<1>4. FormFits(rows, f)
  BY <1>1, <1>3 DEF FormFits, TableFits
<1>5. result' \in [Pages -> Trial \cup {None}]
  BY DEF Open, IndInv, TypeOK
<1> QED
  BY <1>2, <1>4, <1>5, FormStep DEF Open

LEMMA NewStep ==
  ASSUME IndInv, NEW p \in Pages, New(p)
  PROVE  IndInv'
<1>1. result' \in [Pages -> Trial \cup {None}]
  BY DEF New, IndInv, TypeOK
<1>2. BlankForm \in Form /\ FormFits(rows, BlankForm)
  BY BlankFormTyped
<1> QED
  BY <1>1, <1>2, FormStep DEF New

LEMMA TypeStep ==
  ASSUME IndInv, NEW p \in Pages, NEW draft \in Drafts, Type(p, draft)
  PROVE  IndInv'
<1> DEFINE f == form[p]
           g == Typed(f, draft)
<1>1. f \in Form /\ FormFits(rows, f)
  BY TypesOf DEF IndInv, PageFits
<1>2. /\ g \in Form /\ g.mode = f.mode /\ g.id = f.id /\ g.origin = f.origin
      /\ f.mode = "edit" => g.kind = f.kind
      /\ f.mode # "edit" => g.kind \in CustomKinds
  BY <1>1, TypedForm
<1> HIDE DEF g
<1>3. FormFits(rows, g)
  BY <1>1, <1>2 DEF FormFits
<1>4. form' = [form EXCEPT ![p] = g]
  BY DEF Type, g
<1>5. result' \in [Pages -> Trial \cup {None}]
  BY DEF Type, IndInv, TypeOK
<1> QED
  BY <1>2, <1>3, <1>4, <1>5, FormStep DEF Type

LEMMA ReloadStep ==
  ASSUME IndInv, NEW p \in Pages, Reload(p)
  PROVE  IndInv' /\ \E s \in Slots : ops[p][s] = None /\ SlotGets(p, s, LoadRules)
<1> DEFINE s == CHOOSE first \in Slots : TRUE
<1>1. Slots # {}
  BY FilterPageAssumption
<1>2. s \in Slots
  BY <1>1
<1> HIDE DEF s
<1>3. LoadRules \in Operation /\ OperationFits(rows, LoadRules)
  BY LoadRulesTyped
<1>4. ops' = [ops EXCEPT ![p][s] = LoadRules] /\ ops[p][s] = None
  BY <1>2 DEF Reload, Free, s
<1>5. ops \in Operations
  BY TypesOf DEF IndInv
<1>6. SlotGets(p, s, LoadRules)
  BY <1>2, <1>3, <1>4, <1>5, SlotIsSet
<1>7. UNCHANGED <<rows, csrf, table, form, result>>
      /\ pageState' = [pageState EXCEPT ![p] = "loading"] /\ clicks' = [clicks EXCEPT ![p] = @ + 1]
  BY DEF Reload
<1>8. RowsFit(rows)' /\ PageFits(rows)' /\ ops' \in Operations
  BY <1>2, <1>3, <1>6, <1>7, OneSlotMoves
<1>9. clicks' \in [Pages -> Nat] /\ pageState' \in [Pages -> {"loading", "loaded", "empty", "error"}]
  BY <1>7 DEF IndInv, TypeOK
<1> QED
  BY <1>2, <1>4, <1>6, <1>7, <1>8, <1>9 DEF IndInv, TypeOK, Operations

(***************************************************************************)
(* The handlers                                                            *)
(***************************************************************************)
(* The click goes on with its request.                                       *)
Advanced(p, s, pc) ==
  /\ ops[p][s] \in Operation /\ SlotGets(p, s, ops'[p][s]) /\ ops'[p][s] \in Operation
  /\ ops'[p][s].request = ops[p][s].request /\ ops'[p][s].pc = pc

(* A handler that answers, and what it answers, with the rows as they were.  *)
LEMMA AnswerStep ==
  ASSUME IndInv, NEW p \in Pages, NEW s \in Slots, ops[p][s] # None,
         NEW answer \in {"ok", "failed"}, NEW value \in Table \cup Trial \cup {None}, Answered(p, s, answer, value),
         ops[p][s].request.do = "load" /\ answer = "ok" => value \in Table /\ TableFits(rows, value),
         ops[p][s].request.do = "dry_run" /\ answer = "ok" => value \in Trial,
         UNCHANGED <<rows, csrf, page, clicks>>
  PROVE  IndInv' /\ Advanced(p, s, "answered")
<1> DEFINE op == ops'[p][s]
<1>1. ops \in Operations
  BY TypesOf DEF IndInv
<1>2. SlotGets(p, s, op) /\ op \in Operation
      /\ op.pc = "answered" /\ op.request = ops[p][s].request /\ op.answer = answer /\ op.value = value
  BY <1>1, AnsweredSlot
<1> HIDE DEF op
<1>3. OperationFits(rows, ops[p][s])
  BY DEF IndInv, PageFits
<1>4. OperationFits(rows, op)
  BY <1>2, <1>3 DEF OperationFits
<1>5. UNCHANGED <<rows, csrf, pageState, table, form, result, clicks>>
  BY DEF page
<1>6. RowsFit(rows)' /\ PageFits(rows)' /\ ops' \in Operations
  BY <1>2, <1>4, <1>5, OneSlotMoves
<1>7. Advanced(p, s, "answered")
  BY <1>1, <1>2 DEF Advanced, Operations, op
<1> QED
  BY <1>5, <1>6, <1>7 DEF IndInv, TypeOK, Operations

LEMMA GiveTokenStep ==
  ASSUME IndInv, NEW p \in Pages, NEW s \in Slots, GiveToken(p, s)
  PROVE  IndInv' /\ Advanced(p, s, "sent")
<1> DEFINE op == [ops[p][s] EXCEPT !.pc = "sent"]
<1>1. ops \in Operations /\ ops[p][s] \in Operation /\ OperationFits(rows, ops[p][s])
  BY TypesOf DEF IndInv, PageFits, GiveToken, At
<1>2. op \in Operation /\ op.pc = "sent" /\ op.request = ops[p][s].request
  BY <1>1, OperationMoves
<1>3. ops' = [ops EXCEPT ![p][s] = op]
  BY <1>1 DEF GiveToken, Operations
<1> HIDE DEF op
<1>4. SlotGets(p, s, op)
  BY <1>1, <1>2, <1>3, SlotIsSet
<1>5. OperationFits(rows, op)
  BY <1>1, <1>2 DEF OperationFits
<1>6. UNCHANGED <<rows, pageState, table, form, result, clicks>> /\ csrf' = [csrf EXCEPT ![p] = s]
  BY DEF GiveToken, page
<1>7. RowsFit(rows)' /\ PageFits(rows)' /\ ops' \in Operations
  BY <1>4, <1>5, <1>6, OneSlotMoves
<1>8. csrf' \in [Pages -> Slots \cup {None}]
  BY <1>6 DEF IndInv, TypeOK
<1>9. Advanced(p, s, "sent")
  BY <1>1, <1>2, <1>4 DEF Advanced, SlotGets
<1> QED
  BY <1>6, <1>7, <1>8, <1>9 DEF IndInv, TypeOK, Operations

LEMMA ManageableFits ==
  ASSUME TypeOK, RowsFit(rows)
  PROVE  Manageable \in Table /\ TableFits(rows, Manageable)
<1>1. ASSUME NEW id \in Ids PROVE Manageable[id] = IF id \in Touched \/ (Exists(id) /\ ~rows[id].archived) THEN Current(id) ELSE None
  BY DEF Manageable
<1>2. ASSUME NEW id \in Touched PROVE BuiltInRules[id] \in Rule /\ BuiltInRules[id].origin = "built_in"
  BY TouchedOrNew, BuiltInRulesTyped
<1>3. ASSUME NEW id \in Ids, Exists(id) PROVE rows[id] \in Rule /\ rows[id].origin = OriginOf(id) /\ KindIs(rows, id, rows[id].kind)
  BY <1>3, TypesOf DEF RowsFit, Exists
<1>4. ASSUME NEW id \in Ids, Manageable[id] # None
      PROVE  /\ Manageable[id] \in Rule /\ Manageable[id].origin = OriginOf(id) /\ KindIs(rows, id, Manageable[id].kind)
  <2>1. CASE Exists(id) /\ ~rows[id].archived
    BY <1>1, <1>3, <2>1 DEF Current
  <2>2. CASE ~(Exists(id) /\ ~rows[id].archived)
    <3>1. id \in Touched /\ Manageable[id] = BuiltInRules[id]
      BY <1>1, <1>4, <2>2 DEF Current, InCode
    <3> QED
      BY <1>2, <3>1 DEF OriginOf, KindIs
  <2> QED
    BY <2>1, <2>2
<1>5. Manageable \in Table
  BY <1>4 DEF Table, Manageable
<1> QED
  BY <1>4, <1>5 DEF TableFits

LEMMA ListRulesStep ==
  ASSUME IndInv, NEW p \in Pages, NEW s \in Slots, ListRules(p, s)
  PROVE  IndInv' /\ Advanced(p, s, "answered")
<1>1. Manageable \in Table /\ TableFits(rows, Manageable)
  BY ManageableFits DEF IndInv
<1> DEFINE rules == Manageable
<1> HIDE DEF rules
<1>2. /\ ops[p][s] # None /\ ops[p][s].request.do = "load" /\ Answered(p, s, "ok", rules)
      /\ UNCHANGED <<rows, csrf, page, clicks>>
  BY DEF ListRules, At, rules
<1> QED
  BY <1>1, <1>2, AnswerStep DEF rules

LEMMA RefuseStep ==
  ASSUME IndInv, NEW p \in Pages, NEW s \in Slots, Refuse(p, s) \/ Lose(p, s)
  PROVE  IndInv' /\ Advanced(p, s, "answered")
<1>1. ops[p][s] # None /\ Answered(p, s, "failed", None) /\ UNCHANGED <<rows, csrf, page, clicks>>
  BY DEF Refuse, Lose, At
<1> QED
  BY <1>1, AnswerStep

LEMMA TrialTyped ==
  ASSUME NEW rule, rule.action \in Actions, NEW text
  PROVE  DryRunAnswer(rule, text) \in Trial
<1>1. Matches(rule, text) \in BOOLEAN
  BY DEF Matches
<1> DEFINE m == Matches(rule, text)
<1> HIDE DEF m
<1>2. DryRunAnswer(rule, text) = [matched |-> m, action |-> IF m THEN rule.action ELSE "ALLOW"]
  BY DEF DryRunAnswer, m
<1> QED
  BY <1>1, <1>2 DEF Trial, Actions, m

LEMMA TryRuleStep ==
  ASSUME IndInv, NEW p \in Pages, NEW s \in Slots, TryRule(p, s)
  PROVE  IndInv' /\ Advanced(p, s, "answered")
<1> DEFINE r == ops[p][s].request
<1>1. ops[p][s] \in Operation /\ OperationFits(rows, ops[p][s])
  BY TypesOf DEF IndInv, PageFits, TryRule, At
<1>2. r.do = "dry_run" /\ ~Refused(p, s)
  BY DEF TryRule
<1> DEFINE rule == IF r.body = None THEN rows[r.id] ELSE RuleFromCreate(r.kind, r.body)
           value == DryRunAnswer(rule, r.text)
<1>3. r.body = None => rows[r.id] \in Rule
  <2>1. r.body = None => Exists(r.id) /\ r.id \in Ids
    BY <1>1, <1>2 DEF Refused, OperationFits, RequestFits
  <2> QED
    BY <2>1, TypesOf DEF IndInv, Exists
<1>4. r.body # None => RuleFromCreate(r.kind, r.body) \in Rule
  <2>1. r.body # None => r.kind \in CustomKinds /\ PlanOK(r.kind, r.body)
    BY <1>1, <1>2 DEF OperationFits, RequestFits
  <2>2. r.body # None => CreateOK(r.kind, r.body)
    BY <1>2 DEF Refused
  <2> QED
    BY <2>1, <2>2, CreatedRule
<1>5. rule \in Rule
  BY <1>3, <1>4
<1> HIDE DEF rule
<1>6. value \in Trial
  <2>1. rule.action \in Actions
    BY <1>5 DEF Rule
  <2> QED
    BY <2>1, TrialTyped
<1>7. ops[p][s] # None /\ Answered(p, s, "ok", value) /\ UNCHANGED <<rows, csrf, page, clicks>>
  BY DEF TryRule, At, rule
<1> HIDE DEF value
<1> QED
  BY <1>2, <1>6, <1>7, AnswerStep

(* What a handler that reads a row will write of it.                         *)
LEMMA RequestedPatch ==
  ASSUME NEW rs, RowsFit(rs), \A id \in Ids : rs[id] # None => rs[id] \in Rule,
         NEW r \in Request, RequestFits(rs, r), r.do \in {"update", "archive"}
  PROVE  /\ r.id \in Ids /\ IsPatch(PatchOf(r)) /\ (rs[r.id] = None => r.id \in Touched)
         /\ r.id \in NewIds /\ (r.do = "update" /\ r.kind # "toggle" => UpdateOK(rs[r.id], r.body)) =>
              \A c \in DOMAIN PatchOf(r) : UsableColumn(rs[r.id].kind, c, PatchOf(r)[c])
<1>1. CASE r.do = "archive"
  <2>1. PatchOf(r) = ArchivePatch
    BY <1>1 DEF PatchOf, ArchivePatch
  <2>2. \A kind : \A c \in DOMAIN ArchivePatch : UsableColumn(kind, c, ArchivePatch[c])
    BY DEF ArchivePatch, UsableColumn
  <2>3. r.id \in NewIds /\ rs[r.id] # None
    BY <1>1 DEF RequestFits
  <2> QED
    BY <2>1, <2>2, <2>3, ArchivePatchTyped, TouchedOrNew
<1>2. CASE r.do = "update" /\ r.kind = "toggle"
  <2>1. r.id \in Ids /\ r.body \in Toggle /\ (r.id \in NewIds => rs[r.id] # None) /\ PatchOf(r) = r.body
    BY <1>2 DEF RequestFits, PatchOf
  <2>2. IsPatch(r.body)
    BY <2>1, PatchTyped
  <2>3. \A kind : \A c \in DOMAIN r.body : UsableColumn(kind, c, r.body[c])
    BY <2>1 DEF Toggle, UsableColumn
  <2> QED
    BY <2>1, <2>2, <2>3, TouchedOrNew
<1>3. CASE r.do = "update" /\ r.kind # "toggle" /\ r.id \in Touched
  <2>1. r.body \in Override /\ PatchOf(r) = r.body /\ r.id \in Ids /\ r.id \notin NewIds
    BY <1>3, TouchedOrNew DEF RequestFits, PatchOf
  <2> QED
    BY <1>3, <2>1, PatchTyped
<1>4. CASE r.do = "update" /\ r.kind # "toggle" /\ r.id \notin Touched
  <2>1. r.id \in Ids /\ r.id \in NewIds /\ rs[r.id] # None /\ rs[r.id].kind = r.kind /\ PatchOf(r) = r.body
        /\ PlanOK(r.kind, r.body)
    BY <1>4, TouchedOrNew DEF RequestFits, KindIs, PatchOf
  <2>2. r.kind \in CustomKinds
    BY <2>1 DEF RowsFit
  <2>3. r.body \in KeywordBody \cup PatternBody \cup ContextBody
    BY <2>1, <2>2 DEF PlanOK, CustomKinds
  <2>4. IsPatch(r.body)
    BY <2>3, PatchTyped
  <2>5. ASSUME UpdateOK(rs[r.id], r.body) PROVE r.kind = "regex" => r.body.pattern \in Compiling
    <3> SUFFICES ASSUME r.kind = "regex" PROVE r.body.pattern \in Compiling
      OBVIOUS
    <3>1. r.body \in PatternBody /\ r.body.pattern # None
      BY <2>1 DEF PlanOK
    <3>2. "pattern" \in DOMAIN r.body
      BY <3>1 DEF PatternBody
    <3> DEFINE next == Overwritten(rs[r.id], r.body)
    <3>3. (IF next.pattern # None THEN next.pattern ELSE Field(next.config, "pattern", None)) \in Compiling
      BY <2>1, <2>5 DEF UpdateOK
    <3>4. "pattern" \in DOMAIN rs[r.id] => next.pattern = r.body.pattern
      BY <3>2 DEF Overwritten
    <3>5. "pattern" \in DOMAIN rs[r.id]
      BY <2>1, RuleColumns DEF RuleFields, PatchColumns
    <3> QED
      BY <3>1, <3>3, <3>4, <3>5
  <2> QED
    BY <1>4, <2>1, <2>2, <2>4, <2>5, PlanUsable
<1> QED
  BY <1>1, <1>2, <1>3, <1>4

LEMMA ReadRowStep ==
  ASSUME IndInv, NEW p \in Pages, NEW s \in Slots, ReadRow(p, s)
  PROVE  /\ IndInv' /\ Advanced(p, s, "held")
         /\ LET id == ops[p][s].request.id
                seen == ops'[p][s].seen
            IN seen.new = ~Exists(id) /\ seen.row = IF Exists(id) THEN rows[id] ELSE BuiltInRules[id]
<1> DEFINE r == ops[p][s].request
           seen == [new |-> ~Exists(r.id), row |-> IF Exists(r.id) THEN rows[r.id] ELSE InCode(r.id)]
           op == [ops[p][s] EXCEPT !.pc = "held", !.seen = seen]
<1>1. ops \in Operations /\ ops[p][s] \in Operation /\ OperationFits(rows, ops[p][s])
  BY TypesOf DEF IndInv, PageFits, ReadRow, At
<1>2. r \in Request /\ RequestFits(rows, r)
  BY <1>1, OperationParts DEF OperationFits
<1>3. r.do \in {"update", "archive"} /\ ~Refused(p, s)
  BY DEF ReadRow
<1>4. r.id \in Ids /\ (~Exists(r.id) => r.id \in Touched)
  BY <1>2, <1>3, RequestedPatch, TypesOf DEF IndInv, Exists
<1>5. Exists(r.id) => rows[r.id] \in Rule
  BY <1>4, TypesOf DEF IndInv, Exists
<1>6. ~Exists(r.id) => InCode(r.id) = BuiltInRules[r.id] /\ BuiltInRules[r.id] \in Rule
  BY <1>4, TouchedOrNew, BuiltInRulesTyped DEF InCode
<1>7. seen \in Held /\ seen.new = ~Exists(r.id) /\ (seen.new => seen.row = BuiltInRules[r.id])
  BY <1>5, <1>6 DEF Held
<1>8. ops' = [ops EXCEPT ![p][s] = op]
  BY <1>1 DEF ReadRow, Operations
<1> HIDE DEF seen
<1>9. op \in Operation /\ op.pc = "held" /\ op.request = r /\ op.seen = seen
  BY <1>1, <1>7 DEF Operation
<1> HIDE DEF op
<1>10. SlotGets(p, s, op)
  BY <1>1, <1>8, <1>9, SlotIsSet
<1>11. r.id \in NewIds => \A c \in DOMAIN PatchOf(r) : UsableColumn(rows[r.id].kind, c, PatchOf(r)[c])
  <2>1. r.id \in NewIds => Exists(r.id)
    BY <1>4, TouchedOrNew
  <2>2. r.id \in NewIds /\ r.do = "update" /\ r.kind # "toggle" => UpdateOK(rows[r.id], r.body)
    BY <1>3, <2>1 DEF Refused
  <2> QED
    BY <1>2, <1>3, <2>2, RequestedPatch, TypesOf DEF IndInv
<1>12. HeldFits(rows, op)
  BY <1>3, <1>4, <1>7, <1>9, <1>11 DEF HeldFits, Exists
<1>13. OperationFits(rows, op)
  BY <1>2, <1>9, <1>12 DEF OperationFits
<1>14. UNCHANGED <<rows, csrf, pageState, table, form, result, clicks>>
  BY DEF ReadRow, page
<1>15. RowsFit(rows)' /\ PageFits(rows)' /\ ops' \in Operations
  BY <1>10, <1>13, <1>14, OneSlotMoves
<1>16. Advanced(p, s, "held") /\ ops'[p][s].seen = seen
  BY <1>1, <1>9, <1>10 DEF Advanced, SlotGets
<1>17. seen.row = IF Exists(r.id) THEN rows[r.id] ELSE BuiltInRules[r.id]
  BY <1>6 DEF seen
<1> QED
  BY <1>7, <1>14, <1>15, <1>16, <1>17 DEF IndInv, TypeOK, Operations

(* One row is written, and it fits.                                          *)
LEMMA RowWritten ==
  ASSUME IndInv, NEW id \in Ids, NEW rule \in Rule, rows' = [rows EXCEPT ![id] = rule],
         rule.origin = OriginOf(id), id \in Touched => rule.kind = BuiltInRules[id].kind,
         rows[id] # None => rule.kind = rows[id].kind,
         id \in NewIds => rule.kind \in CustomKinds /\ \A c \in PatchColumns : UsableColumn(rule.kind, c, rule[c])
  PROVE  rows' \in [Ids -> Rule \cup {None}] /\ RowsFit(rows') /\ Keeps(rows, rows')
<1>1. rows' \in [Ids -> Rule \cup {None}] /\ rows'[id] = rule /\ \A other \in Ids \ {id} : rows'[other] = rows[other]
  BY DEF IndInv, TypeOK
<1>2. rule # None
  <2>1. None \notin Rule
    BY FilterPageAssumption
  <2> QED
    BY <2>1
<1>3. Keeps(rows, rows')
  BY <1>1, <1>2 DEF Keeps
<1>4. ASSUME NEW other \in Ids, rows'[other] # None
      PROVE  /\ rows'[other].origin = OriginOf(other) /\ KindIs(rows', other, rows'[other].kind)
             /\ other \in NewIds => rows'[other].kind \in CustomKinds
                                    /\ \A c \in PatchColumns : UsableColumn(rows'[other].kind, c, rows'[other][c])
  <2>1. CASE other = id
    BY <1>1, <1>2, <2>1 DEF KindIs
  <2>2. CASE other # id
    BY <1>1, <1>4, <2>2 DEF IndInv, RowsFit, KindIs
  <2> QED
    BY <2>1, <2>2
<1>5. RowsFit(rows')
  BY <1>4 DEF RowsFit
<1> QED
  BY <1>1, <1>3, <1>5

(* A handler that has written what fits and answers.                         *)
LEMMA WriteStep ==
  ASSUME IndInv, NEW p \in Pages, NEW s \in Slots, ops[p][s] # None,
         NEW answer \in {"ok", "failed"}, Answered(p, s, answer, None),
         ops[p][s].request.do \notin {"load", "dry_run"}, UNCHANGED <<csrf, page, clicks>>,
         rows' \in [Ids -> Rule \cup {None}], RowsFit(rows'), Keeps(rows, rows')
  PROVE  IndInv' /\ Advanced(p, s, "answered")
<1> DEFINE op == ops'[p][s]
<1>1. ops \in Operations
  BY TypesOf DEF IndInv
<1>2. SlotGets(p, s, op) /\ op \in Operation
      /\ op.pc = "answered" /\ op.request = ops[p][s].request /\ op.answer = answer
  BY <1>1, AnsweredSlot
<1> HIDE DEF op
<1>3. RequestFits(rows, ops[p][s].request)
  BY DEF IndInv, PageFits, OperationFits
<1>4. OperationFits(rows', op)
  BY <1>2, <1>3, StaysFit DEF OperationFits
<1>5. UNCHANGED <<csrf, pageState, table, form, result, clicks>>
  BY DEF page
<1>6. \A q \in Pages, t \in Slots : ops'[q][t] # None => ops'[q][t] = ops[q][t] \/ OperationFits(rows', ops'[q][t])
  BY <1>2, <1>4 DEF SlotGets
<1>7. \A q \in Pages : TableFits(rows, table'[q]) /\ FormFits(rows, form'[q])
  BY <1>5 DEF IndInv, PageFits
<1>8. ops' \in Operations
  BY <1>2 DEF SlotGets
<1>9. PageFits(rows)'
  BY <1>6, <1>7, <1>8, PagesStayFit DEF IndInv
<1>10. Advanced(p, s, "answered")
  BY <1>1, <1>2 DEF Advanced, Operations, op
<1> QED
  BY <1>5, <1>8, <1>9, <1>10 DEF IndInv, TypeOK, Operations

LEMMA CreateRuleStep ==
  ASSUME IndInv, NEW p \in Pages, NEW s \in Slots, CreateRule(p, s)
  PROVE  IndInv' /\ Advanced(p, s, "answered")
<1> DEFINE r == ops[p][s].request
           rule == RuleFromCreate(r.kind, r.body)
<1>1. ops[p][s] # None /\ r.do = "create" /\ ~Refused(p, s) /\ Answered(p, s, "ok", None) /\ UNCHANGED <<csrf, page, clicks>>
  BY DEF CreateRule, At
<1>2. r.kind \in CustomKinds /\ PlanOK(r.kind, r.body)
  BY <1>1 DEF IndInv, PageFits, OperationFits, RequestFits
<1>3. CreateOK(r.kind, r.body)
  BY <1>1 DEF Refused
<1>4. /\ rule \in Rule /\ rule.origin = "custom" /\ rule.kind = r.kind
      /\ \A c \in PatchColumns : UsableColumn(r.kind, c, rule[c])
  BY <1>2, <1>3, CreatedRule
<1>5. PICK id \in NewIds : ~Exists(id) /\ rows' = [rows EXCEPT ![id] = rule]
  BY DEF CreateRule
<1> HIDE DEF rule
<1>6. id \in Ids /\ id \notin Touched /\ rows[id] = None
  BY <1>5, TouchedOrNew DEF Exists
<1>7. rows' \in [Ids -> Rule \cup {None}] /\ RowsFit(rows') /\ Keeps(rows, rows')
  BY <1>2, <1>4, <1>5, <1>6, RowWritten DEF OriginOf
<1> QED
  BY <1>1, <1>7, WriteStep

LEMMA DirtyPatch ==
  ASSUME NEW seen, NEW patch
  PROVE  \A c \in DOMAIN Dirty(seen, patch) : c \in DOMAIN patch /\ Dirty(seen, patch)[c] = patch[c]
  BY DEF Dirty

LEMMA CommitStep ==
  ASSUME IndInv, NEW p \in Pages, NEW s \in Slots, Commit(p, s)
  PROVE  IndInv' /\ Advanced(p, s, "answered")
<1> DEFINE op == ops[p][s]
           r == op.request
           patch == PatchOf(r)
           clash == op.seen.new /\ Exists(r.id)
<1>1. /\ op # None /\ op.pc = "held" /\ UNCHANGED <<csrf, page, clicks>>
      /\ rows' = IF clash THEN rows
                 ELSE [rows EXCEPT ![r.id] = IF op.seen.new THEN Overwritten(op.seen.row, patch)
                                             ELSE Overwritten(rows[r.id], Dirty(op.seen.row, patch))]
      /\ \E lost \in BOOLEAN : Answered(p, s, IF clash \/ lost THEN "failed" ELSE "ok", None)
  BY DEF Commit, At
<1>2. op \in Operation /\ OperationFits(rows, op) /\ HeldFits(rows, op) /\ RequestFits(rows, r) /\ r \in Request
  BY <1>1, TypesOf, OperationParts DEF IndInv, PageFits, OperationFits
<1>3. /\ r.do \in {"update", "archive"} /\ op.seen \in Held
      /\ op.seen.new => r.id \in Touched /\ op.seen.row = BuiltInRules[r.id]
      /\ ~op.seen.new => rows[r.id] # None
      /\ r.id \in NewIds => \A c \in DOMAIN patch : UsableColumn(rows[r.id].kind, c, patch[c])
  BY <1>2 DEF HeldFits
<1>4. r.id \in Ids /\ IsPatch(patch)
  BY <1>2, <1>3, RequestedPatch, TypesOf DEF IndInv
<1> HIDE DEF patch
<1>5. rows' \in [Ids -> Rule \cup {None}] /\ RowsFit(rows') /\ Keeps(rows, rows')
  <2>1. CASE clash
    BY <1>1, <2>1, KeepsItself DEF IndInv, TypeOK
  <2>2. CASE ~clash /\ op.seen.new
    <3> DEFINE rule == Overwritten(op.seen.row, patch)
    <3>1. r.id \in Touched /\ op.seen.row = BuiltInRules[r.id] /\ rows[r.id] = None
      BY <1>3, <2>2 DEF Exists
    <3>2. op.seen.row \in Rule /\ op.seen.row.origin = "built_in"
      BY <3>1, TouchedOrNew, BuiltInRulesTyped
    <3>3. rule \in Rule /\ rule.origin = "built_in" /\ rule.kind = BuiltInRules[r.id].kind
      BY <1>4, <3>1, <3>2, OverwrittenRule DEF IsPatch
    <3>4. rows' = [rows EXCEPT ![r.id] = rule]
      BY <1>1, <2>2
    <3> HIDE DEF rule
    <3> QED
      BY <1>4, <3>1, <3>3, <3>4, RowWritten, TouchedOrNew DEF OriginOf
  <2>3. CASE ~op.seen.new
    <3> DEFINE written == Dirty(op.seen.row, patch)
               rule == Overwritten(rows[r.id], written)
    <3>1. rows[r.id] # None /\ rows[r.id] \in Rule
      BY <1>3, <1>4, <2>3, TypesOf DEF IndInv
    <3>2. \A c \in DOMAIN written : c \in DOMAIN patch /\ written[c] = patch[c]
      BY DirtyPatch
    <3> HIDE DEF written
    <3>3. \A c \in DOMAIN written : c \in PatchColumns /\ written[c] \in Column[c]
      BY <1>4, <3>2 DEF IsPatch
    <3>4. /\ rule \in Rule /\ rule.origin = rows[r.id].origin /\ rule.kind = rows[r.id].kind
          /\ \A c \in PatchColumns : rule[c] = IF c \in DOMAIN written THEN written[c] ELSE rows[r.id][c]
      BY <3>1, <3>3, OverwrittenRule
    <3>5. rows' = [rows EXCEPT ![r.id] = rule]
      BY <1>1, <2>3 DEF written
    <3> HIDE DEF rule
    <3>6. rows[r.id].origin = OriginOf(r.id) /\ KindIs(rows, r.id, rows[r.id].kind)
          /\ (r.id \in NewIds => rows[r.id].kind \in CustomKinds
                                 /\ \A c \in PatchColumns : UsableColumn(rows[r.id].kind, c, rows[r.id][c]))
      BY <1>4, <3>1 DEF IndInv, RowsFit
    <3>7. r.id \in NewIds => \A c \in PatchColumns : UsableColumn(rule.kind, c, rule[c])
      BY <1>3, <3>2, <3>4, <3>6
    <3>8. r.id \in Touched => rule.kind = BuiltInRules[r.id].kind
      BY <3>4, <3>6 DEF KindIs
    <3> QED
      BY <1>4, <3>4, <3>5, <3>6, <3>7, <3>8, RowWritten
  <2> QED
    BY <2>1, <2>2, <2>3
<1>6. PICK lost \in BOOLEAN : Answered(p, s, IF clash \/ lost THEN "failed" ELSE "ok", None)
  BY <1>1
<1>7. \E answer \in {"ok", "failed"} : Answered(p, s, answer, None)
  BY <1>6
<1>8. r.do \notin {"load", "dry_run"}
  BY <1>3
<1> QED
  BY <1>1, <1>5, <1>7, <1>8, WriteStep

(***************************************************************************)
(* The answers                                                             *)
(***************************************************************************)
(* A step that takes an answer off a slot, with the rows as they were.       *)
LEMMA AnswerTaken ==
  ASSUME IndInv, NEW p \in Pages, NEW s \in Slots, NEW op \in {None, LoadRules}, ops' = [ops EXCEPT ![p][s] = op],
         UNCHANGED <<rows, csrf, clicks>>,
         \A q \in Pages : TableFits(rows, table'[q]) /\ FormFits(rows, form'[q]),
         pageState' \in [Pages -> {"loading", "loaded", "empty", "error"}], table' \in [Pages -> Table],
         form' \in [Pages -> Form], result' \in [Pages -> Trial \cup {None}]
  PROVE  IndInv' /\ SlotGets(p, s, op)
<1>1. op \in Operation \cup {None} /\ (op # None => OperationFits(rows, op))
  BY LoadRulesTyped
<1>2. SlotGets(p, s, op)
  BY <1>1, SlotIsSet, TypesOf DEF IndInv
<1>3. \A q \in Pages, t \in Slots : ops'[q][t] # None => ops'[q][t] = ops[q][t] \/ OperationFits(rows', ops'[q][t])
  BY <1>1, <1>2 DEF SlotGets
<1>4. ops' \in Operations /\ Keeps(rows, rows')
  BY <1>2, KeepsItself DEF SlotGets
<1>5. PageFits(rows)'
  BY <1>3, <1>4, PagesStayFit DEF IndInv
<1> QED
  BY <1>2, <1>4, <1>5 DEF IndInv, TypeOK, RowsFit, Operations

LEMMA RulesArriveStep ==
  ASSUME IndInv, NEW p \in Pages, NEW s \in Slots, RulesArrive(p, s)
  PROVE  IndInv' /\ SlotGets(p, s, None)
<1> DEFINE op == ops[p][s]
<1>1. op \in Operation /\ OperationFits(rows, op) /\ op.pc = "answered" /\ op.request.do = "load"
  BY TypesOf DEF IndInv, PageFits, RulesArrive, At
<1>2. op.answer \in {"none", "ok", "failed"}
  BY <1>1, OperationParts
<1>3. op.answer # "failed" => op.value \in Table /\ TableFits(rows, op.value)
  BY <1>1, <1>2 DEF OperationFits
<1>4. NoRules \in Table /\ TableFits(rows, NoRules)
  BY DEF NoRules, Table, TableFits
<1>5. BlankForm \in Form /\ FormFits(rows, BlankForm)
  BY BlankFormTyped
<1>6. ops' = [ops EXCEPT ![p][s] = None] /\ UNCHANGED <<rows, csrf, result, clicks>>
  BY DEF RulesArrive
<1>7. \E rules \in Table : TableFits(rows, rules) /\ table' = [table EXCEPT ![p] = rules]
  BY <1>3, <1>4 DEF RulesArrive
<1>8. form' = form \/ form' = [form EXCEPT ![p] = BlankForm]
  BY DEF RulesArrive
<1>9. pageState' \in [Pages -> {"loading", "loaded", "empty", "error"}]
  BY DEF RulesArrive, IndInv, TypeOK
<1>10. table' \in [Pages -> Table] /\ \A q \in Pages : TableFits(rows, table'[q])
  BY <1>7 DEF IndInv, TypeOK, PageFits
<1>11. form' \in [Pages -> Form] /\ \A q \in Pages : FormFits(rows, form'[q])
  BY <1>5, <1>8 DEF IndInv, TypeOK, PageFits
<1>12. result' \in [Pages -> Trial \cup {None}]
  BY <1>6 DEF IndInv, TypeOK
<1> QED
  BY <1>6, <1>9, <1>10, <1>11, <1>12, AnswerTaken

LEMMA SavedStep ==
  ASSUME IndInv, NEW p \in Pages, NEW s \in Slots, Saved(p, s)
  PROVE  IndInv' /\ SlotGets(p, s, LoadRules)
<1>1. BlankForm \in Form /\ FormFits(rows, BlankForm)
  BY BlankFormTyped
<1>2. ops' = [ops EXCEPT ![p][s] = LoadRules] /\ UNCHANGED <<rows, csrf, table, clicks>>
  BY DEF Saved
<1>3. form' = form \/ form' = [form EXCEPT ![p] = BlankForm]
  BY DEF Saved
<1>4. form' \in [Pages -> Form] /\ \A q \in Pages : TableFits(rows, table'[q]) /\ FormFits(rows, form'[q])
  BY <1>1, <1>2, <1>3 DEF IndInv, TypeOK, PageFits
<1>5. result' \in [Pages -> Trial \cup {None}]
  BY DEF Saved, IndInv, TypeOK
<1>6. pageState' \in [Pages -> {"loading", "loaded", "empty", "error"}]
  BY DEF Saved, IndInv, TypeOK
<1>7. table' \in [Pages -> Table]
  BY <1>2 DEF IndInv, TypeOK
<1> QED
  BY <1>2, <1>4, <1>5, <1>6, <1>7, AnswerTaken

LEMMA FailedStep ==
  ASSUME IndInv, NEW p \in Pages, NEW s \in Slots, Failed(p, s)
  PROVE  IndInv' /\ SlotGets(p, s, None)
<1>1. ops' = [ops EXCEPT ![p][s] = None] /\ UNCHANGED <<rows, csrf, pageState, table, form, result, clicks>>
  BY DEF Failed, page
<1>2. \A q \in Pages : TableFits(rows, table'[q]) /\ FormFits(rows, form'[q])
  BY <1>1 DEF IndInv, PageFits
<1> QED
  BY <1>1, <1>2, AnswerTaken DEF IndInv, TypeOK

LEMMA TriedStep ==
  ASSUME IndInv, NEW p \in Pages, NEW s \in Slots, Tried(p, s)
  PROVE  IndInv' /\ SlotGets(p, s, None)
<1> DEFINE op == ops[p][s]
<1>1. op \in Operation /\ OperationFits(rows, op) /\ op.pc = "answered" /\ op.request.do = "dry_run" /\ op.answer # "failed"
  BY TypesOf DEF IndInv, PageFits, Tried, At
<1>2. op.answer \in {"none", "ok", "failed"}
  BY <1>1, OperationParts
<1>3. op.value \in Trial
  BY <1>1, <1>2 DEF OperationFits
<1>4. ops' = [ops EXCEPT ![p][s] = None] /\ UNCHANGED <<rows, csrf, pageState, table, form, clicks>>
      /\ result' = [result EXCEPT ![p] = op.value]
  BY DEF Tried
<1>5. result' \in [Pages -> Trial \cup {None}]
  BY <1>3, <1>4 DEF IndInv, TypeOK
<1>6. \A q \in Pages : TableFits(rows, table'[q]) /\ FormFits(rows, form'[q])
  BY <1>4 DEF IndInv, PageFits
<1> QED
  BY <1>4, <1>5, <1>6, AnswerTaken DEF IndInv, TypeOK

(***************************************************************************)
(* The invariant                                                           *)
(***************************************************************************)
LEMMA InitFits == Init => IndInv
<1> SUFFICES ASSUME Init PROVE IndInv
  OBVIOUS
<1>1. MadeBefore # None /\ DOMAIN MadeBefore \subseteq NewIds
  BY FilterPageAssumption
<1>2. ASSUME NEW id \in DOMAIN MadeBefore
      PROVE  /\ MadeBefore[id] \in Rule /\ MadeBefore[id].origin = "custom" /\ MadeBefore[id].kind \in CustomKinds
             /\ Usable(id, MadeBefore[id])
  BY FilterPageAssumption
<1>3. NewIds \cap DOMAIN Seeded = {}
  <2>1. NewIds \cap DOMAIN BuiltInRules = {}
    BY FilterPageAssumption
  <2> QED
    BY <2>1, SeededIsBuiltIn
<1>4. ASSUME NEW id \in Ids
      PROVE  /\ id \in Touched => rows[id] = None \/ rows[id] = BuiltInRules[id]
             /\ id \in NewIds => rows[id] = None \/ (id \in DOMAIN MadeBefore /\ rows[id] = MadeBefore[id])
  <2>1. rows[id] = IF id \in DOMAIN Seeded THEN Seeded[id] ELSE Field(MadeBefore, id, None)
    BY DEF Init
  <2>2. id \in Touched => id \notin DOMAIN MadeBefore
    BY <1>1, TouchedOrNew
  <2> QED
    BY <1>1, <1>3, <2>1, <2>2, SeededIsBuiltIn DEF Field
<1>5. ASSUME NEW id \in Ids, rows[id] # None
      PROVE  /\ rows[id] \in Rule
             /\ rows[id].origin = OriginOf(id) /\ KindIs(rows, id, rows[id].kind)
             /\ id \in NewIds => rows[id].kind \in CustomKinds /\ \A c \in PatchColumns : UsableColumn(rows[id].kind, c, rows[id][c])
  <2>1. CASE id \in Touched
    <3>1. rows[id] = BuiltInRules[id] /\ id \in DOMAIN BuiltInRules /\ id \notin NewIds
      BY <1>4, <1>5, <2>1, TouchedOrNew
    <3>2. BuiltInRules[id] \in Rule /\ BuiltInRules[id].origin = "built_in"
      BY <3>1, BuiltInRulesTyped
    <3> QED
      BY <2>1, <3>1, <3>2 DEF OriginOf, KindIs
  <2>2. CASE id \in NewIds
    <3>1. id \in DOMAIN MadeBefore /\ rows[id] = MadeBefore[id] /\ id \notin Touched
      BY <1>4, <1>5, <2>2, TouchedOrNew
    <3>2. rows[id] \in Rule /\ rows[id].origin = "custom" /\ rows[id].kind \in CustomKinds /\ Usable(id, rows[id])
      BY <1>2, <3>1
    <3>3. \A c \in PatchColumns : UsableColumn(rows[id].kind, c, rows[id][c])
      BY <3>2, UsableByColumns
    <3> QED
      BY <1>5, <3>1, <3>2, <3>3 DEF OriginOf, KindIs
  <2> QED
    BY <2>1, <2>2, TouchedOrNew
<1>6. RowsFit(rows)
  BY <1>5 DEF RowsFit
<1>7. rows \in [Ids -> Rule \cup {None}]
  BY <1>5 DEF Init
<1>8. BlankForm \in Form /\ FormFits(rows, BlankForm)
  BY BlankFormTyped
<1>9. NoRules \in Table /\ TableFits(rows, NoRules)
  BY DEF NoRules, Table, TableFits
<1>10. LoadRules \in Operation /\ OperationFits(rows, LoadRules)
  BY LoadRulesTyped
<1>11. TypeOK
  BY <1>7, <1>8, <1>9, <1>10 DEF Init, TypeOK
<1>12. PageFits(rows)
  <2>1. \A p \in Pages : table[p] = NoRules /\ form[p] = BlankForm
    BY DEF Init
  <2>2. \A p \in Pages, s \in Slots : ops[p][s] # None => ops[p][s] = LoadRules
    BY DEF Init
  <2> QED
    BY <1>8, <1>9, <1>10, <2>1, <2>2 DEF PageFits
<1> QED
  BY <1>6, <1>11, <1>12 DEF IndInv

LEMMA ProgressStep ==
  ASSUME IndInv, NEW p \in Pages, NEW s \in Slots, Progress(p, s)
  PROVE  IndInv'
<1>1. CASE GiveToken(p, s)
  BY <1>1, GiveTokenStep
<1>2. CASE ListRules(p, s)
  BY <1>2, ListRulesStep
<1>3. CASE Refuse(p, s)
  BY <1>3, RefuseStep
<1>4. CASE TryRule(p, s)
  BY <1>4, TryRuleStep
<1>5. CASE ReadRow(p, s)
  BY <1>5, ReadRowStep
<1>6. CASE CreateRule(p, s)
  BY <1>6, CreateRuleStep
<1>7. CASE Commit(p, s)
  BY <1>7, CommitStep
<1>8. CASE RulesArrive(p, s)
  BY <1>8, RulesArriveStep
<1>9. CASE Saved(p, s)
  BY <1>9, SavedStep
<1>10. CASE Failed(p, s)
  BY <1>10, FailedStep
<1>11. CASE Tried(p, s)
  BY <1>11, TriedStep
<1> QED
  BY <1>1, <1>2, <1>3, <1>4, <1>5, <1>6, <1>7, <1>8, <1>9, <1>10, <1>11 DEF Progress

LEMMA NextFits == IndInv /\ [Next]_vars => IndInv'
<1> SUFFICES ASSUME IndInv, [Next]_vars PROVE IndInv'
  OBVIOUS
<1>1. ASSUME NEW p \in Pages, Save(p) PROVE IndInv'
  BY <1>1, SaveStep
<1>2. ASSUME NEW p \in Pages, New(p) PROVE IndInv'
  BY <1>2, NewStep
<1>3. ASSUME NEW p \in Pages, Reload(p) PROVE IndInv'
  BY <1>3, ReloadStep
<1>4. ASSUME NEW p \in Pages, NEW id \in {i \in Ids : table[p][i] # None}, Open(p, id) \/ SetEnabled(p, id) \/ Archive(p, id)
      PROVE  IndInv'
  BY <1>4, OpenStep, SetEnabledStep, ArchiveStep
<1>5. ASSUME NEW p \in Pages, NEW draft \in Drafts, Type(p, draft) PROVE IndInv'
  BY <1>5, TypeStep
<1>6. ASSUME NEW p \in Pages, NEW text \in Samples, DryRun(p, text) PROVE IndInv'
  BY <1>6, DryRunStep
<1>7. ASSUME NEW p \in Pages, NEW s \in Slots, Progress(p, s) \/ Lose(p, s) PROVE IndInv'
  BY <1>7, ProgressStep, RefuseStep
<1>8. CASE UNCHANGED vars
  <2>1. UNCHANGED <<rows, csrf, pageState, table, form, result, ops, clicks>>
    BY <1>8 DEF vars
  <2> QED
    BY <2>1 DEF IndInv, TypeOK, RowsFit, PageFits
<1> QED
  BY <1>1, <1>2, <1>3, <1>4, <1>5, <1>6, <1>7, <1>8 DEF Next

(* Rows, tables, forms, requests under way and what handlers hold fit one    *)
(* another: what a page offers, sends and is told is of the rules there are. *)
THEOREM Invariant == Spec => []IndInv
<1> QED
  BY InitFits, NextFits, PTL DEF Spec

(* Rows, forms, requests and what handlers hold are of their types: a page   *)
(* sends a handler nothing that it cannot read.                              *)
THEOREM TypeCorrect == Spec => []TypeOK
<1>1. IndInv => TypeOK
  BY DEF IndInv
<1> QED
  BY <1>1, Invariant, PTL

(* A rule that administrators made stays one that finds something and that   *)
(* the page can open and save again, also when edits of it overlap and each  *)
(* writes some of its columns.                                               *)
THEOREM RulesUsable == Spec => []RulesStayUsable
<1>1. IndInv => RulesStayUsable
  <2> SUFFICES ASSUME IndInv, NEW c \in NewIds, rows[c] # None PROVE Usable(c, rows[c])
    BY DEF RulesStayUsable, Exists
  <2>1. c \in Ids /\ c \notin Touched
    BY TouchedOrNew
  <2>2. /\ rows[c] \in Rule /\ rows[c].origin = "custom" /\ rows[c].kind \in CustomKinds
        /\ \A x \in PatchColumns : UsableColumn(rows[c].kind, x, rows[c][x])
    BY <2>1, TypesOf DEF IndInv, RowsFit, OriginOf
  <2> QED
    BY <2>1, <2>2, UsableByColumns
<1> QED
  BY <1>1, Invariant, PTL

(***************************************************************************)
(* The loading notice                                                      *)
(***************************************************************************)
LoadIn(op) == op # None /\ op.request.do = "load"

LEMMA StillAwaited ==
  ASSUME LoadingIsAwaited, NEW p \in Pages, NEW s \in Slots, NEW op, SlotGets(p, s, op),
         LoadIn(ops[p][s]) => LoadIn(op) \/ pageState'[p] # "loading",
         \A q \in Pages : pageState'[q] = "loading" => pageState[q] = "loading" \/ (q = p /\ LoadIn(op))
  PROVE  LoadingIsAwaited'
<1> SUFFICES ASSUME NEW q \in Pages, pageState'[q] = "loading" PROVE \E t \in Slots : LoadIn(ops'[q][t])
  BY DEF LoadingIsAwaited, LoadIn
<1>1. CASE q = p /\ LoadIn(op)
  BY <1>1 DEF SlotGets
<1>2. CASE ~(q = p /\ LoadIn(op))
  <2>1. PICK t \in Slots : LoadIn(ops[q][t])
    BY <1>2 DEF LoadingIsAwaited, LoadIn
  <2>2. <<q, t>> # <<p, s>>
    BY <1>2, <2>1
  <2> QED
    BY <2>1, <2>2 DEF SlotGets
<1> QED
  BY <1>1, <1>2

LEMMA ProgressAwaited ==
  ASSUME IndInv, LoadingIsAwaited, NEW p \in Pages, NEW s \in Slots, Progress(p, s) \/ Lose(p, s)
  PROVE  LoadingIsAwaited'
<1>0. None \notin Operation /\ LoadIn(LoadRules)
  <2>1. None \notin Operation
    BY FilterPageAssumption
  <2> QED
    BY <2>1, LoadRulesTyped DEF LoadIn
<1>1. ASSUME NEW pc, Advanced(p, s, pc), UNCHANGED pageState PROVE LoadingIsAwaited'
  <2> DEFINE op == ops'[p][s]
  <2>1. SlotGets(p, s, op) /\ (LoadIn(ops[p][s]) => LoadIn(op))
    BY <1>0, <1>1 DEF Advanced, LoadIn
  <2> HIDE DEF op
  <2> QED
    BY <1>1, <2>1, StillAwaited
<1>2. CASE GiveToken(p, s)
  BY <1>1, <1>2, GiveTokenStep DEF GiveToken, page
<1>3. CASE ListRules(p, s)
  BY <1>1, <1>3, ListRulesStep DEF ListRules, page
<1>4. CASE Refuse(p, s) \/ Lose(p, s)
  BY <1>1, <1>4, RefuseStep DEF Refuse, Lose, page
<1>5. CASE TryRule(p, s)
  BY <1>1, <1>5, TryRuleStep DEF TryRule, page
<1>6. CASE ReadRow(p, s)
  BY <1>1, <1>6, ReadRowStep DEF ReadRow, page
<1>7. CASE CreateRule(p, s)
  BY <1>1, <1>7, CreateRuleStep DEF CreateRule, page
<1>8. CASE Commit(p, s)
  BY <1>1, <1>8, CommitStep DEF Commit, page
<1>9. CASE RulesArrive(p, s)
  <2>1. SlotGets(p, s, None)
    BY <1>9, RulesArriveStep
  <2>2. pageState'[p] # "loading" /\ \A q \in Pages \ {p} : pageState'[q] = pageState[q]
    BY <1>9 DEF RulesArrive, IndInv, TypeOK
  <2> QED
    BY <2>1, <2>2, StillAwaited
<1>10. CASE Saved(p, s)
  <2>1. SlotGets(p, s, LoadRules)
    BY <1>10, SavedStep
  <2>2. \A q \in Pages \ {p} : pageState'[q] = pageState[q]
    BY <1>10 DEF Saved, IndInv, TypeOK
  <2> QED
    BY <1>0, <2>1, <2>2, StillAwaited
<1>11. CASE Failed(p, s) \/ Tried(p, s)
  <2>1. SlotGets(p, s, None)
    BY <1>11, FailedStep, TriedStep
  <2>2. pageState' = pageState /\ ~LoadIn(ops[p][s])
    BY <1>11 DEF Failed, Tried, page, LoadIn
  <2> QED
    BY <2>1, <2>2, StillAwaited
<1> QED
  BY <1>2, <1>3, <1>4, <1>5, <1>6, <1>7, <1>8, <1>9, <1>10, <1>11 DEF Progress

(* While the loading notice hides the page, the rules are on their way: no   *)
(* order of clicks and answers leaves it there for good.                     *)
THEOREM LoadingAwaited == Spec => []LoadingIsAwaited
<1>1. Init => LoadingIsAwaited
  <2> SUFFICES ASSUME Init, NEW p \in Pages PROVE \E s \in Slots : ops[p][s] # None /\ ops[p][s].request.do = "load"
    BY DEF LoadingIsAwaited
  <2> DEFINE s == CHOOSE first \in Slots : TRUE
  <2>1. Slots # {} /\ None \notin Operation
    BY FilterPageAssumption
  <2>2. s \in Slots
    BY <2>1
  <2>3. ops[p][s] = LoadRules
    BY <2>2 DEF Init
  <2> HIDE DEF s
  <2> QED
    BY <2>1, <2>2, <2>3, LoadRulesTyped
<1>2. IndInv /\ LoadingIsAwaited /\ [Next]_vars => LoadingIsAwaited'
  <2> SUFFICES ASSUME IndInv, LoadingIsAwaited, [Next]_vars PROVE LoadingIsAwaited'
    OBVIOUS
  <2>1. ASSUME NEW p \in Pages, Starts(p), UNCHANGED pageState PROVE LoadingIsAwaited'
    <3>1. PICK s \in Slots : ops[p][s] = None /\ SlotGets(p, s, ops'[p][s])
      BY <2>1 DEF Starts
    <3>2. ~LoadIn(ops[p][s])
      BY <3>1 DEF LoadIn
    <3> DEFINE op == ops'[p][s]
    <3>3. SlotGets(p, s, op)
      BY <3>1
    <3> HIDE DEF op
    <3> QED
      BY <2>1, <3>2, <3>3, StillAwaited
  <2>2. ASSUME NEW p \in Pages, Save(p) PROVE LoadingIsAwaited'
    BY <2>1, <2>2, SaveStep DEF Save, Start, page
  <2>3. ASSUME NEW p \in Pages, NEW id \in Ids, table[p][id] # None, SetEnabled(p, id) PROVE LoadingIsAwaited'
    BY <2>1, <2>3, SetEnabledStep DEF SetEnabled, Start, page
  <2>4. ASSUME NEW p \in Pages, NEW id \in Ids, table[p][id] # None, Archive(p, id) PROVE LoadingIsAwaited'
    BY <2>1, <2>4, ArchiveStep DEF Archive, Start, page
  <2>5. ASSUME NEW p \in Pages, NEW text \in Samples, DryRun(p, text) PROVE LoadingIsAwaited'
    BY <2>1, <2>5, DryRunStep DEF DryRun, Start, page
  <2>6. ASSUME UNCHANGED <<pageState, ops>> PROVE LoadingIsAwaited'
    BY <2>6 DEF LoadingIsAwaited
  <2>7. ASSUME NEW p \in Pages, Reload(p) PROVE LoadingIsAwaited'
    <3>1. PICK s \in Slots : ops[p][s] = None /\ SlotGets(p, s, LoadRules)
      BY <2>7, ReloadStep
    <3>2. None \notin Operation
      BY FilterPageAssumption
    <3>3. LoadIn(LoadRules) /\ ~LoadIn(ops[p][s])
      BY <3>1, <3>2, LoadRulesTyped DEF LoadIn
    <3>4. \A q \in Pages \ {p} : pageState'[q] = pageState[q]
      BY <2>7 DEF Reload, IndInv, TypeOK
    <3> QED
      BY <3>1, <3>3, <3>4, StillAwaited
  <2>8. ASSUME NEW p \in Pages, NEW s \in Slots, Progress(p, s) \/ Lose(p, s) PROVE LoadingIsAwaited'
    BY <2>8, ProgressAwaited
  <2>9. ASSUME NEW p \in Pages, New(p) PROVE LoadingIsAwaited'
    BY <2>6, <2>9 DEF New
  <2>10. ASSUME NEW p \in Pages, NEW id \in Ids, Open(p, id) PROVE LoadingIsAwaited'
    BY <2>6, <2>10 DEF Open
  <2>11. ASSUME NEW p \in Pages, NEW draft \in Drafts, Type(p, draft) PROVE LoadingIsAwaited'
    BY <2>6, <2>11 DEF Type
  <2>12. CASE UNCHANGED vars
    BY <2>6, <2>12 DEF vars
  <2> QED
    BY <2>2, <2>3, <2>4, <2>5, <2>7, <2>8, <2>9, <2>10, <2>11, <2>12 DEF Next
<1> QED
  BY <1>1, <1>2, Invariant, PTL DEF Spec

(***************************************************************************)
(* The editors of FilterRules                                              *)
(***************************************************************************)
LEMMA SettingsIsNoRule == "settings" \notin Ids
<1>1. NewIds \cap (DOMAIN BuiltInRules \cup {"settings"}) = {}
  BY FilterPageAssumption
<1> QED
  BY <1>1, TouchedOrNew, BuiltInKeys DEF BlockedContexts

(* The cases of EditorDefault exclude one another.                           *)
LEMMA DefaultsOfEditors ==
  /\ EditorDefault["settings"] = EditorSettings
  /\ \A id \in Touched : EditorDefault[id] = Columns(BuiltInRules[id])
  /\ \A id \in DOMAIN MadeBefore : EditorDefault[id] = Columns(MadeBefore[id])
<1>1. DOMAIN MadeBefore \subseteq NewIds
  BY FilterPageAssumption
<1> QED
  BY <1>1, SettingsIsNoRule, TouchedOrNew DEF EditorDefault

LEMMA ColumnsOfRule ==
  ASSUME NEW rule \in Rule
  PROVE  /\ Columns(rule) = [f \in EditedColumns |-> IF f = "action" THEN ActionOf[rule[f]] ELSE rule[f]]
         /\ Columns(rule) \in EditorRow /\ Columns(rule) # None
         /\ ~rule.archived => Columns(rule) \in EditorMade
<1>1. DOMAIN rule = RuleFields
  BY RuleColumns
<1>2. EditedColumns \cap RuleFields = EditedColumns
  BY DEF EditedColumns, RuleFields, PatchColumns
<1>3. Columns(rule) = [f \in EditedColumns |-> IF f = "action" THEN ActionOf[rule[f]] ELSE rule[f]]
  BY <1>1, <1>2 DEF Columns
<1> DEFINE q == [action |-> ActionOf[rule.action], severity |-> rule.severity, enabled |-> rule.enabled,
                 archived |-> rule.archived]
<1>4. Columns(rule) = q
  BY <1>3 DEF EditedColumns
<1>5. rule.action \in Actions /\ rule.severity \in Severities /\ rule.enabled \in BOOLEAN /\ rule.archived \in BOOLEAN
  BY DEF Rule
<1>6. ActionOf[rule.action] \in EditorActions
  BY <1>5 DEF Actions, ActionOf, EditorActions
<1>7. q \in EditorRow /\ (~rule.archived => q \in EditorMade)
  BY <1>5, <1>6 DEF EditorRow, EditorMade
<1>8. None \notin EditorRow
  BY EditorAssumption
<1> QED
  BY <1>3, <1>4, <1>7, <1>8

LEMMA ColumnsOverwritten ==
  ASSUME NEW rule \in Rule, NEW patch
  PROVE  Columns(Overwritten(rule, patch)) = Editors!Overwritten(Columns(rule), Columns(patch))
<1>1. DOMAIN rule = RuleFields
  BY RuleColumns
<1>2. EditedColumns \cap RuleFields = EditedColumns
  BY DEF EditedColumns, RuleFields, PatchColumns
<1> DEFINE new == Overwritten(rule, patch)
<1>3. new = [f \in RuleFields |-> IF f \in DOMAIN patch THEN patch[f] ELSE rule[f]]
  BY <1>1 DEF Overwritten
<1>4. Columns(new) = [f \in EditedColumns |-> IF f = "action" THEN ActionOf[new[f]] ELSE new[f]]
  BY <1>2, <1>3 DEF Columns
<1>5. Columns(rule) = [f \in EditedColumns |-> IF f = "action" THEN ActionOf[rule[f]] ELSE rule[f]]
  BY ColumnsOfRule
<1>6. Columns(patch) = [f \in EditedColumns \cap DOMAIN patch |-> IF f = "action" THEN ActionOf[patch[f]] ELSE patch[f]]
  BY DEF Columns
<1>7. Editors!Overwritten(Columns(rule), Columns(patch)) =
        [f \in EditedColumns |-> IF f \in DOMAIN Columns(patch) THEN Columns(patch)[f] ELSE Columns(rule)[f]]
  BY <1>5 DEF Editors!Overwritten
<1>8. ASSUME NEW f \in EditedColumns
      PROVE  Columns(new)[f] = IF f \in DOMAIN Columns(patch) THEN Columns(patch)[f] ELSE Columns(rule)[f]
  <2>1. f \in RuleFields
    BY <1>2
  <2>2. new[f] = IF f \in DOMAIN patch THEN patch[f] ELSE rule[f]
    BY <1>3, <2>1
  <2> HIDE DEF new
  <2> QED
    BY <1>4, <1>5, <1>6, <2>2
<1> HIDE DEF new
<1> QED
  BY <1>4, <1>7, <1>8 DEF new

LEMMA ColumnsDirty ==
  ASSUME NEW seen \in Rule, NEW patch, IsPatch(patch)
  PROVE  Columns(Dirty(seen, patch)) = Editors!Dirty(Columns(seen), Columns(patch))
<1> DEFINE d == Dirty(seen, patch)
           D == {g \in DOMAIN patch : patch[g] # seen[g]}
<1>1. d = [f \in D |-> patch[f]]
  BY DEF Dirty
<1>2. Columns(d) = [f \in EditedColumns \cap D |-> IF f = "action" THEN ActionOf[patch[f]] ELSE patch[f]]
  BY <1>1 DEF Columns
<1>3. Columns(seen) = [f \in EditedColumns |-> IF f = "action" THEN ActionOf[seen[f]] ELSE seen[f]]
  BY ColumnsOfRule
<1>4. Columns(patch) = [f \in EditedColumns \cap DOMAIN patch |-> IF f = "action" THEN ActionOf[patch[f]] ELSE patch[f]]
  BY DEF Columns
<1>5. seen.action \in Actions /\ ("action" \in DOMAIN patch => patch.action \in Actions)
  BY DEF Rule, IsPatch, Column
<1>6. \A a, b \in Actions : ActionOf[a] = ActionOf[b] => a = b
  BY DEF Actions, ActionOf
<1> DEFINE E == {g \in DOMAIN Columns(patch) : Columns(patch)[g] # Columns(seen)[g]}
<1>7. E = EditedColumns \cap D
  <2>1. ASSUME NEW g \in EditedColumns \cap DOMAIN patch
        PROVE  Columns(patch)[g] # Columns(seen)[g] <=> patch[g] # seen[g]
    <3>1. CASE g = "action"
      BY <1>3, <1>4, <1>5, <1>6, <2>1, <3>1
    <3>2. CASE g # "action"
      BY <1>3, <1>4, <2>1, <3>2
    <3> QED
      BY <3>1, <3>2
  <2>2. DOMAIN Columns(patch) = EditedColumns \cap DOMAIN patch
    BY <1>4
  <2> QED
    BY <2>1, <2>2
<1>8. Editors!Dirty(Columns(seen), Columns(patch)) = [f \in E |-> Columns(patch)[f]]
  BY DEF Editors!Dirty
<1> HIDE DEF E, d
<1>9. \A f \in EditedColumns \cap D : Columns(patch)[f] = IF f = "action" THEN ActionOf[patch[f]] ELSE patch[f]
  BY <1>4
<1> QED
  BY <1>2, <1>7, <1>8, <1>9 DEF d

(* A patch of a page is one of the patches that FilterRules lets editors     *)
(* write: it leaves a rule a rule, and unarchives nothing.                   *)
LEMMA PatchesOfEditors ==
  ASSUME NEW patch \in Toggle \cup EditorOverride
  PROVE  /\ "archived" \notin DOMAIN patch
         /\ \A row \in EditorRow :
              DOMAIN patch \subseteq DOMAIN row /\ Editors!Overwritten(row, patch) \in EditorRow
<1> SUFFICES ASSUME NEW row \in EditorRow
             PROVE  /\ "archived" \notin DOMAIN patch /\ DOMAIN patch \subseteq DOMAIN row
                    /\ Editors!Overwritten(row, patch) \in EditorRow
  <2>1. "archived" \notin DOMAIN patch
    BY DEF Toggle, EditorOverride
  <2> QED
    BY <2>1
<1> DEFINE new == Editors!Overwritten(row, patch)
<1>1. DOMAIN row = EditedColumns /\ row.action \in EditorActions /\ row.severity \in Severities
      /\ row.enabled \in BOOLEAN /\ row.archived \in BOOLEAN
  BY DEF EditorRow, EditedColumns
<1>2. /\ DOMAIN patch = {"enabled"} \/ DOMAIN patch = {"action", "severity", "enabled"}
      /\ patch.enabled \in BOOLEAN
      /\ "action" \in DOMAIN patch => patch.action \in EditorActions /\ patch.severity \in Severities
  BY DEF Toggle, EditorOverride
<1>3. new = [f \in EditedColumns |-> IF f \in DOMAIN patch THEN patch[f] ELSE row[f]]
  BY <1>1 DEF Editors!Overwritten
<1> HIDE DEF new
<1>4. new = [action |-> new.action, severity |-> new.severity, enabled |-> new.enabled, archived |-> new.archived]
  BY <1>3 DEF EditedColumns
<1>5. new.action \in EditorActions /\ new.severity \in Severities /\ new.enabled \in BOOLEAN /\ new.archived \in BOOLEAN
  BY <1>1, <1>2, <1>3 DEF EditedColumns
<1>6. new \in EditorRow
  BY <1>4, <1>5 DEF EditorRow
<1> QED
  BY <1>1, <1>2, <1>6 DEF EditedColumns, new

(* What the pages stand for satisfies the assumption of FilterRules, so that *)
(* what is proved of its editors may be said of the pages: built-in rules    *)
(* and rules of administrators are apart, rows and defaults are rows, and    *)
(* the page writes only what a patch may write.                              *)
THEOREM EditorsAssumptionHolds ==
  /\ (DOMAIN Seeded \cap Touched) \cup DOMAIN MadeBefore \subseteq Editors!Ids
  /\ Touched \cap NewIds = {} /\ "settings" \notin Editors!RuleIds
  /\ \A id \in Editors!Ids : EditorDefault[id] \in Editors!RowsOf(id) /\ None \notin Editors!RowsOf(id)
  /\ \A r \in Editors!RuleIds : ~EditorDefault[r].archived
  /\ EditorMade \subseteq {row \in Editors!FilterRule : ~row.archived}
  /\ \A id \in Editors!Ids : \A patch \in EditorPatches[id] : Editors!IsPatch(id, patch)
<1>1. Editors!RuleIds = Ids /\ Editors!Ids = Ids \cup {"settings"} /\ "settings" \notin Ids
  BY SettingsIsNoRule DEF Editors!RuleIds, Editors!Ids, Ids
<1>2. Editors!FilterRule = EditorRow
  <2>1. Editors!Actions = EditorActions
    BY DEF Editors!Actions, EditorActions
  <2>2. Editors!Severities = {"info", "low", "medium", "high", "critical"}
    BY DEF Editors!Severities, Editors!SeverityPriority
  <2>3. Editors!Severities \ {"info"} = Severities
    BY <2>2 DEF Severities
  <2> QED
    BY <2>1, <2>3 DEF Editors!FilterRule, EditorRow
<1>3. ASSUME NEW id \in Ids PROVE Editors!RowsOf(id) = EditorRow
  BY <1>1, <1>2 DEF Editors!RowsOf
<1>4. Editors!RowsOf("settings") = Editors!PolicyActionSettings
  BY DEF Editors!RowsOf
<1>5. ASSUME NEW id \in Ids PROVE EditorDefault[id] \in EditorRow /\ ~EditorDefault[id].archived
  <2>1. CASE id \in Touched
    <3>1. BuiltInRules[id] \in Rule /\ ~BuiltInRules[id].archived
      BY <2>1, BuiltInRulesTyped, TouchedOrNew
    <3>2. EditorDefault[id] = Columns(BuiltInRules[id])
      BY <2>1, DefaultsOfEditors
    <3>3. Columns(BuiltInRules[id]) \in EditorMade
      BY <3>1, ColumnsOfRule
    <3> QED
      BY <3>2, <3>3 DEF EditorMade, EditorRow
  <2>2. CASE id \in DOMAIN MadeBefore
    <3>1. MadeBefore[id] \in Rule /\ ~MadeBefore[id].archived /\ id \in NewIds
      BY <2>2, FilterPageAssumption
    <3>2. EditorDefault[id] = Columns(MadeBefore[id])
      BY <2>2, DefaultsOfEditors
    <3>3. Columns(MadeBefore[id]) \in EditorMade
      BY <3>1, ColumnsOfRule
    <3> QED
      BY <3>2, <3>3 DEF EditorMade, EditorRow
  <2>3. CASE id \notin Touched /\ id \notin DOMAIN MadeBefore
    <3>1. EditorDefault[id] = EditorToBeMade
      BY <1>1, <2>3 DEF EditorDefault
    <3> QED
      BY <3>1 DEF EditorToBeMade, EditorRow, EditorActions, Severities
  <2> QED
    BY <2>1, <2>2, <2>3
<1>6. EditorDefault["settings"] \in Editors!PolicyActionSettings
  BY DefaultsOfEditors DEF EditorSettings, Editors!PolicyActionSettings, Editors!Configurable
<1>7. None \notin EditorRow /\ None \notin Editors!PolicyActionSettings
  BY EditorAssumption
<1>8. \A id \in Editors!Ids : EditorDefault[id] \in Editors!RowsOf(id) /\ None \notin Editors!RowsOf(id)
  BY <1>1, <1>3, <1>4, <1>5, <1>6, <1>7
<1>9. EditorMade \subseteq {row \in Editors!FilterRule : ~row.archived}
  BY <1>2 DEF EditorMade, EditorRow
<1>10. ASSUME NEW id \in Editors!Ids, NEW patch \in EditorPatches[id] PROVE Editors!IsPatch(id, patch)
  <2>1. id \in Ids /\ patch \in Toggle \cup EditorOverride
    BY <1>1, <1>10 DEF EditorPatches
  <2> QED
    BY <1>3, <2>1, PatchesOfEditors DEF Editors!IsPatch
<1>11. DOMAIN MadeBefore \subseteq NewIds /\ Touched \cap NewIds = {}
  BY FilterPageAssumption, TouchedOrNew
<1> QED
  BY <1>1, <1>5, <1>8, <1>9, <1>10, <1>11, TouchedOrNew

(* What a click holds, as an editor of FilterRules holds it.                 *)
EditOf(op) ==
  IF op = None \/ op.pc # "held" THEN None
  ELSE [id |-> op.request.id, patch |-> Columns(PatchOf(op.request)), new |-> op.seen.new, seen |-> Columns(op.seen.row)]

LEMMA EditsOfClicks ==
  /\ EditorEdits = [o \in Pages \X Slots |-> EditOf(ops[o[1]][o[2]])]
  /\ EditorEdits' = [o \in Pages \X Slots |-> EditOf(ops'[o[1]][o[2]])]
  BY DEF EditorEdits, EditOf, At

LEMMA EditsAfter ==
  ASSUME NEW p \in Pages, NEW s \in Slots, NEW op, SlotGets(p, s, op)
  PROVE  EditorEdits' = [EditorEdits EXCEPT ![<<p, s>>] = EditOf(op)]
<1>1. \A o \in Pages \X Slots : ops'[o[1]][o[2]] = IF o = <<p, s>> THEN op ELSE ops[o[1]][o[2]]
  BY DEF SlotGets
<1>2. EditorEdits = [o \in Pages \X Slots |-> EditOf(ops[o[1]][o[2]])]
      /\ EditorEdits' = [o \in Pages \X Slots |-> EditOf(ops'[o[1]][o[2]])]
  BY EditsOfClicks
<1> QED
  BY <1>1, <1>2

LEMMA EditsStay ==
  ASSUME NEW p \in Pages, NEW s \in Slots, NEW op, SlotGets(p, s, op), EditOf(op) = None, EditOf(ops[p][s]) = None
  PROVE  UNCHANGED EditorEdits
<1>1. EditorEdits' = [EditorEdits EXCEPT ![<<p, s>>] = EditOf(op)]
  BY EditsAfter
<1>2. EditorEdits = [o \in Pages \X Slots |-> EditOf(ops[o[1]][o[2]])]
  BY EditsOfClicks
<1> DEFINE E == EditorEdits
<1>3. E[<<p, s>>] = None
  BY <1>2
<1>4. E = [o \in Pages \X Slots |-> E[o]]
  BY <1>2
<1> HIDE DEF E
<1>5. [E EXCEPT ![<<p, s>>] = None] = E
  BY <1>3, <1>4
<1> QED
  BY <1>1, <1>5 DEF E

LEMMA RowsOfEditors ==
  ASSUME TypeOK
  PROVE  /\ EditorRows = [id \in Ids \cup {"settings"} |-> IF id = "settings" THEN None
                                                        ELSE IF rows[id] = None THEN None ELSE Columns(rows[id])]
         /\ \A id \in Ids : EditorRows[id] = None <=> rows[id] = None
         /\ \A id \in Ids : rows[id] # None => EditorRows[id] = Columns(rows[id])
<1>1. DOMAIN rows = Ids
  BY DEF TypeOK
<1>2. EditorRows = [id \in Ids \cup {"settings"} |-> IF id = "settings" THEN None
                                                  ELSE IF rows[id] = None THEN None ELSE Columns(rows[id])]
  BY <1>1 DEF EditorRows, Exists
<1>3. \A id \in Ids : rows[id] # None => Columns(rows[id]) # None
  BY TypesOf, ColumnsOfRule
<1> QED
  BY <1>2, <1>3, SettingsIsNoRule

LEMMA RowOfEditorsWritten ==
  ASSUME TypeOK, NEW id \in Ids, NEW rule \in Rule, rows' = [rows EXCEPT ![id] = rule]
  PROVE  EditorRows' = [EditorRows EXCEPT ![id] = Columns(rule)]
<1>1. EditorRows = [i \in Ids \cup {"settings"} |-> IF i = "settings" THEN None
                                                 ELSE IF rows[i] = None THEN None ELSE Columns(rows[i])]
  BY RowsOfEditors
<1>2. DOMAIN rows = Ids
  BY DEF TypeOK
<1>3. EditorRows' = [i \in Ids \cup {"settings"} |-> IF i = "settings" THEN None
                                                  ELSE IF rows'[i] = None THEN None ELSE Columns(rows'[i])]
  BY <1>2 DEF EditorRows, Exists
<1>4. None \notin Rule
  BY FilterPageAssumption
<1>5. rule # None
  BY <1>4
<1>6. \A i \in Ids : rows'[i] = IF i = id THEN rule ELSE rows[i]
  BY <1>2
<1> QED
  BY <1>1, <1>3, <1>5, <1>6, SettingsIsNoRule

LEMMA AdvanceIsQuiet ==
  ASSUME TypeOK, NEW p \in Pages, NEW s \in Slots, NEW pc, Advanced(p, s, pc), pc # "held", ops[p][s].pc # "held"
  PROVE  UNCHANGED EditorEdits
<1> DEFINE op == ops'[p][s]
<1>1. SlotGets(p, s, op) /\ EditOf(op) = None /\ EditOf(ops[p][s]) = None
  BY DEF Advanced, EditOf
<1> HIDE DEF op
<1> QED
  BY <1>1, EditsStay

(* What a click writes, as an editor writes it.                              *)
LEMMA PatchOfEditors ==
  ASSUME NEW rs, RowsFit(rs), \A id \in Ids : rs[id] # None => rs[id] \in Rule,
         NEW r \in Request, RequestFits(rs, r), r.do \in {"update", "archive"}
  PROVE  /\ r.do = "update" => Columns(PatchOf(r)) \in Toggle \cup EditorOverride
         /\ r.do = "archive" => Columns(PatchOf(r)) = ArchivePatch
         /\ Columns(PatchOf(r)) \in Toggle \cup EditorOverride \cup EditorArchive
<1> DEFINE edited == Columns(PatchOf(r))
<1>1. ASSUME r.do = "archive" PROVE edited = ArchivePatch
  BY <1>1 DEF PatchOf, Columns, ArchivePatch, EditedColumns
<1>2. ArchivePatch \in EditorArchive
  BY DEF ArchivePatch, EditorArchive
<1>3. ASSUME r.do = "update", r.kind = "toggle" PROVE edited \in Toggle
  <2>1. r.body \in Toggle /\ PatchOf(r) = r.body
    BY <1>3 DEF RequestFits, PatchOf
  <2> QED
    BY <2>1 DEF Toggle, Columns, EditedColumns
<1>4. ASSUME r.do = "update", r.kind # "toggle" PROVE edited \in EditorOverride
  <2>1. r.id \in Ids /\ PatchOf(r) = r.body
    BY <1>4 DEF RequestFits, PatchOf
  <2>2. r.body \in Override \cup KeywordBody \cup PatternBody \cup ContextBody
    <3>1. r.id \in Touched => r.body \in Override
      BY <1>4 DEF RequestFits
    <3>2. r.id \notin Touched => r.id \in NewIds /\ rs[r.id] # None /\ rs[r.id].kind = r.kind /\ PlanOK(r.kind, r.body)
      BY <1>4, <2>1, TouchedOrNew DEF RequestFits, KindIs
    <3>3. r.id \notin Touched => r.kind \in CustomKinds
      BY <2>1, <3>2 DEF RowsFit
    <3> QED
      BY <3>1, <3>2, <3>3 DEF PlanOK, CustomKinds
  <2>3. /\ "archived" \notin DOMAIN r.body /\ {"action", "severity", "enabled"} \subseteq DOMAIN r.body
        /\ r.body.action \in Actions /\ r.body.severity \in Severities /\ r.body.enabled \in BOOLEAN
    BY <2>2 DEF Override, KeywordBody, PatternBody, ContextBody
  <2>4. EditedColumns \cap DOMAIN r.body = {"action", "severity", "enabled"}
    BY <2>3 DEF EditedColumns
  <2>5. edited = [f \in {"action", "severity", "enabled"} |-> IF f = "action" THEN ActionOf[r.body[f]] ELSE r.body[f]]
    BY <2>1, <2>4 DEF Columns
  <2>6. edited = [action |-> ActionOf[r.body.action], severity |-> r.body.severity, enabled |-> r.body.enabled]
    BY <2>5
  <2>7. ActionOf[r.body.action] \in EditorActions
    BY <2>3 DEF Actions, ActionOf, EditorActions
  <2> QED
    BY <2>3, <2>6, <2>7 DEF EditorOverride
<1> QED
  BY <1>1, <1>2, <1>3, <1>4

(* A handler that reads a row is an editor that does.                        *)
LEMMA ReadRowIsRead ==
  ASSUME IndInv, NEW p \in Pages, NEW s \in Slots, ReadRow(p, s)
  PROVE  Editors!ReadRule(<<p, s>>) \/ Editors!ReadForArchive(<<p, s>>)
<1> DEFINE r == ops[p][s].request
           op == ops'[p][s]
           edited == Columns(PatchOf(r))
<1>1. /\ Advanced(p, s, "held") /\ op.seen.new = ~Exists(r.id)
      /\ op.seen.row = IF Exists(r.id) THEN rows[r.id] ELSE BuiltInRules[r.id]
  BY ReadRowStep
<1>2. ops[p][s].pc = "sent" /\ r.do \in {"update", "archive"} /\ UNCHANGED rows
  BY DEF ReadRow, At
<1>3. ops[p][s] \in Operation /\ r \in Request /\ RequestFits(rows, r)
  BY <1>1, OperationParts DEF Advanced, IndInv, PageFits, OperationFits
<1>4. r.id \in Ids /\ (rows[r.id] = None => r.id \in Touched)
  BY <1>2, <1>3, RequestedPatch, TypesOf DEF IndInv
<1>5. EditorRows[r.id] = None <=> rows[r.id] = None
  BY <1>4, RowsOfEditors DEF IndInv
<1>6. rows[r.id] # None => EditorRows[r.id] = Columns(rows[r.id])
  BY <1>4, RowsOfEditors DEF IndInv
<1>7. rows[r.id] = None => EditorDefault[r.id] = Columns(BuiltInRules[r.id])
  BY <1>4, DefaultsOfEditors
<1>8. Columns(op.seen.row) = IF EditorRows[r.id] = None THEN EditorDefault[r.id] ELSE EditorRows[r.id]
  BY <1>1, <1>5, <1>6, <1>7 DEF Exists
<1>9. op.seen.new = (EditorRows[r.id] = None)
  BY <1>1, <1>5 DEF Exists
<1>10. SlotGets(p, s, op) /\ op # None /\ op.pc = "held" /\ op.request = r
  BY <1>1, OperationParts DEF Advanced
<1>11. EditOf(op) = [id |-> r.id, patch |-> edited, new |-> op.seen.new, seen |-> Columns(op.seen.row)]
  BY <1>10 DEF EditOf
<1>12. EditorEdits' = [EditorEdits EXCEPT ![<<p, s>>] = EditOf(op)]
  BY <1>10, EditsAfter
<1>13. EditorEdits[<<p, s>>] = None
  BY <1>2, EditsOfClicks DEF EditOf
<1>14. UNCHANGED EditorRows
  BY <1>2 DEF EditorRows, Exists
<1>15. EditorRows[r.id] # None \/ r.id \notin NewIds
  BY <1>4, <1>5, TouchedOrNew
<1> HIDE DEF edited, op
<1>16. Editors!Read(<<p, s>>, r.id, edited)
  BY <1>8, <1>9, <1>11, <1>12, <1>13, <1>14, <1>15 DEF Editors!Read
<1>17. CASE r.do = "archive"
  <2>1. r.id \in NewIds
    BY <1>3, <1>17 DEF RequestFits
  <2>2. edited = Editors!Archive
    BY <1>3, <1>17, PatchOfEditors, TypesOf DEF Editors!Archive, ArchivePatch, edited, IndInv
  <2> QED
    BY <1>16, <2>1, <2>2 DEF Editors!ReadForArchive
<1>18. CASE r.do = "update"
  <2>1. edited \in Toggle \cup EditorOverride
    BY <1>3, <1>18, PatchOfEditors, TypesOf DEF edited, IndInv
  <2>2. edited \in EditorPatches[r.id]
    BY <1>4, <2>1, SettingsIsNoRule DEF EditorPatches
  <2>3. r.id \in Editors!RuleIds
    BY <1>4 DEF Editors!RuleIds, Ids
  <2> QED
    BY <1>16, <2>2, <2>3 DEF Editors!ReadRule
<1> QED
  BY <1>2, <1>17, <1>18

LEMMA CreateRuleIsCreate ==
  ASSUME IndInv, NEW p \in Pages, NEW s \in Slots, CreateRule(p, s)
  PROVE  \E c \in NewIds : Editors!Create(c)
<1> DEFINE r == ops[p][s].request
           rule == RuleFromCreate(r.kind, r.body)
<1>1. r.do = "create" /\ ~Refused(p, s) /\ ops[p][s].pc = "sent" /\ ops[p][s] # None
  BY DEF CreateRule, At
<1>2. r.kind \in CustomKinds /\ PlanOK(r.kind, r.body) /\ CreateOK(r.kind, r.body)
  BY <1>1 DEF IndInv, PageFits, OperationFits, RequestFits, Refused
<1>3. rule \in Rule /\ ~rule.archived
  BY <1>2, CreatedRule
<1>4. PICK c \in NewIds : ~Exists(c) /\ rows' = [rows EXCEPT ![c] = rule]
  BY DEF CreateRule
<1> HIDE DEF rule
<1>5. c \in Ids /\ rows[c] = None
  BY <1>4, TouchedOrNew DEF Exists
<1>6. EditorRows[c] = None
  BY <1>5, RowsOfEditors DEF IndInv
<1>7. EditorRows' = [EditorRows EXCEPT ![c] = Columns(rule)]
  BY <1>3, <1>4, <1>5, RowOfEditorsWritten DEF IndInv
<1>8. Columns(rule) \in EditorMade
  BY <1>3, ColumnsOfRule
<1>9. UNCHANGED EditorEdits
  BY <1>1, CreateRuleStep, AdvanceIsQuiet DEF IndInv
<1> QED
  BY <1>6, <1>7, <1>8, <1>9 DEF Editors!Create

LEMMA CommitIsSave ==
  ASSUME IndInv, NEW p \in Pages, NEW s \in Slots, Commit(p, s)
  PROVE  Editors!Save(<<p, s>>)
<1> DEFINE op == ops[p][s]
           r == op.request
           patch == PatchOf(r)
           clash == op.seen.new /\ Exists(r.id)
           e == EditorEdits[<<p, s>>]
<1>1. /\ op # None /\ op.pc = "held"
      /\ rows' = IF clash THEN rows
                 ELSE [rows EXCEPT ![r.id] = IF op.seen.new THEN Overwritten(op.seen.row, patch)
                                             ELSE Overwritten(rows[r.id], Dirty(op.seen.row, patch))]
  BY DEF Commit, At
<1>2. op \in Operation /\ HeldFits(rows, op) /\ RequestFits(rows, r) /\ r \in Request
  BY <1>1, TypesOf, OperationParts DEF IndInv, PageFits, OperationFits
<1>3. /\ r.do \in {"update", "archive"} /\ op.seen.new \in BOOLEAN /\ op.seen.row \in Rule
      /\ op.seen.new => r.id \in Touched /\ op.seen.row = BuiltInRules[r.id]
      /\ ~op.seen.new => rows[r.id] # None
  BY <1>2 DEF HeldFits, Held
<1>4. r.id \in Ids /\ IsPatch(patch)
  BY <1>2, <1>3, RequestedPatch, TypesOf DEF IndInv
<1>5. e = [id |-> r.id, patch |-> Columns(patch), new |-> op.seen.new, seen |-> Columns(op.seen.row)]
  BY <1>1, EditsOfClicks DEF EditOf
<1>6. EditorEdits' = [EditorEdits EXCEPT ![<<p, s>>] = None]
  <2> DEFINE after == ops'[p][s]
  <2>1. SlotGets(p, s, after) /\ EditOf(after) = None
    BY CommitStep DEF Advanced, EditOf
  <2> HIDE DEF after
  <2> QED
    BY <2>1, EditsAfter
<1>7. EditorRows[r.id] = None <=> rows[r.id] = None
  BY <1>4, RowsOfEditors DEF IndInv
<1>8. clash <=> e.new /\ EditorRows[r.id] # None
  BY <1>5, <1>7 DEF Exists
<1>9. e # None
  <2> DEFINE edits == [id: Ids, patch: Toggle \cup EditorOverride \cup EditorArchive, new: BOOLEAN, seen: EditorRow]
  <2>1. Columns(patch) \in Toggle \cup EditorOverride \cup EditorArchive
    BY <1>2, <1>3, PatchOfEditors, TypesOf DEF IndInv
  <2>2. Columns(op.seen.row) \in EditorRow
    BY <1>3, ColumnsOfRule
  <2>3. e \in edits
    BY <1>3, <1>4, <1>5, <2>1, <2>2
  <2>4. None \notin edits
    BY EditorAssumption
  <2> QED
    BY <2>3, <2>4
<1> HIDE DEF patch
<1>10. EditorRows' = IF clash THEN EditorRows
                     ELSE [EditorRows EXCEPT ![r.id] = IF e.new THEN Editors!Overwritten(e.seen, e.patch)
                                                       ELSE Editors!Overwritten(EditorRows[r.id], Editors!Dirty(e.seen, e.patch))]
  <2>1. CASE clash
    BY <1>1, <2>1 DEF EditorRows, Exists
  <2>2. CASE ~clash /\ op.seen.new
    <3> DEFINE rule == Overwritten(op.seen.row, patch)
    <3>1. rule \in Rule
      BY <1>3, <1>4, OverwrittenRule DEF IsPatch
    <3>2. rows' = [rows EXCEPT ![r.id] = rule]
      BY <1>1, <2>2
    <3>3. Columns(rule) = Editors!Overwritten(e.seen, e.patch)
      BY <1>3, <1>5, ColumnsOverwritten
    <3> HIDE DEF rule
    <3>4. EditorRows' = [EditorRows EXCEPT ![r.id] = Columns(rule)]
      BY <1>4, <3>1, <3>2, RowOfEditorsWritten DEF IndInv
    <3> HIDE DEF clash, e
    <3>5. e.new
      BY <1>5, <2>2
    <3> QED
      BY <2>2, <3>3, <3>4, <3>5
  <2>3. CASE ~op.seen.new
    <3> DEFINE written == Dirty(op.seen.row, patch)
               rule == Overwritten(rows[r.id], written)
    <3>1. rows[r.id] # None /\ rows[r.id] \in Rule
      BY <1>3, <1>4, <2>3, TypesOf DEF IndInv
    <3>2. \A c \in DOMAIN written : c \in DOMAIN patch /\ written[c] = patch[c]
      BY DirtyPatch
    <3>3. Columns(written) = Editors!Dirty(e.seen, e.patch)
      BY <1>3, <1>4, <1>5, ColumnsDirty
    <3>4. rows' = [rows EXCEPT ![r.id] = rule]
      BY <1>1, <2>3
    <3> HIDE DEF written
    <3>5. \A c \in DOMAIN written : c \in PatchColumns /\ written[c] \in Column[c]
      BY <1>4, <3>2 DEF IsPatch
    <3>6. rule \in Rule
      BY <3>1, <3>5, OverwrittenRule
    <3>7. EditorRows[r.id] = Columns(rows[r.id])
      BY <1>4, <3>1, RowsOfEditors DEF IndInv
    <3>8. Columns(rule) = Editors!Overwritten(EditorRows[r.id], Editors!Dirty(e.seen, e.patch))
      BY <3>1, <3>3, <3>7, ColumnsOverwritten
    <3> HIDE DEF rule
    <3>9. EditorRows' = [EditorRows EXCEPT ![r.id] = Columns(rule)]
      BY <1>4, <3>4, <3>6, RowOfEditorsWritten DEF IndInv
    <3> HIDE DEF clash, e
    <3>10. ~e.new /\ ~clash
      BY <1>5, <1>8, <2>3
    <3> QED
      BY <3>8, <3>9, <3>10
  <2> QED
    BY <1>3, <2>1, <2>2, <2>3
<1> HIDE DEF clash, e
<1>11. e.id = r.id
  BY <1>5
<1> QED
  BY <1>6, <1>8, <1>9, <1>10, <1>11 DEF Editors!Save, e

LEMMA InitIsEditorsInit == Init => Editors!AdminInit
<1> SUFFICES ASSUME Init PROVE Editors!AdminInit
  OBVIOUS
<1>1. IndInv
  BY InitFits
<1>2. MadeBefore # None /\ DOMAIN MadeBefore \subseteq NewIds
  BY FilterPageAssumption
<1> DEFINE there == (DOMAIN Seeded \cap Touched) \cup DOMAIN MadeBefore
<1>3. NewIds \cap DOMAIN Seeded = {}
  <2>1. NewIds \cap DOMAIN BuiltInRules = {}
    BY FilterPageAssumption
  <2> QED
    BY <2>1, SeededIsBuiltIn
<1>4. None \notin Rule
  BY FilterPageAssumption
<1>5. ASSUME NEW id \in Ids
      PROVE  (IF rows[id] = None THEN None ELSE Columns(rows[id])) = IF id \in there THEN EditorDefault[id] ELSE None
  <2>1. rows[id] = IF id \in DOMAIN Seeded THEN Seeded[id] ELSE Field(MadeBefore, id, None)
    BY DEF Init
  <2>2. CASE id \in DOMAIN Seeded
    <3>1. id \in Touched /\ id \in there
      BY <1>3, <2>2, TouchedOrNew
    <3>2. rows[id] = BuiltInRules[id] /\ BuiltInRules[id] \in Rule
      BY <2>1, <2>2, SeededIsBuiltIn, BuiltInRulesTyped
    <3>3. EditorDefault[id] = Columns(BuiltInRules[id])
      BY <3>1, DefaultsOfEditors
    <3> QED
      BY <1>4, <3>1, <3>2, <3>3
  <2>3. CASE id \in DOMAIN MadeBefore
    <3>1. id \notin Touched /\ id \notin DOMAIN Seeded /\ id \in there
      BY <1>2, <1>3, <2>3, TouchedOrNew
    <3>2. MadeBefore[id] \in Rule
      BY <2>3, FilterPageAssumption
    <3>3. rows[id] = MadeBefore[id]
      BY <1>2, <2>1, <2>3, <3>1 DEF Field
    <3>4. EditorDefault[id] = Columns(MadeBefore[id])
      BY <2>3, DefaultsOfEditors
    <3> QED
      BY <1>4, <3>1, <3>2, <3>3, <3>4
  <2>4. CASE id \notin DOMAIN Seeded /\ id \notin DOMAIN MadeBefore
    BY <2>1, <2>4 DEF Field
  <2> QED
    BY <2>2, <2>3, <2>4
<1>6. EditorRows = [id \in Ids \cup {"settings"} |-> IF id = "settings" THEN None
                                                  ELSE IF rows[id] = None THEN None ELSE Columns(rows[id])]
  BY <1>1, RowsOfEditors DEF IndInv
<1>7. Editors!Ids = Ids \cup {"settings"}
  BY DEF Editors!Ids, Editors!RuleIds, Ids
<1>8. "settings" \notin there
  BY <1>2, SettingsIsNoRule, TouchedOrNew
<1> HIDE DEF there
<1>9. EditorRows = [id \in Editors!Ids |-> IF id \in there THEN EditorDefault[id] ELSE None]
  BY <1>5, <1>6, <1>7, <1>8
<1>10. EditorEdits = [e \in Pages \X Slots |-> None]
  <2>1. \A p \in Pages, s \in Slots : ops[p][s] # None => ops[p][s] = LoadRules
    BY DEF Init
  <2>2. \A p \in Pages, s \in Slots : EditOf(ops[p][s]) = None
    BY <2>1, LoadRulesTyped DEF EditOf
  <2> QED
    BY <2>2, EditsOfClicks
<1> QED
  BY <1>9, <1>10 DEF Editors!AdminInit, there

LEMMA StepOfEditors ==
  IndInv /\ [Next]_vars => UNCHANGED <<rows, EditorEdits>> \/ Editors!AdminNext
<1> SUFFICES ASSUME IndInv, [Next]_vars PROVE UNCHANGED <<rows, EditorEdits>> \/ Editors!AdminNext
  OBVIOUS
<1> DEFINE Quiet == UNCHANGED <<rows, EditorEdits>>
<1>0. TypeOK
  BY DEF IndInv
<1>1. ASSUME NEW p \in Pages, Starts(p), UNCHANGED rows PROVE Quiet
  <2>1. PICK s \in Slots : ops[p][s] = None /\ SlotGets(p, s, ops'[p][s]) /\ ops'[p][s].pc = "token"
    BY <1>1 DEF Starts
  <2> DEFINE op == ops'[p][s]
  <2>2. SlotGets(p, s, op) /\ EditOf(op) = None /\ EditOf(ops[p][s]) = None
    BY <2>1 DEF EditOf
  <2> HIDE DEF op
  <2> QED
    BY <1>1, <2>2, EditsStay
<1>2. ASSUME UNCHANGED <<rows, ops>> PROVE Quiet
  BY <1>2, EditsOfClicks
<1>3. ASSUME NEW p \in Pages, NEW s \in Slots, NEW op \in {None, LoadRules}, SlotGets(p, s, op),
             ops[p][s] = None \/ ops[p][s].pc # "held", UNCHANGED rows
      PROVE  Quiet
  <2>1. EditOf(op) = None /\ EditOf(ops[p][s]) = None
    BY <1>3, LoadRulesTyped DEF EditOf
  <2> QED
    BY <1>3, <2>1, EditsStay
<1>4. ASSUME NEW p \in Pages, NEW s \in Slots, NEW pc \in {"sent", "answered"}, Advanced(p, s, pc),
             ops[p][s].pc # "held", UNCHANGED rows
      PROVE  Quiet
  BY <1>0, <1>4, AdvanceIsQuiet
<1> HIDE DEF Quiet
<1>5. ASSUME NEW p \in Pages, Save(p) PROVE Quiet
  BY <1>1, <1>5, SaveStep DEF Save, Start
<1>6. ASSUME NEW p \in Pages, NEW id \in Ids, table[p][id] # None, SetEnabled(p, id) PROVE Quiet
  BY <1>1, <1>6, SetEnabledStep DEF SetEnabled, Start
<1>7. ASSUME NEW p \in Pages, NEW id \in Ids, table[p][id] # None, Archive(p, id) PROVE Quiet
  BY <1>1, <1>7, ArchiveStep DEF Archive, Start
<1>8. ASSUME NEW p \in Pages, NEW text \in Samples, DryRun(p, text) PROVE Quiet
  BY <1>1, <1>8, DryRunStep DEF DryRun, Start
<1>9. ASSUME NEW p \in Pages, New(p) PROVE Quiet
  BY <1>2, <1>9 DEF New
<1>10. ASSUME NEW p \in Pages, NEW id \in Ids, Open(p, id) PROVE Quiet
  BY <1>2, <1>10 DEF Open
<1>11. ASSUME NEW p \in Pages, NEW draft \in Drafts, Type(p, draft) PROVE Quiet
  BY <1>2, <1>11 DEF Type
<1>12. ASSUME NEW p \in Pages, Reload(p) PROVE Quiet
  BY <1>3, <1>12, ReloadStep DEF Reload
<1>13. ASSUME NEW p \in Pages, NEW s \in Slots, Progress(p, s) \/ Lose(p, s) PROVE Quiet \/ Editors!AdminNext
  <2>1. CASE GiveToken(p, s)
    BY <1>4, <2>1, GiveTokenStep DEF GiveToken, At
  <2>2. CASE ListRules(p, s)
    BY <1>4, <2>2, ListRulesStep DEF ListRules, At
  <2>3. CASE Refuse(p, s) \/ Lose(p, s)
    BY <1>4, <2>3, RefuseStep DEF Refuse, Lose, At
  <2>4. CASE TryRule(p, s)
    BY <1>4, <2>4, TryRuleStep DEF TryRule, At
  <2>5. CASE RulesArrive(p, s)
    BY <1>3, <2>5, RulesArriveStep DEF RulesArrive, At
  <2>6. CASE Saved(p, s)
    BY <1>3, <2>6, SavedStep DEF Saved, At
  <2>7. CASE Failed(p, s) \/ Tried(p, s)
    BY <1>3, <2>7, FailedStep, TriedStep DEF Failed, Tried, At
  <2>8. <<p, s>> \in Pages \X Slots
    OBVIOUS
  <2>9. CASE ReadRow(p, s)
    BY <2>8, <2>9, ReadRowIsRead DEF Editors!AdminNext
  <2>10. CASE CreateRule(p, s)
    BY <2>10, CreateRuleIsCreate DEF Editors!AdminNext
  <2>11. CASE Commit(p, s)
    BY <2>8, <2>11, CommitIsSave DEF Editors!AdminNext
  <2> QED
    BY <1>13, <2>1, <2>2, <2>3, <2>4, <2>5, <2>6, <2>7, <2>9, <2>10, <2>11 DEF Progress
<1>14. ASSUME UNCHANGED vars PROVE Quiet
  BY <1>2, <1>14 DEF vars
<1>15. Quiet \/ Editors!AdminNext
  BY <1>5, <1>6, <1>7, <1>8, <1>9, <1>10, <1>11, <1>12, <1>13, <1>14 DEF Next
<1> QED
  BY <1>15 DEF Quiet

(* Whatever clicks overlap and whichever answers are lost, the rows change   *)
(* as the editors of FilterRules change them: every step of a page is one of *)
(* an editor, or changes neither a row nor what a handler holds.             *)
THEOREM PagesImplementEditors == Spec => ImplementsEditors
<1> QED
  BY InitIsEditorsInit, StepOfEditors, Invariant, PTL DEF Spec, ImplementsEditors
===============================================================================
