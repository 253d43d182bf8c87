------------------------ MODULE AnalyzeRequestProofs ------------------------
(***************************************************************************)
(* Proofs about PolicyDecision, FilterRules and AnalyzeRequest: the        *)
(* policy, the rows of the rules, and POST /prompts/analyze beside the     *)
(* administrators.                                                         *)
(*                                                                         *)
(* The last part has two arguments of its own.  An event belongs to a      *)
(* request that has ended, so what a request finds stored while it is      *)
(* under way was stored by another one.  And what a request holds is well  *)
(* formed because the rows it was read from are, so that the promises of   *)
(* the policy apply to it.                                                 *)
(***************************************************************************)
EXTENDS AnalyzeRequest, WellFoundedInduction, FiniteSetTheorems, TLAPS

(***************************************************************************)
(* What PolicyOrchestrator.decide promises for any request: the answer is  *)
(* an action, no candidate is stronger than it except a mask that cannot   *)
(* be applied, and a context risk is answered as the settings say.         *)
(*                                                                         *)
(* The argument rests on the rank of a rule, which orders actions first:   *)
(* ranks are bounded, so some candidate has the highest one, and CHOOSE    *)
(* finds it.                                                               *)
(***************************************************************************)

LEMMA RankType ==
  ASSUME NEW rule \in Rule PROVE Rank(rule) \in 0 .. 59
<1>1. ActionPriority[rule.action] \in 0 .. 3
  BY DEF Rule, Actions, ActionPriority
<1>2. SeverityPriority[rule.severity] \in 0 .. 4
  BY DEF Rule, Severities, SeverityPriority
<1>3. [filter |-> 2, context |-> 1, failure |-> 0][rule.basis] \in 0 .. 2
  BY DEF Rule, Bases
<1> QED BY <1>1, <1>2, <1>3 DEF Rank

\* The rank of a rule compares actions before everything else.
LEMMA RankOrdersActions ==
  ASSUME NEW weak \in Rule, NEW strong \in Rule, Rank(weak) <= Rank(strong)
  PROVE  ActionPriority[weak.action] <= ActionPriority[strong.action]
<1>1. ActionPriority[weak.action] \in 0 .. 3 /\ ActionPriority[strong.action] \in 0 .. 3
  BY DEF Rule, Actions, ActionPriority
<1>2. SeverityPriority[weak.severity] \in 0 .. 4 /\ SeverityPriority[strong.severity] \in 0 .. 4
  BY DEF Rule, Severities, SeverityPriority
<1>3. /\ [filter |-> 2, context |-> 1, failure |-> 0][weak.basis] \in 0 .. 2
      /\ [filter |-> 2, context |-> 1, failure |-> 0][strong.basis] \in 0 .. 2
  BY DEF Rule, Bases
<1> QED BY <1>1, <1>2, <1>3 DEF Rank

LEMMA LeastNatural ==
  ASSUME NEW T, T \subseteq Nat, T # {}
  PROVE  \E least \in T : \A n \in T : least <= n
<1>1. PICK x \in T : \A y \in T : <<y, x>> \notin OpToRel(<, Nat)
  BY WFMin, NatLessThanWellFounded
<1>2. \A y \in T : ~(y < x)
  BY <1>1 DEF OpToRel
<1> QED BY <1>2

LEMMA StrongestExists ==
  ASSUME NEW rules, rules \subseteq Rule, rules # {}
  PROVE  /\ HighestPriority(rules) \in rules
         /\ \A other \in rules : Rank(other) <= Rank(HighestPriority(rules))
<1> DEFINE T == {59 - Rank(rule) : rule \in rules}
<1>1. T \subseteq Nat /\ T # {}
  BY RankType
<1>2. PICK least \in T : \A n \in T : least <= n
  <2> HIDE DEF T
  <2> QED BY <1>1, LeastNatural
<1>3. PICK rule \in rules : least = 59 - Rank(rule)
  BY <1>2
<1>4. \A other \in rules : Rank(other) <= Rank(rule)
  <2> TAKE other \in rules
  <2>1. least <= 59 - Rank(other)
    BY <1>2
  <2>2. Rank(other) \in 0 .. 59 /\ Rank(rule) \in 0 .. 59
    BY RankType
  <2> QED BY <1>3, <2>1, <2>2
<1> QED BY <1>3, <1>4 DEF HighestPriority

\* The part of a request that the decision relies on.
RequestOK(request) == request.rules \subseteq Rule /\ request.settings \in PolicyActionSettings

LEMMA SettingActions ==
  ASSUME NEW settings \in PolicyActionSettings
  PROVE  /\ settings.context_classifier_action \in Configurable
         /\ settings.content_not_scanned_action \in Configurable
         /\ settings.parser_or_ocr_failure_action \in Configurable
         /\ settings.empty_input_action \in Configurable
         /\ settings.unsupported_mask_fallback_action \in {"warn", "block"}
BY DEF PolicyActionSettings

LEMMA ConfiguredRuleType ==
  ASSUME NEW action \in Configurable
  PROVE  ConfiguredRule(action) \in Rule /\ ConfiguredRule(action).action = action
<1>1. SeverityForAction(action) \in Severities
  BY DEF SeverityForAction, Severities, SeverityPriority, Configurable
<1> QED BY <1>1 DEF ConfiguredRule, Rule, Configurable, Actions, Bases

LEMMA CandidatesAreRules ==
  ASSUME NEW request, RequestOK(request) PROVE Candidates(request) \subseteq Rule
BY SettingActions, ConfiguredRuleType DEF Candidates, FailureRules, RequestOK

\* The highest candidate decides; it gives way to the fallback when its mask
\* cannot be applied, and to the context risk when it would allow.
LEMMA SelectedDecides ==
  ASSUME NEW request, RequestOK(request), Candidates(request) # {}
  PROVE  \E selected \in Candidates(request) :
           /\ \A rule \in Candidates(request) : ActionPriority[rule.action] <= ActionPriority[selected.action]
           /\ Decide(request).action =
                CASE selected.action = "mask" /\ MaskUnsupported(request) ->
                       request.settings.unsupported_mask_fallback_action
                  [] selected.action = "allow" /\ ContextSignal(request.context) ->
                       request.settings.context_classifier_action
                  [] OTHER -> selected.action
<1> DEFINE selected == HighestPriority(Candidates(request))
<1>1. Candidates(request) \subseteq Rule
  BY CandidatesAreRules
<1>2. selected \in Candidates(request) /\ \A rule \in Candidates(request) : Rank(rule) <= Rank(selected)
  BY <1>1, StrongestExists
<1>3. Decide(request) = DecisionForRule(selected, request)
  BY DEF Decide
<1> HIDE DEF selected
<1>4. \A rule \in Candidates(request) : ActionPriority[rule.action] <= ActionPriority[selected.action]
  BY <1>1, <1>2, RankOrdersActions
<1>5. DecisionForRule(selected, request).action =
        CASE selected.action = "mask" /\ MaskUnsupported(request) ->
               request.settings.unsupported_mask_fallback_action
          [] selected.action = "allow" /\ ContextSignal(request.context) ->
               request.settings.context_classifier_action
          [] OTHER -> selected.action
  BY DEF DecisionForRule, ContextDecision
<1> QED BY <1>2, <1>3, <1>4, <1>5

\* The answer of the policy is one of the four actions.
THEOREM DecisionIsAction ==
  ASSUME NEW request, RequestOK(request) PROVE Decide(request).action \in Actions
<1>1. CASE Candidates(request) # {}
  <2>1. Candidates(request) \subseteq Rule
    BY CandidatesAreRules
  <2>2. \A rule \in Candidates(request) : rule.action \in Actions
    BY <2>1 DEF Rule
  <2>3. /\ request.settings.unsupported_mask_fallback_action \in Actions
        /\ request.settings.context_classifier_action \in Actions
    BY SettingActions DEF RequestOK, Actions, Configurable
  <2> QED BY <1>1, <2>2, <2>3, SelectedDecides
<1>2. CASE Candidates(request) = {}
  <2>1. Decide(request) = MlOrAllowDecision(request)
    BY <1>2 DEF Decide
  <2>2. /\ request.settings.empty_input_action \in Actions
        /\ request.settings.context_classifier_action \in Actions
    BY SettingActions DEF RequestOK, Actions, Configurable
  <2> QED BY <2>1, <2>2 DEF MlOrAllowDecision, ContextDecision, Actions
<1> QED BY <1>1, <1>2

\* The decision is at least as strong as every rule that matched and every
\* failure setting that applies; only a mask that cannot be applied gives way,
\* and only to its configured fallback.
THEOREM DecisionDominates ==
  ASSUME NEW request, RequestOK(request), NEW rule \in Candidates(request)
  PROVE  \/ ActionPriority[rule.action] <= ActionPriority[Decide(request).action]
         \/ /\ rule.action = "mask" /\ MaskUnsupported(request)
            /\ Decide(request).action = request.settings.unsupported_mask_fallback_action
<1>1. PICK selected \in Candidates(request) :
        /\ ActionPriority[rule.action] <= ActionPriority[selected.action]
        /\ Decide(request).action =
             CASE selected.action = "mask" /\ MaskUnsupported(request) ->
                    request.settings.unsupported_mask_fallback_action
               [] selected.action = "allow" /\ ContextSignal(request.context) ->
                    request.settings.context_classifier_action
               [] OTHER -> selected.action
  BY SelectedDecides
<1>2. rule.action \in Actions /\ selected.action \in Actions
  BY CandidatesAreRules DEF Rule
<1>3. /\ request.settings.unsupported_mask_fallback_action \in {"warn", "block"}
      /\ request.settings.context_classifier_action \in Configurable
  BY SettingActions DEF RequestOK
<1>4. CASE selected.action = "mask" /\ MaskUnsupported(request)
  <2>1. Decide(request).action = request.settings.unsupported_mask_fallback_action
    BY <1>1, <1>4
  <2>2. rule.action \in {"allow", "warn", "mask"}
    BY <1>1, <1>2, <1>4 DEF Actions, ActionPriority
  <2> QED BY <1>3, <1>4, <2>1, <2>2 DEF ActionPriority
<1>5. CASE selected.action = "allow" /\ ContextSignal(request.context)
  <2>1. rule.action = "allow"
    BY <1>1, <1>2, <1>5 DEF Actions, ActionPriority
  <2>2. Decide(request).action \in Configurable
    BY <1>1, <1>3, <1>5
  <2> QED BY <2>1, <2>2 DEF Configurable, ActionPriority
<1> QED BY <1>1, <1>4, <1>5

\* A masked answer masks everything: no rule that asks for a mask is left that
\* cannot be masked.
THEOREM MaskMeansMaskable ==
  ASSUME NEW request, RequestOK(request), Decide(request).action = "mask"
  PROVE  ~MaskUnsupported(request)
<1>1. /\ request.settings.unsupported_mask_fallback_action # "mask"
      /\ request.settings.context_classifier_action # "mask"
      /\ request.settings.empty_input_action # "mask"
  BY SettingActions DEF RequestOK, Configurable
<1>2. Candidates(request) # {}
  BY <1>1 DEF Decide, MlOrAllowDecision, ContextDecision
<1>3. PICK selected \in Candidates(request) :
        Decide(request).action =
             CASE selected.action = "mask" /\ MaskUnsupported(request) ->
                    request.settings.unsupported_mask_fallback_action
               [] selected.action = "allow" /\ ContextSignal(request.context) ->
                    request.settings.context_classifier_action
               [] OTHER -> selected.action
  BY <1>2, SelectedDecides
<1> QED BY <1>1, <1>3

\* A request with a context risk is allowed only if the settings allow such
\* risks, whatever rules matched beside it.
THEOREM ContextRiskIsAnswered ==
  ASSUME NEW request, RequestOK(request), ContextSignal(request.context), DOMAIN request.scanned # {},
         Decide(request).action = "allow"
  PROVE  request.settings.context_classifier_action = "allow"
<1>1. CASE Candidates(request) = {}
  BY <1>1 DEF Decide, MlOrAllowDecision, ContextDecision
<1>2. CASE Candidates(request) # {}
  <2>1. PICK selected \in Candidates(request) :
          Decide(request).action =
               CASE selected.action = "mask" /\ MaskUnsupported(request) ->
                      request.settings.unsupported_mask_fallback_action
                 [] selected.action = "allow" /\ ContextSignal(request.context) ->
                      request.settings.context_classifier_action
                 [] OTHER -> selected.action
    BY <1>2, SelectedDecides
  <2>2. request.settings.unsupported_mask_fallback_action # "allow"
    BY SettingActions DEF RequestOK
  <2> QED BY <2>1, <2>2
<1> QED BY <1>1, <1>2

(***************************************************************************)
(* The rows that administrators edit.  RowsOK is not inductive: a row      *)
(* stays well formed because a handler holds a row it read and a patch     *)
(* that the schema allows, and because a handler that saw a row finds one  *)
(* when it commits, since rows are never deleted.                          *)
(***************************************************************************)

\* What a patch does to any row: it stays a row, and an archived rule stays
\* archived.
PatchOK(id, patch) ==
  /\ \A row \in RowsOf(id) : DOMAIN patch \subseteq DOMAIN row /\ Overwritten(row, patch) \in RowsOf(id)
  /\ "archived" \in DOMAIN patch => patch["archived"] = TRUE

EditOK(held) == held.id \in Ids /\ PatchOK(held.id, held.patch) /\ held.seen \in RowsOf(held.id)

AdminInv ==
  /\ rows = [id \in Ids |-> rows[id]]
  /\ edit = [e \in Edits |-> edit[e]]
  /\ \A id \in Ids : rows[id] = NoRow \/ rows[id] \in RowsOf(id)
  /\ \A e \in Edits : edit[e] = NoEdit \/ EditOK(edit[e])
  /\ \A e \in Edits : edit[e] # NoEdit /\ rows[edit[e].id] = NoRow => edit[e].new

\* A row is what has the columns of a row, each with a value of its type.
LEMMA RuleColumns ==
  ASSUME NEW row
  PROVE  row \in FilterRule <=>
           /\ row = [f \in {"action", "severity", "enabled", "archived"} |-> row[f]]
           /\ row["action"] \in Actions /\ row["severity"] \in Severities \ {"info"}
           /\ row["enabled"] \in BOOLEAN /\ row["archived"] \in BOOLEAN
BY DEF FilterRule

LEMMA SettingsColumns ==
  ASSUME NEW row
  PROVE  row \in PolicyActionSettings <=>
           /\ row = [f \in {"context_classifier_action", "content_not_scanned_action",
                           "parser_or_ocr_failure_action", "empty_input_action",
                           "unsupported_mask_fallback_action"} |-> row[f]]
           /\ row["context_classifier_action"] \in Configurable
           /\ row["content_not_scanned_action"] \in Configurable
           /\ row["parser_or_ocr_failure_action"] \in Configurable
           /\ row["empty_input_action"] \in Configurable
           /\ row["unsupported_mask_fallback_action"] \in {"warn", "block"}
BY DEF PolicyActionSettings

LEMMA ArchiveIsPatch ==
  ASSUME NEW id \in RuleIds PROVE PatchOK(id, Archive)
<1>1. RowsOf(id) = FilterRule
  BY FilterRulesAssumption DEF RowsOf
<1>2. ASSUME NEW row \in FilterRule
      PROVE  DOMAIN Archive \subseteq DOMAIN row /\ Overwritten(row, Archive) \in FilterRule
  <2> DEFINE archived == Overwritten(row, Archive)
  <2>1. row = [f \in {"action", "severity", "enabled", "archived"} |-> row[f]]
    BY RuleColumns
  <2>2. DOMAIN row = {"action", "severity", "enabled", "archived"} /\ DOMAIN Archive = {"archived", "enabled"}
    BY <2>1 DEF Archive
  <2>3. /\ archived = [f \in {"action", "severity", "enabled", "archived"} |-> archived[f]]
        /\ archived["action"] = row["action"] /\ archived["severity"] = row["severity"]
        /\ archived["enabled"] = FALSE /\ archived["archived"] = TRUE
    BY <2>2 DEF Overwritten, Archive
  <2>4. archived \in FilterRule
    <3> HIDE DEF archived
    <3> QED BY <2>3, RuleColumns
  <2> QED BY <2>2, <2>4
<1> QED BY <1>1, <1>2 DEF PatchOK, Archive

LEMMA AllowedIsPatch ==
  ASSUME NEW id \in Ids, NEW patch \in Patches[id] PROVE PatchOK(id, patch)
BY FilterRulesAssumption DEF PatchOK, IsPatch

\* Writing only the columns that differ from the row that was read leaves a
\* row: in each column it has the value of the committed row or of the patch.
LEMMA DirtyIsPatch ==
  ASSUME NEW id \in Ids, NEW seen, NEW patch, PatchOK(id, patch), NEW row \in RowsOf(id)
  PROVE  Overwritten(row, Dirty(seen, patch)) \in RowsOf(id)
<1> DEFINE whole == Overwritten(row, patch)
           part == Overwritten(row, Dirty(seen, patch))
<1>1. whole \in RowsOf(id)
  BY DEF PatchOK
<1>2. part = [f \in DOMAIN row |-> part[f]] /\ \A f \in DOMAIN row : part[f] = row[f] \/ part[f] = whole[f]
  BY DEF Overwritten, Dirty
<1> HIDE DEF whole, part
<1>3. CASE id = Settings
  <2>1. row \in PolicyActionSettings /\ whole \in PolicyActionSettings
    BY <1>1, <1>3 DEF RowsOf
  <2> DEFINE Fields == {"context_classifier_action", "content_not_scanned_action",
                        "parser_or_ocr_failure_action", "empty_input_action",
                        "unsupported_mask_fallback_action"}
  <2>2. DOMAIN row = Fields
    BY <2>1 DEF PolicyActionSettings
  <2>3. \A f \in Fields : part[f] = row[f] \/ part[f] = whole[f]
    BY <1>2, <2>2
  <2>4. part = [f \in Fields |-> part[f]]
    BY <1>2, <2>2
  <2>5. part["context_classifier_action"] \in Configurable /\ part["content_not_scanned_action"] \in Configurable
    BY <2>1, <2>3, SettingsColumns
  <2>6. part["parser_or_ocr_failure_action"] \in Configurable /\ part["empty_input_action"] \in Configurable
    BY <2>1, <2>3, SettingsColumns
  <2>7. part["unsupported_mask_fallback_action"] \in {"warn", "block"}
    BY <2>1, <2>3, SettingsColumns
  <2>8. part \in PolicyActionSettings
    BY <2>4, <2>5, <2>6, <2>7, SettingsColumns
  <2> QED BY <1>3, <2>8 DEF RowsOf, part
<1>4. CASE id # Settings
  <2>1. row \in FilterRule /\ whole \in FilterRule
    BY <1>1, <1>4 DEF RowsOf
  <2> DEFINE Fields == {"action", "severity", "enabled", "archived"}
  <2>2. DOMAIN row = Fields
    BY <2>1 DEF FilterRule
  <2>3. \A f \in Fields : part[f] = row[f] \/ part[f] = whole[f]
    BY <1>2, <2>2
  <2>4. part = [f \in Fields |-> part[f]]
    BY <1>2, <2>2
  <2>5. /\ part["action"] \in Actions /\ part["severity"] \in Severities \ {"info"}
        /\ part["enabled"] \in BOOLEAN /\ part["archived"] \in BOOLEAN
    BY <2>1, <2>3, RuleColumns
  <2>6. part \in FilterRule
    BY <2>4, <2>5, RuleColumns
  <2> QED BY <1>4, <2>6 DEF RowsOf, part
<1> QED BY <1>3, <1>4

LEMMA ReadKeeps ==
  ASSUME AdminInv, NEW e \in Edits, NEW id \in Ids, NEW patch, PatchOK(id, patch), Read(e, id, patch)
  PROVE  AdminInv'
<1> DEFINE seen == IF rows[id] = NoRow THEN Default[id] ELSE rows[id]
           held == [id |-> id, patch |-> patch, new |-> rows[id] = NoRow, seen |-> seen]
<1>1. seen \in RowsOf(id)
  BY FilterRulesAssumption DEF AdminInv
<1>2. EditOK(held) /\ (rows[held.id] = NoRow => held.new)
  BY <1>1 DEF EditOK
<1>3. edit' = [edit EXCEPT ![e] = held] /\ rows' = rows
  BY DEF Read
<1> HIDE DEF held
<1>4. \A f \in Edits : edit'[f] = NoEdit \/ EditOK(edit'[f])
  BY <1>2, <1>3 DEF AdminInv
<1>5. edit' = [f \in Edits |-> edit'[f]]
  BY <1>3 DEF AdminInv
<1>6. \A f \in Edits : edit'[f] # NoEdit /\ rows[edit'[f].id] = NoRow => edit'[f].new
  BY <1>2, <1>3 DEF AdminInv
<1>7. rows = [q \in Ids |-> rows[q]] /\ \A q \in Ids : rows[q] = NoRow \/ rows[q] \in RowsOf(q)
  BY DEF AdminInv
<1> QED BY <1>3, <1>4, <1>5, <1>6, <1>7 DEF AdminInv

\* A commit writes one row, which is new or the committed one with the columns
\* that changed.
LEMMA SaveWrites ==
  ASSUME AdminInv, NEW e \in Edits, Save(e)
  PROVE  /\ edit[e] # NoEdit /\ EditOK(edit[e])
         /\ edit' = [edit EXCEPT ![e] = NoEdit]
         /\ \/ rows' = rows
            \/ \E row \in RowsOf(edit[e].id) :
                 /\ rows' = [rows EXCEPT ![edit[e].id] = row]
                 /\ \/ rows[edit[e].id] = NoRow
                    \/ row = Overwritten(rows[edit[e].id], Dirty(edit[e].seen, edit[e].patch))
<1> DEFINE id == edit[e].id
           seen == edit[e].seen
           patch == edit[e].patch
<1>1. edit[e] # NoEdit /\ EditOK(edit[e]) /\ edit' = [edit EXCEPT ![e] = NoEdit]
  BY DEF Save, AdminInv
<1>2. id \in Ids /\ PatchOK(id, patch) /\ seen \in RowsOf(id)
  BY <1>1 DEF EditOK
<1>3. CASE rows' = rows
  BY <1>1, <1>3
<1>4. CASE rows[id] = NoRow /\ rows' = [rows EXCEPT ![id] = Overwritten(seen, patch)]
  <2>1. Overwritten(seen, patch) \in RowsOf(id)
    BY <1>2 DEF PatchOK
  <2> QED BY <1>1, <1>4, <2>1
<1>5. CASE ~edit[e].new /\ rows' = [rows EXCEPT ![id] = Overwritten(rows[id], Dirty(seen, patch))]
  <2>1. rows[id] \in RowsOf(id)
    BY <1>1, <1>2, <1>5 DEF AdminInv
  <2>2. Overwritten(rows[id], Dirty(seen, patch)) \in RowsOf(id)
    BY <1>2, <2>1, DirtyIsPatch
  <2> QED BY <1>1, <1>5, <2>2
<1> QED BY <1>3, <1>4, <1>5 DEF Save

LEMMA SaveKeeps ==
  ASSUME AdminInv, NEW e \in Edits, Save(e)
  PROVE  AdminInv'
<1>1. edit' = [edit EXCEPT ![e] = NoEdit]
  BY SaveWrites
<1> DEFINE StillRows == /\ rows' = [id \in Ids |-> rows'[id]]
                        /\ \A id \in Ids : rows'[id] = NoRow \/ rows'[id] \in RowsOf(id)
                        /\ \A id \in Ids : rows'[id] = NoRow => rows[id] = NoRow
<1>2. StillRows
  <2>1. CASE rows' = rows
    BY <2>1 DEF AdminInv
  <2>2. ASSUME NEW row \in RowsOf(edit[e].id), rows' = [rows EXCEPT ![edit[e].id] = row], edit[e].id \in Ids
        PROVE  StillRows
    BY <2>2, FilterRulesAssumption DEF AdminInv
  <2> QED BY <2>1, <2>2, SaveWrites DEF EditOK
<1>3. edit' = [f \in Edits |-> edit'[f]]
  BY <1>1 DEF AdminInv
<1>4. \A f \in Edits : edit'[f] = NoEdit \/ (edit'[f] = edit[f] /\ EditOK(edit'[f]))
  BY <1>1 DEF AdminInv
<1> QED BY <1>2, <1>3, <1>4 DEF AdminInv, EditOK

LEMMA CreateKeeps ==
  ASSUME AdminInv, NEW c \in Custom, Create(c)
  PROVE  AdminInv'
<1> PICK row \in Made : rows' = [rows EXCEPT ![c] = row]
  BY DEF Create
<1>1. c \in Ids /\ row \in RowsOf(c) /\ rows' = [rows EXCEPT ![c] = row] /\ edit' = edit
  BY FilterRulesAssumption DEF Create, Ids, RuleIds, RowsOf
<1>2. rows' = [id \in Ids |-> rows'[id]]
  BY <1>1 DEF AdminInv
<1>3. \A id \in Ids : rows'[id] = NoRow \/ rows'[id] \in RowsOf(id)
  BY <1>1 DEF AdminInv
<1>4. \A id \in Ids : rows'[id] = NoRow => rows[id] = NoRow
  BY <1>1, FilterRulesAssumption DEF AdminInv
<1> QED BY <1>1, <1>2, <1>3, <1>4 DEF AdminInv, EditOK

LEMMA AdminStarts ==
  AdminInit => AdminInv
<1> SUFFICES ASSUME AdminInit PROVE AdminInv
  OBVIOUS
<1>1. rows = [id \in Ids |-> rows[id]] /\ \A id \in Ids : rows[id] = NoRow \/ rows[id] \in RowsOf(id)
  BY FilterRulesAssumption DEF AdminInit
<1>2. edit = [e \in Edits |-> edit[e]] /\ \A e \in Edits : edit[e] = NoEdit
  BY DEF AdminInit
<1> QED BY <1>1, <1>2 DEF AdminInv

LEMMA AdminKeeps ==
  AdminInv /\ [AdminNext]_adminVars => AdminInv'
<1> SUFFICES ASSUME AdminInv, [AdminNext]_adminVars PROVE AdminInv'
  OBVIOUS
<1>1. ASSUME NEW c \in Custom, Create(c) PROVE AdminInv'
  BY <1>1, CreateKeeps
<1>2. ASSUME NEW e \in Edits, ReadRule(e) PROVE AdminInv'
  <2>1. PICK id \in RuleIds : \E patch \in Patches[id] : Read(e, id, patch)
    BY <1>2 DEF ReadRule
  <2>2. PICK patch \in Patches[id] : Read(e, id, patch)
    BY <2>1
  <2>3. id \in Ids
    BY DEF Ids
  <2> QED BY <2>2, <2>3, AllowedIsPatch, ReadKeeps
<1>3. ASSUME NEW e \in Edits, ReadForArchive(e) PROVE AdminInv'
  <2>1. PICK id \in Custom : Read(e, id, Archive)
    BY <1>3 DEF ReadForArchive
  <2>2. id \in RuleIds /\ id \in Ids
    BY DEF Ids, RuleIds
  <2> QED BY <2>1, <2>2, ArchiveIsPatch, ReadKeeps
<1>4. ASSUME NEW e \in Edits, ReadSettings(e) PROVE AdminInv'
  <2>1. PICK patch \in Patches[Settings] : Read(e, Settings, patch)
    BY <1>4 DEF ReadSettings
  <2>2. Settings \in Ids
    BY DEF Ids
  <2> QED BY <2>1, <2>2, AllowedIsPatch, ReadKeeps
<1>5. ASSUME NEW e \in Edits, Save(e) PROVE AdminInv'
  BY <1>5, SaveKeeps
<1>6. CASE UNCHANGED adminVars
  BY <1>6 DEF adminVars, AdminInv, EditOK
<1> QED BY <1>1, <1>2, <1>3, <1>4, <1>5, <1>6 DEF AdminNext

\* Whatever the administrators write at the same time, each row has every column
\* that a request reads, with a value of its type: also the row that a first
\* override inserts, and one written by two handlers that read the same row.
THEOREM RowsWellFormed == AdminSpec => []RowsOK
<1>1. AdminInv => RowsOK
  BY DEF AdminInv, RowsOK, EditOK
<1> QED BY <1>1, AdminStarts, AdminKeeps, PTL DEF AdminSpec

\* A commit changes a row that exists only in the columns its administrator
\* asked to change, so of two commits the later leaves what the earlier wrote
\* elsewhere.
THEOREM CommitsKeepOtherColumns == AdminSpec => OnlyPatchedColumnsChange
<1> DEFINE Change ==
      \A id \in DOMAIN rows : rows[id] # NoRow /\ rows'[id] # rows[id] =>
        \E e \in Edits :
          /\ edit[e] # NoEdit /\ edit'[e] = NoEdit /\ edit[e].id = id
          /\ \A f \in DOMAIN rows[id] \ DOMAIN edit[e].patch : rows'[id][f] = rows[id][f]
<1>1. AdminInv /\ [AdminNext]_adminVars => [Change]_adminVars
  <2> SUFFICES ASSUME AdminInv, AdminNext, NEW id \in Ids, rows[id] # NoRow, rows'[id] # rows[id]
               PROVE  \E e \in Edits :
                        /\ edit[e] # NoEdit /\ edit'[e] = NoEdit /\ edit[e].id = id
                        /\ \A f \in DOMAIN rows[id] \ DOMAIN edit[e].patch : rows'[id][f] = rows[id][f]
    BY DEF AdminInv
  <2>1. ~\E c \in Custom : Create(c)
    BY DEF Create, AdminInv
  <2>2. PICK e \in Edits : Save(e)
    BY <2>1 DEF AdminNext, ReadRule, ReadForArchive, ReadSettings, Read
  <2>3. edit[e] # NoEdit /\ edit'[e] = NoEdit
    BY <2>2, SaveWrites DEF AdminInv
  <2>4. edit[e].id = id /\ rows'[id] = Overwritten(rows[id], Dirty(edit[e].seen, edit[e].patch))
    BY <2>2, SaveWrites DEF AdminInv, EditOK
  <2>5. \A f \in DOMAIN rows[id] \ DOMAIN edit[e].patch : rows'[id][f] = rows[id][f]
    BY <2>4 DEF Overwritten, Dirty
  <2> QED BY <2>3, <2>4, <2>5
<1> QED BY <1>1, AdminStarts, AdminKeeps, PTL DEF AdminSpec, OnlyPatchedColumnsChange

\* A rule that was archived stays archived, and no request applies it again.
THEOREM ArchiveIsFinal == AdminSpec => ArchivedForGood
<1> DEFINE Silent == \A c \in Custom : rows[c] # NoRow /\ rows[c].archived => c \notin DOMAIN ActiveRules'
<1>1. AdminInv /\ [AdminNext]_adminVars => [Silent]_adminVars
  <2> SUFFICES ASSUME AdminInv, AdminNext, NEW c \in Custom, rows[c] # NoRow, rows[c].archived
               PROVE  c \notin DOMAIN ActiveRules'
    OBVIOUS
  <2>1. c \in Ids /\ c \notin BuiltIn /\ RowsOf(c) = FilterRule /\ rows[c] \in FilterRule
    BY FilterRulesAssumption DEF AdminInv, Ids, RuleIds, RowsOf
  <2>2. rows'[c].archived
    <3>1. CASE rows'[c] = rows[c]
      BY <3>1
    <3>2. ASSUME rows'[c] # rows[c] PROVE rows'[c].archived
      <4>1. PICK e \in Edits : Save(e)
        BY <2>1, <3>2 DEF AdminNext, Create, ReadRule, ReadForArchive, ReadSettings, Read, AdminInv
      <4>2. /\ PatchOK(c, edit[e].patch)
            /\ rows'[c] = Overwritten(rows[c], Dirty(edit[e].seen, edit[e].patch))
        BY <2>1, <3>2, <4>1, SaveWrites DEF AdminInv, EditOK
      <4>3. "archived" \in DOMAIN rows[c]
        BY <2>1 DEF FilterRule
      <4> QED BY <4>2, <4>3 DEF Overwritten, Dirty, PatchOK
    <3> QED BY <3>1, <3>2
  <2>3. c \notin Stored'
    BY <2>2 DEF Stored
  <2> QED BY <2>1, <2>3 DEF ActiveRules
<1> QED BY <1>1, AdminStarts, AdminKeeps, PTL DEF AdminSpec, ArchivedForGood

(***************************************************************************)
(* Events                                                                  *)
(***************************************************************************)
EventsInv ==
  /\ pc = [r \in Requests |-> pc[r]] /\ answer = [r \in Requests |-> answer[r]]
  /\ \A event \in events :
       event.by \in Requests /\ event.key = KeyOf[event.by] /\ pc[event.by] \in {"answered", "failed"}
  /\ OneEventPerKey

LEMMA EventsKept ==
  ASSUME EventsInv, NEW r \in Requests, NEW to, pc[r] \notin {"answered", "failed", "duplicate"},
         pc' = [pc EXCEPT ![r] = to], events' = events, answer' = answer, to # "answered",
         to = "duplicate" => KeyTaken(r)
  PROVE  EventsInv'
<1>1. \A event \in events : event.by # r
  BY DEF EventsInv
<1>2. pc' = [q \in Requests |-> pc'[q]] /\ pc'[r] = to /\ \A q \in Requests : q # r => pc'[q] = pc[q]
  BY DEF EventsInv
<1>3. OneEventPerKey'
  <2>1. \A q \in Requests : pc'[q] = "answered" => Event(q, answer[q]) \in events
    BY <1>2 DEF EventsInv, OneEventPerKey
  <2>2. \A q \in Requests : pc'[q] = "duplicate" => \E event \in events : event.key = KeyOf[q] /\ event.by # q
    BY <1>1, <1>2 DEF EventsInv, OneEventPerKey, KeyTaken
  <2> QED BY <2>1, <2>2 DEF EventsInv, OneEventPerKey, Event
<1> QED BY <1>1, <1>2, <1>3 DEF EventsInv

LEMMA EventStored ==
  ASSUME EventsInv, NEW r \in Requests, NEW to \in {"answered", "failed"}, NEW action,
         pc[r] = "decided", ~KeyTaken(r),
         pc' = [pc EXCEPT ![r] = to], events' = events \cup {Event(r, action)},
         \/ answer' = [answer EXCEPT ![r] = action]
         \/ answer' = answer /\ to = "failed"
  PROVE  EventsInv'
<1> DEFINE new == Event(r, action)
<1>1. new.key = KeyOf[r] /\ new.by = r /\ new.action = action
  BY DEF Event
<1>2. pc' = [q \in Requests |-> pc'[q]] /\ pc'[r] = to /\ \A q \in Requests : q # r => pc'[q] = pc[q]
  BY DEF EventsInv
<1>3. /\ answer' = [q \in Requests |-> answer'[q]]
      /\ to = "answered" => answer'[r] = action
      /\ \A q \in Requests : q # r => answer'[q] = answer[q]
  BY DEF EventsInv
<1>4. \A event \in events : event.key # KeyOf[r]
  BY DEF KeyTaken
<1>5. \A a, b \in events' : a.key = b.key => a = b
  BY <1>1, <1>4 DEF EventsInv, OneEventPerKey
<1>6. \A q \in Requests : pc'[q] = "answered" => Event(q, answer'[q]) \in events'
  BY <1>2, <1>3 DEF EventsInv, OneEventPerKey
<1>7. \A q \in Requests : pc'[q] = "duplicate" => \E event \in events' : event.key = KeyOf[q] /\ event.by # q
  BY <1>2 DEF EventsInv, OneEventPerKey
<1>8. OneEventPerKey'
  BY <1>5, <1>6, <1>7 DEF OneEventPerKey, Event
<1>9. \A event \in events' :
        event.by \in Requests /\ event.key = KeyOf[event.by] /\ pc'[event.by] \in {"answered", "failed"}
  BY <1>1, <1>2 DEF EventsInv
<1> QED BY <1>2, <1>3, <1>8, <1>9 DEF EventsInv

LEMMA EventsStep ==
  EventsInv /\ [Next]_vars => EventsInv'
<1> SUFFICES ASSUME EventsInv, [Next]_vars PROVE EventsInv'
  OBVIOUS
<1>1. CASE UNCHANGED <<pc, answer, events>>
  BY <1>1 DEF EventsInv, OneEventPerKey, Event
<1>2. ASSUME NEW r \in Requests, CheckKey(r) PROVE EventsInv'
  BY <1>2, EventsKept DEF CheckKey, Step
<1>3. ASSUME NEW r \in Requests, Inspect(r) PROVE EventsInv'
  BY <1>3, EventsKept DEF Inspect, Step
<1>4. ASSUME NEW r \in Requests, ReadSettingsAndDecide(r) PROVE EventsInv'
  BY <1>4, EventsKept DEF ReadSettingsAndDecide, Step
<1>5. ASSUME NEW r \in Requests, CommitAndAnswer(r) PROVE EventsInv'
  <2>1. CASE KeyTaken(r)
    BY <1>5, <2>1, EventsKept DEF CommitAndAnswer, Return, Step, Write
  <2>2. CASE ~KeyTaken(r)
    BY <1>5, <2>2, EventStored DEF CommitAndAnswer, Return, Step, Write
  <2> QED BY <2>1, <2>2
<1>6. ASSUME NEW r \in Requests, Fail(r) PROVE EventsInv'
  <2>1. CASE events' = events
    BY <1>6, <2>1, EventsKept DEF Fail
  <2>2. CASE events' # events
    BY <1>6, <2>2, EventStored DEF Fail, Write
  <2> QED BY <2>1, <2>2
<1> QED BY <1>1, <1>2, <1>3, <1>4, <1>5, <1>6 DEF Next, vars, requestVars

\* However many requests carry a key, and in whatever order they look it up,
\* fail and commit: one event is stored for it, and only its request answers.
THEOREM EventPerKey == Spec => []OneEventPerKey
<1>1. Init => EventsInv
  BY DEF Init, EventsInv, OneEventPerKey
<1>2. EventsInv => OneEventPerKey
  BY DEF EventsInv
<1> QED BY <1>1, <1>2, EventsStep, PTL DEF Spec

(***************************************************************************)
(* What a request holds                                                    *)
(***************************************************************************)
Confirmed(answers) ==
  /\ \E i \in DOMAIN answers : answers[i].outcome = "verified"
  /\ \A i \in DOMAIN answers : answers[i].outcome \notin Failures

FoundOK(r, f) ==
  /\ DOMAIN f.active \subseteq RuleIds
  /\ \A id \in DOMAIN f.active : f.active[id] \in FilterRule
  /\ f.matches \subseteq [input: InputsOf(r), rule: DOMAIN f.active]
  /\ DOMAIN f.scanned = InputsOf(r)
  /\ Confirmed(f.answers) => ContextSignal(f.context.evidence)

DecidedOK(r, f, held) ==
  /\ held.settings \in PolicyActionSettings
  /\ held.action = Decide(PolicyRequest(f, held.settings)).action
  /\ held.action = "mask" => held.masked = MaskingMatches(r, f)

RequestInv ==
  /\ pc = [r \in Requests |-> pc[r]]
  /\ found = [r \in Requests |-> found[r]] /\ decided = [r \in Requests |-> decided[r]]
  /\ \A r \in Requests : pc[r] \in {"inspected", "decided"} => FoundOK(r, found[r])
  /\ \A r \in Requests : IF pc[r] = "decided" THEN DecidedOK(r, found[r], decided[r]) ELSE decided[r] = None

\* A confirmed risk counts when no text failed.
LEMMA ConfirmedSignals ==
  ASSUME NEW r \in Requests, NEW answers \in Answers(r), ClassifierEnabled, Confirmed(answers)
  PROVE  ContextSignal(ContextOfTexts(answers).evidence)
<1> DEFINE With(outcomes) == {i \in DOMAIN answers : answers[i].outcome \in outcomes}
           accepted == Cardinality(With({"verified"}))
<1>1. PICK n \in Nat : answers \in [1 .. n -> WorkerAnswers(Labels)]
  <2>1. answers \in AnswersTo(Len(TextsOf(r)), Labels)
    BY DEF Answers
  <2>2. Len(TextsOf(r)) \in Nat \/ Len(TextsOf(r)) # 0
    OBVIOUS
  <2> QED BY <2>1 DEF AnswersTo
<1>2. IsFiniteSet(With({"verified"})) /\ With({"verified"}) # {}
  <2>1. DOMAIN answers = 1 .. n
    BY <1>1
  <2>2. IsFiniteSet(DOMAIN answers)
    BY <2>1, FS_Interval
  <2>3. With({"verified"}) \subseteq DOMAIN answers
    OBVIOUS
  <2>4. IsFiniteSet(With({"verified"}))
    BY <2>2, <2>3, FS_Subset
  <2> QED BY <2>4 DEF Confirmed
<1>3. accepted \in Nat /\ accepted # 0
  <2> HIDE DEF With
  <2> QED BY <1>2, FS_CardinalityType, FS_EmptySet
<1>4. With(Failures) = {}
  BY DEF Confirmed
<1>5. /\ ContextOfTexts(answers).evidence.accepted = accepted
      /\ ContextOfTexts(answers).evidence.status
           = ContextStatus(Cardinality(With({"candidate", "verified"})), accepted)
  BY <1>4 DEF ContextOfTexts
<1>6. ContextStatus(Cardinality(With({"candidate", "verified"})), accepted) = "verified"
  <2> HIDE DEF accepted, With
  <2> QED BY <1>3 DEF ContextStatus
<1> QED
  <2> HIDE DEF accepted, With
  <2> QED BY <1>3, <1>5, <1>6 DEF ContextSignal

LEMMA ActiveRulesType ==
  ASSUME AdminInv
  PROVE  /\ DOMAIN ActiveRules \subseteq RuleIds
         /\ \A id \in DOMAIN ActiveRules : ActiveRules[id] \in FilterRule
         /\ ActionSettings \in PolicyActionSettings
<1>1. \A id \in RuleIds : id \in Ids /\ RowsOf(id) = FilterRule
  BY FilterRulesAssumption DEF Ids, RowsOf
<1>2. \A id \in RuleIds : Merged(id) \in FilterRule
  BY <1>1, FilterRulesAssumption DEF Merged, Stored, AdminInv
<1>3. DOMAIN ActiveRules \subseteq RuleIds /\ \A id \in DOMAIN ActiveRules : ActiveRules[id] = Merged(id)
  BY DEF ActiveRules, Stored, RuleIds
<1>4. ActionSettings \in PolicyActionSettings
  <2>1. Settings \in Ids /\ RowsOf(Settings) = PolicyActionSettings
    BY DEF Ids, RowsOf
  <2> QED BY <2>1, FilterRulesAssumption DEF ActionSettings, AdminInv
<1> QED BY <1>2, <1>3, <1>4

LEMMA InspectKeeps ==
  ASSUME AdminInv, RequestInv, NEW r \in Requests, Inspect(r)
  PROVE  RequestInv'
<1>1. PICK parsed \in [Files(r) -> ParserOutcomes], answers \in Answers(r) :
        found' = [found EXCEPT ![r] =
          [active  |-> ActiveRules,
           matches |-> Matches(r, ActiveRules, parsed),
           scanned |-> [i \in InputsOf(r) |-> Scanned(parsed, i)],
           codes   |-> UNION {CodeOf(parsed, i) : i \in InputsOf(r)},
           answers |-> answers,
           context |-> IF ClassifierEnabled THEN ContextOfTexts(answers) ELSE Disabled]]
  BY DEF Inspect
<1>2. FoundOK(r, found'[r])
  <2> DEFINE f == [active  |-> ActiveRules,
                   matches |-> Matches(r, ActiveRules, parsed),
                   scanned |-> [i \in InputsOf(r) |-> Scanned(parsed, i)],
                   codes   |-> UNION {CodeOf(parsed, i) : i \in InputsOf(r)},
                   answers |-> answers,
                   context |-> IF ClassifierEnabled THEN ContextOfTexts(answers) ELSE Disabled]
  <2>1. /\ DOMAIN f.active \subseteq RuleIds
        /\ \A id \in DOMAIN f.active : f.active[id] \in FilterRule
    BY ActiveRulesType
  <2>2. f.matches \subseteq [input: InputsOf(r), rule: DOMAIN f.active]
    BY DEF Matches
  <2>3. DOMAIN f.scanned = InputsOf(r)
    OBVIOUS
  <2>4. Confirmed(f.answers) => ContextSignal(f.context.evidence)
    <3>1. CASE ClassifierEnabled
      BY <3>1, ConfirmedSignals
    <3>2. CASE ~ClassifierEnabled
      BY <3>2 DEF Answers, Confirmed
    <3> QED BY <3>1, <3>2
  <2>5. found'[r] = f
    BY <1>1 DEF RequestInv
  <2> HIDE DEF f
  <2> QED BY <2>1, <2>2, <2>3, <2>4, <2>5 DEF FoundOK
<1>3. /\ found' = [q \in Requests |-> found'[q]] /\ \A q \in Requests : q # r => found'[q] = found[q]
  BY <1>1 DEF RequestInv
<1>4. pc' = [q \in Requests |-> pc'[q]] /\ pc'[r] = "inspected" /\ \A q \in Requests : q # r => pc'[q] = pc[q]
  BY DEF Inspect, Step, RequestInv
<1>5. decided' = decided /\ decided[r] = None
  BY DEF Inspect, Step, RequestInv
<1> QED BY <1>2, <1>3, <1>4, <1>5 DEF RequestInv

LEMMA DecideKeeps ==
  ASSUME AdminInv, RequestInv, NEW r \in Requests, ReadSettingsAndDecide(r)
  PROVE  RequestInv'
<1>1. DecidedOK(r, found[r], decided'[r])
  <2>1. /\ decided'[r].settings = ActionSettings
        /\ decided'[r].action = Decide(PolicyRequest(found[r], ActionSettings)).action
        /\ decided'[r].action = "mask" => decided'[r].masked = MaskingMatches(r, found[r])
    BY DEF ReadSettingsAndDecide, RequestInv
  <2> QED BY <2>1, ActiveRulesType DEF DecidedOK
<1>2. decided' = [q \in Requests |-> decided'[q]] /\ \A q \in Requests : q # r => decided'[q] = decided[q]
  BY DEF ReadSettingsAndDecide, RequestInv
<1>3. pc' = [q \in Requests |-> pc'[q]] /\ pc'[r] = "decided" /\ \A q \in Requests : q # r => pc'[q] = pc[q]
  BY DEF ReadSettingsAndDecide, Step, RequestInv
<1>4. found' = found /\ pc[r] = "inspected"
  BY DEF ReadSettingsAndDecide, Step
<1> QED BY <1>1, <1>2, <1>3, <1>4 DEF RequestInv

LEMMA ReturnKeeps ==
  ASSUME RequestInv, NEW r \in Requests, NEW to, to \notin {"inspected", "decided"},
         pc' = [pc EXCEPT ![r] = to],
         \/ found' = [found EXCEPT ![r] = None] /\ decided' = [decided EXCEPT ![r] = None]
         \/ found' = found /\ decided' = decided /\ pc[r] # "decided"
  PROVE  RequestInv'
<1>1. pc' = [q \in Requests |-> pc'[q]] /\ pc'[r] = to /\ \A q \in Requests : q # r => pc'[q] = pc[q]
  BY DEF RequestInv
<1>2. /\ found' = [q \in Requests |-> found'[q]] /\ decided' = [q \in Requests |-> decided'[q]]
      /\ \A q \in Requests : q # r => found'[q] = found[q] /\ decided'[q] = decided[q]
      /\ decided'[r] = None
  BY DEF RequestInv
<1> QED BY <1>1, <1>2 DEF RequestInv

LEMMA RequestStep ==
  AdminInv /\ RequestInv /\ [Next]_vars => RequestInv'
<1> SUFFICES ASSUME AdminInv, RequestInv, [Next]_vars PROVE RequestInv'
  OBVIOUS
<1>1. CASE UNCHANGED <<pc, found, decided>>
  BY <1>1 DEF RequestInv
<1>2. ASSUME NEW r \in Requests, CheckKey(r) PROVE RequestInv'
  BY <1>2, ReturnKeeps DEF CheckKey, Step
<1>3. ASSUME NEW r \in Requests, Inspect(r) PROVE RequestInv'
  BY <1>3, InspectKeeps
<1>4. ASSUME NEW r \in Requests, ReadSettingsAndDecide(r) PROVE RequestInv'
  BY <1>4, DecideKeeps
<1>5. ASSUME NEW r \in Requests, CommitAndAnswer(r) PROVE RequestInv'
  BY <1>5, ReturnKeeps DEF CommitAndAnswer, Return, Step
<1>6. ASSUME NEW r \in Requests, Fail(r) PROVE RequestInv'
  BY <1>6, ReturnKeeps DEF Fail
<1> QED BY <1>1, <1>2, <1>3, <1>4, <1>5, <1>6 DEF Next, vars, requestVars

LEMMA AdminOfNext ==
  [Next]_vars => [AdminNext]_adminVars
BY DEF Next, vars, requestVars, adminVars, CheckKey, Inspect, ReadSettingsAndDecide, CommitAndAnswer,
       Return, Fail

Inv == AdminInv /\ RequestInv

LEMMA InvHolds == Spec => []Inv
<1>1. Init => Inv
  BY AdminStarts DEF Init, Inv, RequestInv
<1>2. Inv /\ [Next]_vars => Inv'
  BY AdminOfNext, AdminKeeps, RequestStep DEF Inv
<1> QED BY <1>1, <1>2, PTL DEF Spec

(***************************************************************************)
(* From what a request holds to what it decides                            *)
(***************************************************************************)
LEMMA MatchRuleType ==
  ASSUME NEW r \in Requests, NEW f, FoundOK(r, f), NEW m \in f.matches
  PROVE  MatchRule(f.active, m) \in Rule
<1>1. f.active[m.rule] \in FilterRule
  BY DEF FoundOK
<1>2. f.active[m.rule].action \in Actions /\ f.active[m.rule].severity \in Severities
  BY <1>1 DEF FilterRule
<1> QED BY <1>2 DEF MatchRule, Rule, Bases

LEMMA LabelRulesType ==
  ASSUME NEW r \in Requests, NEW f, FoundOK(r, f)
  PROVE  LabelRules(f) \subseteq Rule /\ \A rule \in LabelRules(f) : rule.action # "mask"
<1>1. ASSUME NEW l \in DOMAIN f.active
      PROVE  f.active[l].action \in Actions /\ f.active[l].severity \in Severities
  <2>1. f.active[l] \in FilterRule
    BY DEF FoundOK
  <2> QED BY <2>1 DEF FilterRule
<1> DEFINE LabelRule(l) ==
      [action |-> IF f.active[l].action = "mask" THEN "block" ELSE f.active[l].action,
       severity |-> f.active[l].severity, maskable |-> FALSE, basis |-> "context"]
<1>2. ASSUME NEW l \in DOMAIN f.active
      PROVE  LabelRule(l) \in Rule /\ LabelRule(l).action # "mask"
  BY <1>1 DEF Rule, Bases, Actions
<1>3. \A rule \in LabelRules(f) : \E l \in DOMAIN f.active : rule = LabelRule(l)
  BY DEF LabelRules
<1> QED BY <1>2, <1>3

LEMMA PolicyRequestOK ==
  ASSUME NEW r \in Requests, NEW f, FoundOK(r, f), NEW settings \in PolicyActionSettings
  PROVE  RequestOK(PolicyRequest(f, settings))
BY MatchRuleType, LabelRulesType DEF PolicyRequest, RequestOK

\* A mask is unsupported only when something outside the composer asks for it.
LEMMA UnsupportedOutsideComposer ==
  ASSUME NEW r \in Requests, NEW f, FoundOK(r, f), NEW settings
  PROVE  MaskUnsupported(PolicyRequest(f, settings)) <=>
           \E m \in f.matches : f.active[m.rule].action = "mask" /\ Kind[m.input] # "composer"
<1> DEFINE request == PolicyRequest(f, settings)
<1>1. request.rules = {MatchRule(f.active, m) : m \in f.matches} \cup LabelRules(f)
  BY DEF PolicyRequest
<1>2. \A m \in f.matches : /\ MatchRule(f.active, m).action = f.active[m.rule].action
                           /\ MatchRule(f.active, m).maskable = (Kind[m.input] = "composer")
  BY DEF MatchRule
<1> HIDE DEF request
<1>3. ASSUME MaskUnsupported(request)
      PROVE  \E m \in f.matches : f.active[m.rule].action = "mask" /\ Kind[m.input] # "composer"
  <2>1. PICK rule \in request.rules : rule.action = "mask" /\ ~rule.maskable
    BY <1>3 DEF MaskUnsupported
  <2>2. PICK m \in f.matches : rule = MatchRule(f.active, m)
    BY <1>1, <2>1, LabelRulesType
  <2>3. f.active[m.rule].action = "mask" /\ Kind[m.input] # "composer"
    BY <2>1, <2>2 DEF MatchRule
  <2> QED BY <2>3
<1>4. ASSUME NEW m \in f.matches, f.active[m.rule].action = "mask", Kind[m.input] # "composer"
      PROVE  MaskUnsupported(request)
  <2>1. MatchRule(f.active, m) \in request.rules
    BY <1>1
  <2>2. MatchRule(f.active, m).action = "mask" /\ ~MatchRule(f.active, m).maskable
    BY <1>4 DEF MatchRule
  <2> QED BY <2>1, <2>2 DEF MaskUnsupported
<1> QED BY <1>3, <1>4 DEF request

LEMMA DecidedFacts ==
  ASSUME Inv, NEW r \in Requests, HasDecided(r)
  PROVE  /\ FoundOK(r, found[r]) /\ decided[r].settings \in PolicyActionSettings
         /\ decided[r].action = Decide(PolicyRequest(found[r], decided[r].settings)).action
         /\ decided[r].action = "mask" => decided[r].masked = MaskingMatches(r, found[r])
BY DEF Inv, RequestInv, HasDecided, DecidedOK

LEMMA FindingsDecide ==
  ASSUME Inv PROVE NoFindingOverruled
<1> SUFFICES ASSUME NEW r \in Requests, HasDecided(r)
             PROVE  LET f == found[r]
                        action == decided[r].action
                        settings == decided[r].settings
                        Demand(m) == f.active[m.rule].action
                        outsideComposer == \E m \in f.matches : Demand(m) = "mask" /\ Kind[m.input] # "composer"
                    IN /\ \A m \in f.matches :
                            \/ AtLeast(action, Demand(m))
                            \/ Demand(m) = "mask" /\ outsideComposer
                               /\ action = settings.unsupported_mask_fallback_action
                       /\ (\E i \in DOMAIN f.scanned : ~f.scanned[i]) =>
                            AtLeast(action, settings.content_not_scanned_action)
                       /\ "PARSER_OR_OCR_FAILED" \in f.codes =>
                            AtLeast(action, settings.parser_or_ocr_failure_action)
  BY DEF NoFindingOverruled
<1> DEFINE f == found[r]
           settings == decided[r].settings
           request == PolicyRequest(f, settings)
<1>1. FoundOK(r, f) /\ settings \in PolicyActionSettings /\ decided[r].action = Decide(request).action
  BY DecidedFacts
<1>2. /\ RequestOK(request) /\ request.settings = settings
      /\ request.scanned = f.scanned /\ request.codes = f.codes
  BY <1>1, PolicyRequestOK DEF PolicyRequest
<1>3. ASSUME NEW m \in f.matches
      PROVE  \/ AtLeast(decided[r].action, f.active[m.rule].action)
             \/ /\ f.active[m.rule].action = "mask"
                /\ \E n \in f.matches : f.active[n.rule].action = "mask" /\ Kind[n.input] # "composer"
                /\ decided[r].action = settings.unsupported_mask_fallback_action
  <2>1. MatchRule(f.active, m) \in Candidates(request)
    BY DEF Candidates, PolicyRequest
  <2>2. MatchRule(f.active, m).action = f.active[m.rule].action
    BY DEF MatchRule
  <2> HIDE DEF f, settings, request
  <2>3. MaskUnsupported(request) =>
          \E n \in f.matches : f.active[n.rule].action = "mask" /\ Kind[n.input] # "composer"
    BY <1>1, UnsupportedOutsideComposer DEF request
  <2> QED BY <1>1, <1>2, <2>1, <2>2, <2>3, DecisionDominates DEF AtLeast
<1>4. ASSUME NEW action \in Configurable, ConfiguredRule(action) \in FailureRules(request)
      PROVE  AtLeast(decided[r].action, action)
  <2> HIDE DEF f, settings, request
  <2>1. ConfiguredRule(action) \in Candidates(request)
    BY <1>4 DEF Candidates
  <2>2. ConfiguredRule(action).action = action /\ action # "mask"
    BY <1>4, ConfiguredRuleType DEF Configurable
  <2> QED BY <1>1, <1>2, <2>1, <2>2, DecisionDominates DEF AtLeast
<1>5. ASSUME NEW i \in DOMAIN f.scanned, ~f.scanned[i]
      PROVE  AtLeast(decided[r].action, settings.content_not_scanned_action)
  <2> HIDE DEF f, settings, request
  <2>1. ConfiguredRule(settings.content_not_scanned_action) \in FailureRules(request)
    BY <1>2, <1>5 DEF FailureRules, NotScanned
  <2>2. settings.content_not_scanned_action \in Configurable
    BY <1>1, SettingActions
  <2> QED BY <1>4, <2>1, <2>2
<1>6. ASSUME "PARSER_OR_OCR_FAILED" \in f.codes
      PROVE  AtLeast(decided[r].action, settings.parser_or_ocr_failure_action)
  <2> HIDE DEF f, settings, request
  <2>1. ConfiguredRule(settings.parser_or_ocr_failure_action) \in FailureRules(request)
    BY <1>2, <1>6 DEF FailureRules
  <2>2. settings.parser_or_ocr_failure_action \in Configurable
    BY <1>1, SettingActions
  <2> QED BY <1>4, <2>1, <2>2
<1> QED BY <1>3, <1>5, <1>6

\* Whatever administrators change while a request is under way, its answer is at
\* least as strong as each of its findings asks for.
THEOREM FindingsAreNotOverruled == Spec => []NoFindingOverruled
BY InvHolds, FindingsDecide, PTL

LEMMA RiskDecides ==
  ASSUME Inv PROVE ConfirmedRiskIsNotAllowed
<1> SUFFICES ASSUME NEW r \in Requests, HasDecided(r), decided[r].action = "allow", Confirmed(found[r].answers)
             PROVE  decided[r].settings.context_classifier_action = "allow"
  BY DEF ConfirmedRiskIsNotAllowed, Confirmed
<1> DEFINE request == PolicyRequest(found[r], decided[r].settings)
<1>1. FoundOK(r, found[r]) /\ decided[r].settings \in PolicyActionSettings /\ decided[r].action = Decide(request).action
  BY DecidedFacts
<1>2. /\ RequestOK(request) /\ request.settings = decided[r].settings
      /\ request.scanned = found[r].scanned /\ request.context = found[r].context.evidence
  BY <1>1, PolicyRequestOK DEF PolicyRequest
<1>3. ContextSignal(request.context)
  BY <1>1, <1>2 DEF FoundOK
<1>4. InputsOf(r) # {}
  <2>1. Payload[r] \in Seq(Inputs) /\ Payload[r] # <<>>
    BY AnalyzeAssumption
  <2>2. 1 \in DOMAIN Payload[r]
    BY <2>1
  <2> QED BY <2>2 DEF InputsOf
<1>5. DOMAIN request.scanned # {}
  BY <1>1, <1>2, <1>4 DEF FoundOK
<1> HIDE DEF request
<1> QED BY <1>1, <1>2, <1>3, <1>5, ContextRiskIsAnswered

\* A risk that the verifier confirmed is allowed only by the settings.
THEOREM ConfirmedRisksAreAnswered == Spec => []ConfirmedRiskIsNotAllowed
BY InvHolds, RiskDecides, PTL

(***************************************************************************)
(* Masked answers.  The server replaces what it found in the first         *)
(* composer text that matched, so the assumption is that a payload has no  *)
(* second one; the extension sends one.                                    *)
(***************************************************************************)
OneComposerText ==
  \A r \in Requests : \A i, j \in DOMAIN Payload[r] :
    Kind[Payload[r][i]] = "composer" /\ Kind[Payload[r][j]] = "composer" => i = j

LEMMA MaskDecides ==
  ASSUME OneComposerText, Inv PROVE MaskCoversAllFindings
<1> SUFFICES ASSUME NEW r \in Requests, HasDecided(r), decided[r].action = "mask",
                    NEW m \in found[r].matches, found[r].active[m.rule].action = "mask"
             PROVE  Kind[m.input] = "composer" /\ (m.rule \in SpanLess \/ m \in decided[r].masked)
  BY DEF MaskCoversAllFindings
<1> DEFINE f == found[r]
           request == PolicyRequest(f, decided[r].settings)
<1>1. /\ FoundOK(r, f) /\ decided[r].settings \in PolicyActionSettings
      /\ Decide(request).action = "mask" /\ decided[r].masked = MaskingMatches(r, f)
  BY DecidedFacts
<1>2. Kind[m.input] = "composer"
  <2>1. RequestOK(request)
    BY <1>1, PolicyRequestOK
  <2>2. ~MaskUnsupported(request)
    BY <1>1, <2>1, MaskMeansMaskable
  <2> QED BY <1>1, <2>2, UnsupportedOutsideComposer
<1>3. ASSUME m.rule \notin SpanLess PROVE m \in MaskingMatches(r, f)
  <2> DEFINE matched == {i \in DOMAIN Payload[r] : /\ Kind[Payload[r][i]] = "composer"
                                                  /\ \E n \in f.matches : n.input = Payload[r][i]}
  <2>1. m.input \in InputsOf(r)
    BY <1>1 DEF FoundOK
  <2>2. PICK i \in DOMAIN Payload[r] : m.input = Payload[r][i]
    BY <2>1 DEF InputsOf
  <2>3. i \in matched /\ \A j \in matched : j = i
    BY <1>2, <2>2 DEF OneComposerText
  <2>4. i \in Nat
    <3>1. Payload[r] \in Seq(Inputs)
      BY AnalyzeAssumption
    <3> QED BY <3>1
  <2>5. \A j \in matched : i <= j
    <3> HIDE DEF matched
    <3> QED BY <2>3, <2>4
  <2> QED BY <1>3, <2>2, <2>3, <2>5 DEF MaskingMatches
<1> QED BY <1>1, <1>2, <1>3

\* When a payload has one composer text, an answer Mask hides nothing: all that
\* was to be masked is in that text, and what has spans is replaced.
THEOREM MaskHidesNothing ==
  ASSUME OneComposerText PROVE Spec => []MaskCoversAllFindings
<1>1. Inv => MaskCoversAllFindings
  BY MaskDecides
<1> QED BY <1>1, InvHolds, PTL

(***************************************************************************)
(* Types                                                                   *)
(***************************************************************************)
LEMMA DecidedActions ==
  Inv => \A r \in Requests : decided[r] = None \/ decided[r].action \in Actions
<1> SUFFICES ASSUME Inv, NEW r \in Requests, decided[r] # None PROVE decided[r].action \in Actions
  OBVIOUS
<1>1. /\ FoundOK(r, found[r]) /\ decided[r].settings \in PolicyActionSettings
      /\ decided[r].action = Decide(PolicyRequest(found[r], decided[r].settings)).action
  BY DecidedFacts DEF HasDecided
<1> QED BY <1>1, PolicyRequestOK, DecisionIsAction

LEMMA TypeStep ==
  Inv /\ TypeOK /\ [Next]_vars /\ Inv' => TypeOK'
<1> SUFFICES ASSUME Inv, TypeOK, [Next]_vars, Inv' PROVE TypeOK'
  OBVIOUS
<1>1. (\A r \in Requests : decided[r] = None \/ decided[r].action \in Actions)'
  BY DecidedActions, PTL
<1>2. ASSUME NEW r \in Requests, pc[r] = "decided"
      PROVE  Event(r, decided[r].action) \in [key: {KeyOf[q] : q \in Requests}, by: Requests, action: Actions]
  <2>1. FoundOK(r, found[r]) /\ DecidedOK(r, found[r], decided[r])
    BY <1>2 DEF Inv, RequestInv
  <2>2. decided[r].action \in Actions
    BY <2>1, PolicyRequestOK, DecisionIsAction DEF DecidedOK
  <2> QED BY <2>2 DEF Event
<1>3. ASSUME NEW r \in Requests,
             NEW to \in {"received", "new", "inspected", "decided", "answered", "duplicate", "failed"},
             pc' = [pc EXCEPT ![r] = to]
      PROVE  pc' \in [Requests -> {"received", "new", "inspected", "decided", "answered", "duplicate", "failed"}]
  BY <1>3 DEF TypeOK
<1>4. pc' \in [Requests -> {"received", "new", "inspected", "decided", "answered", "duplicate", "failed"}]
  <2>1. CASE pc' = pc
    BY <2>1 DEF TypeOK
  <2>2. ASSUME NEW r \in Requests, CheckKey(r) PROVE pc' = [pc EXCEPT ![r] = "duplicate"] \/ pc' = [pc EXCEPT ![r] = "new"]
    BY <2>2 DEF CheckKey, Step
  <2>3. ASSUME NEW r \in Requests, Inspect(r) PROVE pc' = [pc EXCEPT ![r] = "inspected"]
    BY <2>3 DEF Inspect, Step
  <2>4. ASSUME NEW r \in Requests, ReadSettingsAndDecide(r) PROVE pc' = [pc EXCEPT ![r] = "decided"]
    BY <2>4 DEF ReadSettingsAndDecide, Step
  <2>5. ASSUME NEW r \in Requests, CommitAndAnswer(r)
        PROVE  pc' = [pc EXCEPT ![r] = "duplicate"] \/ pc' = [pc EXCEPT ![r] = "answered"]
    BY <2>5 DEF CommitAndAnswer, Return, Step
  <2>6. ASSUME NEW r \in Requests, Fail(r) PROVE pc' = [pc EXCEPT ![r] = "failed"]
    BY <2>6 DEF Fail
  <2> QED BY <1>3, <2>1, <2>2, <2>3, <2>4, <2>5, <2>6 DEF Next, vars, requestVars
<1>5. events' = events \/ \E r \in Requests : pc[r] = "decided" /\ events' = events \cup {Event(r, decided[r].action)}
  BY DEF Next, vars, requestVars, CheckKey, Inspect, ReadSettingsAndDecide, CommitAndAnswer, Return, Step, Fail, Write
<1> QED BY <1>1, <1>2, <1>4, <1>5 DEF TypeOK

\* Each request decides and stores one of the four actions.
THEOREM TypeCorrect == Spec => []TypeOK
<1>1. Init => TypeOK
  BY DEF Init, TypeOK
<1>2. Inv /\ TypeOK /\ [Next]_vars /\ Inv' => TypeOK'
  BY TypeStep
<1> QED BY <1>1, <1>2, InvHolds, PTL DEF Spec
=============================================================================
