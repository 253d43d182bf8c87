---------------------------- MODULE FilterRules ----------------------------
(***************************************************************************)
(* The filter rules and the policy settings that administrators edit in    *)
(* the dashboard, and the rules a request gets to see.                     *)
(*                                                                         *)
(* A handler reads a row in one statement and commits in a later one; the  *)
(* database runs READ COMMITTED, so others commit in between.  The ORM     *)
(* writes the columns whose value differs from the row it read, and        *)
(* inserts a row where it read none.  Versions, labels, patterns and the   *)
(* audit log are left out: nothing below reads them.                       *)
(***************************************************************************)
EXTENDS PolicyDecision

CONSTANTS
  BuiltIn,      \* BUILT_IN_RULES of the code
  Custom,       \* ids that administrators may give to rules of their own
  Settings,     \* the id of the one settings row
  Seeded,       \* ids that have a row when the server starts
  Default,      \* the row of each id at the start, or what the code holds where it has none
  Made,         \* what an administrator may submit as a new rule
  Patches,      \* what an administrator may write to a row: records of some columns
  Edits,        \* dashboard handlers that may be under way at a time
  NoRow, NoEdit

RuleIds == BuiltIn \cup Custom
Ids == RuleIds \cup {Settings}

FilterRule ==
  [action: Actions, severity: Severities \ {"info"}, enabled: BOOLEAN, archived: BOOLEAN]

RowsOf(id) == IF id = Settings THEN PolicyActionSettings ELSE FilterRule

Archive == [archived |-> TRUE, enabled |-> FALSE]

Overwritten(row, patch) ==
  [f \in DOMAIN row |-> IF f \in DOMAIN patch THEN patch[f] ELSE row[f]]

\* A patch writes columns that its schema allows: no patch brings a rule back
\* from the archive.
IsPatch(id, patch) ==
  /\ "archived" \notin DOMAIN patch
  /\ \A row \in RowsOf(id) : DOMAIN patch \subseteq DOMAIN row /\ Overwritten(row, patch) \in RowsOf(id)

ASSUME FilterRulesAssumption ==
  /\ Seeded \subseteq Ids
  /\ BuiltIn \cap Custom = {} /\ Settings \notin RuleIds
  /\ \A id \in Ids : Default[id] \in RowsOf(id) /\ NoRow \notin RowsOf(id)
  /\ \A r \in RuleIds : ~Default[r].archived
  /\ Made \subseteq {row \in FilterRule : ~row.archived}
  /\ \A id \in Ids : \A patch \in Patches[id] : IsPatch(id, patch)

VARIABLES
  rows,         \* the committed rows, or NoRow
  edit          \* what a dashboard handler holds between its read and its commit

adminVars == <<rows, edit>>

\* The columns the ORM finds changed when it flushes.
Dirty(seen, patch) == [f \in {g \in DOMAIN patch : patch[g] # seen[g]} |-> patch[f]]

AdminInit ==
  /\ rows = [id \in Ids |-> IF id \in Seeded THEN Default[id] ELSE NoRow]
  /\ edit = [e \in Edits |-> NoEdit]

\* POST: a new rule is one statement.
Create(c) ==
  /\ rows[c] = NoRow
  /\ \E row \in Made : rows' = [rows EXCEPT ![c] = row]
  /\ UNCHANGED edit

Read(e, id, patch) ==
  /\ edit[e] = NoEdit
  /\ rows[id] # NoRow \/ id \notin Custom
  /\ edit' = [edit EXCEPT ![e] =
       [id |-> id, patch |-> patch, new |-> rows[id] = NoRow,
        seen |-> IF rows[id] = NoRow THEN Default[id] ELSE rows[id]]]
  /\ UNCHANGED rows

\* PATCH, enable and disable of a rule, archived or not; a built-in without a
\* row gets one.
ReadRule(e) == \E id \in RuleIds : \E patch \in Patches[id] : Read(e, id, patch)

\* DELETE archives; built-ins cannot be archived.
ReadForArchive(e) == \E id \in Custom : Read(e, id, Archive)

ReadSettings(e) == \E patch \in Patches[Settings] : Read(e, Settings, patch)

\* Flush and commit.  A second INSERT of the same row fails, and the handler
\* with it.
Save(e) ==
  LET id == edit[e].id
      clash == edit[e].new /\ rows[id] # NoRow
  IN
  /\ edit[e] # NoEdit
  /\ rows' = IF clash THEN rows
             ELSE [rows EXCEPT ![id] = IF edit[e].new THEN Overwritten(edit[e].seen, edit[e].patch)
                                       ELSE Overwritten(@, Dirty(edit[e].seen, edit[e].patch))]
  /\ edit' = [edit EXCEPT ![e] = NoEdit]

AdminNext ==
  \/ \E e \in Edits : Save(e) \/ ReadRule(e) \/ ReadForArchive(e) \/ ReadSettings(e)
  \/ \E c \in Custom : Create(c)

(***************************************************************************)
(* What a request reads                                                    *)
(***************************************************************************)
\* The query asks for enabled, unarchived rows; the rest of a built-in comes
\* from the code.
Stored == {r \in RuleIds : rows[r] # NoRow /\ rows[r].enabled /\ ~rows[r].archived}

Merged(r) == IF r \in Stored THEN rows[r] ELSE Default[r]

ActiveRules == [r \in {q \in Stored \cup BuiltIn : Merged(q).enabled} |-> Merged(r)]

ActionSettings == IF rows[Settings] = NoRow THEN Default[Settings] ELSE rows[Settings]

AdminSpec == AdminInit /\ [][AdminNext]_adminVars

(***************************************************************************)
(* Properties                                                              *)
(***************************************************************************)
RowsOK ==
  /\ \A id \in Ids : rows[id] = NoRow \/ rows[id] \in RowsOf(id)
  /\ \A e \in Edits : edit[e] = NoEdit \/ edit[e].seen \in RowsOf(edit[e].id)

\* A commit changes the columns that its administrator asked to change, whoever
\* committed since the row was read.
OnlyPatchedColumnsChange ==
  [][\A id \in DOMAIN rows : rows[id] # NoRow /\ rows'[id] # rows[id] =>
       \E e \in Edits :
         /\ edit[e] # NoEdit /\ edit'[e] = NoEdit /\ edit[e].id = id
         /\ \A f \in DOMAIN rows[id] \ DOMAIN edit[e].patch : rows'[id][f] = rows[id][f]]_adminVars

\* A rule that was archived is never applied again, also when an administrator
\* whose page is older enables it.
ArchivedForGood ==
  [][\A c \in Custom : rows[c] # NoRow /\ rows[c].archived => c \notin DOMAIN ActiveRules']_adminVars

\* Contract 3.1.3: only enabled policies are used.
DisabledRulesAreSilent ==
  \A r \in RuleIds : rows[r] # NoRow /\ ~rows[r].enabled => r \notin DOMAIN ActiveRules
=============================================================================
