---------------------------- MODULE MCFilterPage ----------------------------
EXTENDS FilterPage, TLC

Draft(kind, label, action) ==
  [kind |-> kind, label |-> label, action |-> action, severity |-> "high", enabled |-> TRUE, placeholder |-> "P"]

\* A field that a draft does not name keeps its value.
MCDrafts ==
  {Draft("keyword", "L2", "WARN") @@ [keywords |-> <<"w2">>],
   Draft("regex", "L2", "MASK") @@ [pattern |-> "w1"],
   Draft("regex", "L1", "MASK") @@ [pattern |-> "["],
   Draft("context_rule", "L1", "BLOCK")}

\* A rule was made with the page before.
MCMadeBefore ==
  [c1 |-> [origin |-> "custom", kind |-> "keyword", label |-> "L1", keyword |-> "w1", pattern |-> None,
           placeholder |-> "P", severity |-> "high", action |-> "MASK", enabled |-> TRUE,
           config |-> [keywords |-> <<"w1", "w2">>, exclusions |-> <<>>], archived |-> FALSE]]

MCWords ==
  DOMAIN BuiltInRules \cup {"CUSTOM_KEYWORD", "internal strategy", "L1", "L2", "P", "w1", "w2", "["}

MCGroupings == {<<>>, [business |-> <<"internal strategy">>]}

MCSamples == {{"w2"}}
=============================================================================
