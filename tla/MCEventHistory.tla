---- MODULE MCEventHistory ----
EXTENDS EventHistory
CONSTANTS u1, u2, r1, r2
MCUsers == {u1, u2}
MCRequests == {r1, r2}
MCUserOf == r1 :> u1 @@ r2 :> u2
MCRank == u1 :> 1 @@ u2 :> 2

Attempt(text, paste, files) == [text |-> text, paste |-> paste, files |-> files]
Case(attempt, action, risk, score) == [attempt |-> attempt, action |-> action, risk |-> risk, score |-> score]

MCCases == {
  Case(Attempt("plain", "", <<"parsed">>), "WARN", TRUE, 0),
  Case(Attempt("blank", "", <<"parsed_secret", "failed", "too_large">>), "BLOCK", FALSE, 90),
  Case(Attempt("secret", "oversized", <<"partial", "chip", "over_count">>), "WARN", FALSE, 30)}
MCPasteOnly == {
  Case(Attempt("blank", "plain", <<>>), "ALLOW", FALSE, 0),
  Case(Attempt("plain", "", <<"chip">>), "ALLOW", FALSE, 0)}

Report(kind, days, limit, action, disabled) ==
  [kind |-> kind, days |-> days, limit |-> limit, action |-> action, disabled |-> disabled]
MCReports == {
  Report("overview", 2, 1, None, TRUE), Report("event_stats", 1, 1, None, TRUE),
  Report("user_stats", 1, 1, None, FALSE),
  Report("events", 1, 1, None, TRUE), Report("events", 1, 2, "BLOCK", TRUE)}
====
