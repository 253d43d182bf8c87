---------------------------- MODULE EventHistory ----------------------------
(***************************************************************************)
(* The history of analyze requests and the administrators' reports on it.  *)
(*                                                                         *)
(* A request is stamped when its transaction begins and commits later, its *)
(* event, inputs and detections together.  A report asks for the current   *)
(* date and then reads users, events, detections and inputs one after      *)
(* another, each as committed at that moment.  Requests commit, users are  *)
(* disabled and midnight passes in between.  What a request comes to is    *)
(* one of Cases; its time of check and its time of event are one day.      *)
(***************************************************************************)
EXTENDS AnalyzeContract, Integers, FiniteSets

CONSTANTS
  Users,
  Requests,
  UserOf,       \* [Requests -> Users]
  Rank,         \* [Users -> order of their names, and of those with one name as they are read]
  Cases,        \* [attempt, action, risk (confirmed by the context model), score of its rules]
  Reports,      \* [kind, days, limit, action (a filter or None), disabled (are they included)]
  LastDay,      \* bound on the days that pass
  MaxDisabled   \* bound on the users that are disabled at a time

Actions == {"ALLOW", "WARN", "MASK", "BLOCK"}
ReportKinds == {"overview", "event_stats", "user_stats", "events"}
ASSUME HistoryAssumption ==
  /\ UserOf \in [Requests -> Users] /\ LastDay \in Nat \ {0} /\ MaxDisabled \in Nat
  /\ IsFiniteSet(Users) /\ Rank \in [Users -> Nat] /\ \A u, v \in Users : Rank[u] = Rank[v] => u = v
  /\ None \notin Uploads \cup {"unsupported"}
  /\ Reports \subseteq [kind: ReportKinds, days: 1..90, limit: 1..100, action: Actions \cup {None}, disabled: BOOLEAN]
  /\ Cases \subseteq [attempt : Attempts, action : Actions, risk : BOOLEAN, score : 0..100]

VARIABLES
  today,
  users,        \* [Users -> [status, last]]: last_event_at, 0 for never
  request,      \* [Requests -> [pc, case, began]]
  answer,       \* [Requests -> what the client was told, or None]
  events, inputs, detections,   \* the tables
  report        \* the report being made, or None

historyVars == <<today, users, request, answer, events, inputs, detections, report>>
tables == <<events, inputs, detections>>

HistoryInit ==
  /\ today = 1
  /\ users = [u \in Users |-> [status |-> "ACTIVE", last |-> 0]]
  /\ request = [r \in Requests |-> [pc |-> "idle", case |-> None, began |-> 0]]
  /\ answer = [r \in Requests |-> None]
  /\ events = {} /\ inputs = {} /\ detections = {}
  /\ report = None

DayPasses == today < LastDay /\ today' = today + 1 /\ UNCHANGED <<users, request, answer, tables, report>>

Disabled == {u \in Users : users[u].status = "DISABLED"}

SetStatus(u) ==
  /\ u \in Disabled \/ Cardinality(Disabled) < MaxDisabled
  /\ users' = [users EXCEPT ![u].status = IF @ = "ACTIVE" THEN "DISABLED" ELSE "ACTIVE"]
  /\ UNCHANGED <<today, request, answer, tables, report>>

(***************************************************************************)
(* Requests                                                                *)
(***************************************************************************)
Submit(r, case) ==
  LET sent == PromptInputs(case.attempt) IN
  /\ request[r].pc = "idle" /\ users[UserOf[r]].status = "ACTIVE" /\ SentByExtension(sent)
  /\ request' = [request EXCEPT ![r] =
       [pc |-> IF \A i \in DOMAIN sent : Accepted(sent[i]) THEN "accepted" ELSE "refused",
        case |-> case, began |-> today]]
  /\ UNCHANGED <<today, users, answer, tables, report>>

Sent(r) == PromptInputs(request[r].case.attempt)

Result(r, i) == ContextDecisionBasis(InputScanResult(Sent(r)[i]), request[r].case.risk)

EventRow(r) ==
  LET case == request[r].case IN
  [id |-> r, user |-> UserOf[r], day |-> request[r].began, action |-> case.action,
   level |-> RiskLevelForScore(ScoreForFinalAction(case.score, case.action))]

\* Mutant: an input keeps the result it had before the context model was asked.
InputRowsBeforeContext(r) ==
  {[event |-> r, index |-> i, included |-> Sent(r)[i].included, result |-> InputScanResult(Sent(r)[i]),
    reason |-> Sent(r)[i].reason] : i \in DOMAIN Sent(r)}

InputRows(r) ==
  {[event |-> r, index |-> i, included |-> Sent(r)[i].included, result |-> Result(r, i),
    reason |-> Sent(r)[i].reason] : i \in DOMAIN Sent(r)}

DetectionRows(r) ==
  UNION {{[event |-> r, index |-> i, type |-> t, count |-> 1] : t \in ToSet(MatchesOf(Sent(r)[i]))} :
           i \in DOMAIN Sent(r)}

\* What the constraints of the tables let in.
EventColumns ==
  [id : Requests, user : Users, day : Nat, action : Actions, level : {"low", "medium", "high", "critical"}]

InputColumns ==
  [event : Requests, index : Nat, included : BOOLEAN,
   result : [scanned : BOOLEAN,
             basis : {"no_detection", "detection", "content_unavailable", "metadata_only", "context_risk"}],
   reason : {None, "oversized", "unsupported", "metadata_only", "unavailable"}]

DetectionColumns == [event : Requests, index : Nat, type : {"TOKEN", "PHONE"}, count : Nat]

Storable(r) ==
  EventRow(r) \in EventColumns /\ InputRows(r) \subseteq InputColumns /\ DetectionRows(r) \subseteq DetectionColumns

AnswerTo(r) ==
  [action |-> request[r].case.action, level |-> EventRow(r).level,
   results |-> [i \in DOMAIN Sent(r) |-> Result(r, i)],
   unavailable |-> {i \in DOMAIN Sent(r) : ContentUnavailable(Result(r, i))},
   detections |-> Cardinality(DetectionRows(r))]

\* Event, inputs, detections and the user's time of last event in one commit.
Write(r) ==
  /\ events' = events \cup {EventRow(r)}
  /\ inputs' = inputs \cup InputRows(r)
  /\ detections' = detections \cup DetectionRows(r)
  /\ users' = [users EXCEPT ![UserOf[r]].last = request[r].began]

CommitAndAnswer(r) ==
  /\ request[r].pc = "accepted" /\ Storable(r)
  /\ Write(r)
  /\ request' = [request EXCEPT ![r].pc = "answered"]
  /\ answer' = [answer EXCEPT ![r] = AnswerTo(r)]
  /\ UNCHANGED <<today, report>>

\* Nothing of the transaction stays.
Fail(r) ==
  /\ request[r].pc = "accepted"
  /\ request' = [request EXCEPT ![r].pc = "failed"]
  /\ UNCHANGED <<today, users, answer, tables, report>>

(***************************************************************************)
(* Reports                                                                 *)
(***************************************************************************)
Ids(rows) == {e.id : e \in rows}

OfEvents(rows, counted) == {row \in rows : row.event \in Ids(counted)}

\* Mutant: the window ends with the day before.
WindowEndsYesterday(days, asOf) == (asOf - days)..(asOf - 1)

Window(days, asOf) == (asOf - days + 1)..asOf

AskReport(asked) ==
  /\ report = None
  /\ report' = [asked |-> asked, asOf |-> today, next |-> IF asked.kind = "user_stats" THEN "users" ELSE "events",
                known |-> events, users |-> None, events |-> {}, detections |-> {}, inputs |-> {}]
  /\ UNCHANGED <<today, users, request, answer, tables>>

Reads(step) == report # None /\ report.next = step /\ UNCHANGED <<today, users, request, answer, tables>>

ReadUsers == Reads("users") /\ report' = [report EXCEPT !.users = users, !.next = "events"]

IncludedUsers == {u \in Users : report.asked.disabled \/ report.users[u].status # "DISABLED"}

\* The newest of the events that the filter lets through; equal days in any order.
Listed(chosen) ==
  LET let == {e \in events : report.asked.action \in {None, e.action}} IN
  /\ chosen \subseteq let
  /\ Cardinality(chosen) = Min({report.asked.limit, Cardinality(let)})
  /\ \A e \in chosen, f \in let \ chosen : f.day <= e.day

\* The statistics of users read every event of theirs, those by day every one
\* since the first day of the window.
Selected(chosen) ==
  CASE report.asked.kind = "events" -> Listed(chosen)
    [] report.asked.kind = "user_stats" -> chosen = {e \in events : e.user \in IncludedUsers}
    [] OTHER -> chosen = {e \in events : e.day >= Min(Window(report.asked.days, report.asOf))}

ReadEvents ==
  /\ Reads("events")
  /\ \E chosen \in SUBSET events :
       /\ Selected(chosen)
       /\ report' = [report EXCEPT !.events = chosen, !.next = IF chosen = {} THEN "done" ELSE "detections"]

ReadDetections ==
  /\ Reads("detections")
  /\ report' = [report EXCEPT !.detections = OfEvents(detections, report.events),
                              !.next = IF report.asked.kind \in {"overview", "events"} THEN "inputs" ELSE "done"]

ReadInputs ==
  /\ Reads("inputs")
  /\ report' = [report EXCEPT !.inputs = OfEvents(inputs, report.events), !.next = "done"]

CloseReport == Reads("done") /\ report' = None

HistoryNext ==
  \/ DayPasses
  \/ \E u \in Users : SetStatus(u)
  \/ \E r \in Requests : (\E case \in Cases : Submit(r, case)) \/ CommitAndAnswer(r) \/ Fail(r)
  \/ \E asked \in Reports : AskReport(asked)
  \/ ReadUsers \/ ReadEvents \/ ReadDetections \/ ReadInputs \/ CloseReport

HistorySpec == HistoryInit /\ [][HistoryNext]_historyVars

(***************************************************************************)
(* What a report shows                                                     *)
(***************************************************************************)
\* key gives what each row, or detection, is counted under.
CountBy(key) == [k \in Range(key) |-> Cardinality({x \in DOMAIN key : key[x] = k})]

SumCounts(found) == MapThenSumSet(LAMBDA d : d.count, found)

DetectionsBy(key) == [k \in Range(key) |-> SumCounts({d \in DOMAIN key : key[d] = k})]

\* The overview and the statistics leave out what was stamped after their day.
Counted(rep) ==
  IF rep.asked.kind \in {"overview", "event_stats"}
    THEN {e \in rep.events : e.day \in Window(rep.asked.days, rep.asOf)} ELSE rep.events

EventStats(rep) ==
  LET counted == Counted(rep)
      found == OfEvents(rep.detections, counted) IN
  [count |-> Cardinality(counted), users |-> Cardinality({e.user : e \in counted}),
   actions |-> CountBy([e \in counted |-> e.action]), levels |-> CountBy([e \in counted |-> e.level]),
   types |-> DetectionsBy([d \in found |-> d.type]),
   categories |-> DetectionsBy([d \in found |-> CategoryOf(d.type)]),
   buckets |-> [d \in Window(rep.asked.days, rep.asOf) |->
                  CountBy([e \in {x \in counted : x.day = d} |-> e.action])]]

\* The overview takes what the request did not carry for unavailable.
Overview(rep) ==
  LET counted == Counted(rep) IN
  [count |-> Cardinality(counted), users |-> Cardinality({e.user : e \in counted}),
   actions |-> [a \in Actions |-> Cardinality({e \in counted : e.action = a})],
   levels |-> CountBy([e \in counted |-> e.level]),
   categories |-> DetectionsBy([d \in OfEvents(rep.detections, counted) |-> CategoryOf(d.type)]),
   unavailable |-> Cardinality({i.event : i \in {j \in OfEvents(rep.inputs, counted) : ~j.included}}),
   last |-> IF counted = {} THEN 0 ELSE Max({e.day : e \in counted}),
   buckets |-> EventStats(rep).buckets]

UserRow(rep, u) ==
  LET own == {e \in rep.events : e.user = u}
      found == OfEvents(rep.detections, own) IN
  [count |-> Cardinality(own), actions |-> CountBy([e \in own |-> e.action]),
   last |-> IF own = {} THEN rep.users[u].last ELSE Max({e.day : e \in own}),
   types |-> DetectionsBy([d \in found |-> d.type])]

\* Users with most events first, then those with the latest one, then by name.
RowBefore(rep, u, v) ==
  LET a == UserRow(rep, u)
      b == UserRow(rep, v) IN
  \/ a.count > b.count
  \/ a.count = b.count /\ a.last > b.last
  \/ a.count = b.count /\ a.last = b.last /\ Rank[u] < Rank[v]

SortStatsRows(rep, included) ==
  LET sorted == CHOOSE s \in SetToSeqs(included) : \A i, j \in DOMAIN s : i < j => RowBefore(rep, s[i], s[j])
  IN SubSeq(sorted, 1, Min({rep.asked.limit, Len(sorted)}))

Label(values) == IF values = {} THEN None ELSE IF Cardinality(values) = 1 THEN values ELSE "MULTIPLE"

ListItem(e, found, given) ==
  LET types == {d.type : d \in found} IN
  [action |-> e.action, level |-> e.level, day |-> e.day, detections |-> SumCounts(found),
   type |-> Label({<<CategoryOf(t), t>> : t \in types}), category |-> Label({CategoryOf(t) : t \in types}),
   inputs |-> Cardinality(given),
   unavailable |-> Cardinality({i \in given : IsContentUnavailable(i.result, i.reason)})]

Item(rep, e) == ListItem(e, OfEvents(rep.detections, {e}), OfEvents(rep.inputs, {e}))

(***************************************************************************)
(* Properties                                                              *)
(***************************************************************************)
HistoryTypeOK ==
  /\ today \in 1..LastDay
  /\ users \in [Users -> [status : {"ACTIVE", "DISABLED"}, last : 0..LastDay]]
  /\ \A r \in Requests : request[r].pc \in {"idle", "accepted", "refused", "answered", "failed"}
  /\ events \subseteq EventColumns /\ inputs \subseteq InputColumns /\ detections \subseteq DetectionColumns

Made(kind) == report # None /\ report.next = "done" /\ report.asked.kind = kind
Total(counts) == MapThenSumSet(LAMBDA k : counts[k], DOMAIN counts)

\* What the administrators see of a request is what its user was told: the same
\* action and level, as many findings, and the same inputs as not scanned,
\* which are the ones that the policy was asked to weigh.  No constraint of the
\* tables turns an accepted request away.
HistoryMatchesAnswer ==
  \A r \in Requests :
    /\ request[r].pc = "accepted" => Storable(r)
    /\ request[r].pc = "answered" => \E e \in events :
         e.id = r /\
         LET item == ListItem(e, OfEvents(detections, {e}), OfEvents(inputs, {e}))
             given == OfEvents(inputs, {e}) IN
         /\ item.action = answer[r].action /\ item.level = answer[r].level
         /\ item.detections = answer[r].detections /\ item.inputs = Len(answer[r].results)
         /\ {i.index : i \in {j \in given : IsContentUnavailable(j.result, j.reason)}} = answer[r].unavailable
         /\ \A i \in given : i.result = answer[r].results[i.index]
         /\ answer[r].unavailable = {i \in DOMAIN Sent(r) : EvidenceCode(Sent(r)[i]) # {}}

\* Whatever commits while a report is being read, each event it counts is counted
\* with all of its detections and inputs, and an event that was stored when the
\* report was asked for is not missed.
ReportsWholeEvents ==
  report # None /\ report.next = "done" =>
    LET counted == Counted(report) IN
    /\ OfEvents(report.detections, counted) = OfEvents(detections, counted)
    /\ report.asked.kind \in {"overview", "events"} => OfEvents(report.inputs, counted) = OfEvents(inputs, counted)
    /\ report.asked.kind \in {"overview", "event_stats"} =>
         \A e \in report.known : report.asOf - e.day < report.asked.days => e \in counted

\* The parts of a report add up to its total, also when midnight passes between
\* its date and its first query: days, actions and levels to the events, and
\* there are no more users than events.
ReportsAddUp ==
  /\ Made("event_stats") =>
       LET shown == EventStats(report) IN
       /\ shown.count = Total(shown.actions) /\ shown.count = Total(shown.levels)
       /\ shown.count = Total([d \in DOMAIN shown.buckets |-> Total(shown.buckets[d])])
       /\ Total(shown.types) = Total(shown.categories) /\ shown.users <= shown.count
  /\ Made("overview") =>
       LET shown == Overview(report) IN
       /\ shown.count = Total(shown.actions)
       /\ shown.count = Total([d \in DOMAIN shown.buckets |-> Total(shown.buckets[d])])
       /\ shown.unavailable <= shown.count /\ (shown.last = 0) = (shown.count = 0)
       /\ shown.last <= report.asOf

\* The row of a user has a last event exactly if it counts one, though users and
\* events are read at two moments; no user is left out for one with fewer events.
UserRowsAgree ==
  Made("user_stats") =>
    LET included == {u \in Users : report.asked.disabled \/ report.users[u].status # "DISABLED"}
        shown == ToSet(SortStatsRows(report, included)) IN
    \A u \in included :
      LET row == UserRow(report, u) IN
      /\ (row.last = 0) = (row.count = 0) /\ row.count = Total(row.actions)
      /\ u \notin shown => \A v \in shown : UserRow(report, v).count >= row.count

\* What the reports show of the events agrees with the events and with itself.
ReportsAgree == ReportsWholeEvents /\ ReportsAddUp /\ UserRowsAgree

\* Contract of the overview: its number of events with unavailable content is the
\* number of events whose page shows unavailable content.
OverviewMatchesEvents ==
  Made("overview") =>
    Overview(report).unavailable = Cardinality({e \in Counted(report) : Item(report, e).unavailable > 0})

\* A captured paste is inspected though the page left nothing of it in the
\* composer: the API accepts what the extension sends.
SentIsAccepted == \A r \in Requests : request[r].pc # "refused"
=============================================================================
