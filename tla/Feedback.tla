------------------------------ MODULE Feedback ------------------------------
(***************************************************************************)
(* What users do to each other's loadouts, on top of module Loadouts: they *)
(* like and report them, and administrators resolve the reports.           *)
(*                                                                         *)
(* A report counts the reporter's recent reports in one statement and is   *)
(* inserted by another.  A like is one statement; when it inserts nothing  *)
(* a second one only chooses the answer, 204 or 404, which is left out.    *)
(***************************************************************************)
EXTENDS Loadouts, FiniteSets

CONSTANTS
  Report,    \* ids of loadout_reports rows (a bound on the rows inserted)
  User,      \* logged-in users
  Filing,    \* slots for concurrent report requests
  NoUser,
  HourlyCap, \* reports of a user in an hour
  MaxFaults  \* bound on the failures of the query that counts them

ASSUME FeedbackAssumption ==
  HourlyCap \in Nat /\ MaxFaults \in Nat /\ NoUser \notin User
  /\ IsFiniteSet(Report) /\ IsFiniteSet(Filing) /\ Filing # {}

VARIABLES
  report,  \* the loadout_reports table
  filing,  \* the createReport request in each slot
  liked,   \* the loadout_likes table
  shown,   \* history: what each loadout showed to the public
  faults   \* history: how often the counting query failed

reports == <<report, filing, faults>>
vars == <<store, reports, liked, shown>>

\* fresh: created less than an hour ago.
ReportRow == [loadout : Loadout \cup {NoLoadout}, by : User \cup {NoUser},
              status : {"none", "open", "resolved", "dismissed"},
              evidence : Hash \cup {NoHash}, fresh : BOOLEAN]

Filed(p) == report[p].status # "none"
Recent(u) == {p \in Report : Filed(p) /\ report[p].by = u /\ report[p].fresh}

FeedbackTypeOK ==
  /\ TypeOK
  /\ report \in [Report -> ReportRow]
  /\ filing \in [Filing -> [by : User \cup {NoUser}, loadout : Loadout \cup {NoLoadout}]]
  /\ liked \in [User -> SUBSET Loadout]
  /\ shown \in [Loadout -> SUBSET Hash]
  /\ faults \in 0 .. MaxFaults

NoReport == [loadout |-> NoLoadout, by |-> NoUser, status |-> "none",
             evidence |-> NoHash, fresh |-> FALSE]
NoFiling == [by |-> NoUser, loadout |-> NoLoadout]

Public(l) == row[l].status = "published"

FeedbackInit ==
  /\ Init
  /\ report = [p \in Report |-> NoReport]
  /\ filing = [f \in Filing |-> NoFiling]
  /\ liked = [u \in User |-> {}]
  /\ shown = [l \in Loadout |-> IF Public(l) THEN {row[l].hash} ELSE {}]
  /\ faults = 0

\* What the public sees after a step is remembered.
Remember == shown' = [l \in Loadout |-> shown[l] \cup (IF row'[l].status = "published"
                                                       THEN {row'[l].hash} ELSE {})]

-----------------------------------------------------------------------------
(* Reports.                                                                *)

\* Wrong: the cap is compared with <=.
CountReportsOneMore(f, u, l) ==
  /\ filing[f] = NoFiling /\ Cardinality(Recent(u)) <= HourlyCap
  /\ filing' = [filing EXCEPT ![f] = [by |-> u, loadout |-> l]]
  /\ UNCHANGED <<store, report, liked, shown, faults>>

\* createReport: SELECT count(*) of the user's reports in the last hour.
CountReports(f, u, l) ==
  /\ filing[f] = NoFiling /\ Cardinality(Recent(u)) < HourlyCap
  /\ filing' = [filing EXCEPT ![f] = [by |-> u, loadout |-> l]]
  /\ UNCHANGED <<store, report, liked, shown, faults>>

\* The query fails: its error is dropped and the count stays 0.
CountFails(f, u, l) ==
  /\ filing[f] = NoFiling /\ HourlyCap > 0 /\ faults < MaxFaults
  /\ filing' = [filing EXCEPT ![f] = [by |-> u, loadout |-> l]]
  /\ faults' = faults + 1
  /\ UNCHANGED <<store, report, liked, shown>>

\* loadout_reports_open_source_idx: the user has an open report on the loadout.
AlreadyOpen(u, l) ==
  \E p \in Report : report[p].status = "open" /\ report[p].by = u /\ report[p].loadout = l

\* Wrong: any loadout can be reported.
InsertReportOnAny(f, p) ==
  LET u == filing[f].by l == filing[f].loadout IN
  /\ filing[f] # NoFiling /\ ~Filed(p)
  /\ ~AlreadyOpen(u, l)
  /\ report' = [report EXCEPT ![p] = [loadout |-> l, by |-> u, status |-> "open",
                                      evidence |-> row[l].hash, fresh |-> TRUE]]
  /\ filing' = [filing EXCEPT ![f] = NoFiling]
  /\ UNCHANGED <<store, liked, shown, faults>>

\* Wrong: reports start in a status of their own.
InsertReportPending(f, p) ==
  LET u == filing[f].by l == filing[f].loadout IN
  /\ filing[f] # NoFiling /\ ~Filed(p)
  /\ Public(l) /\ ~AlreadyOpen(u, l)
  /\ report' = [report EXCEPT ![p] = [loadout |-> l, by |-> u, status |-> "pending",
                                      evidence |-> row[l].hash, fresh |-> TRUE]]
  /\ filing' = [filing EXCEPT ![f] = NoFiling]
  /\ UNCHANGED <<store, liked, shown, faults>>

\* Its INSERT ... SELECT copies the evidence from a published loadout.
InsertReport(f, p) ==
  LET u == filing[f].by l == filing[f].loadout IN
  /\ filing[f] # NoFiling /\ ~Filed(p)
  /\ Public(l) /\ ~AlreadyOpen(u, l)
  /\ report' = [report EXCEPT ![p] = [loadout |-> l, by |-> u, status |-> "open",
                                      evidence |-> row[l].hash, fresh |-> TRUE]]
  /\ filing' = [filing EXCEPT ![f] = NoFiling]
  /\ UNCHANGED <<store, liked, shown, faults>>

\* It inserts nothing, and the user is told that a report is open; or it fails.
NoInsert(f) ==
  /\ filing[f] # NoFiling
  /\ filing' = [filing EXCEPT ![f] = NoFiling]
  /\ UNCHANGED <<store, report, liked, shown, faults>>

\* An hour has passed since the report.  That reports age in the order they were
\* filed is left out: fewer recent reports never forbid a step.
Age(p) ==
  /\ report[p].fresh
  /\ report' = [report EXCEPT ![p].fresh = FALSE]
  /\ UNCHANGED <<store, filing, liked, shown, faults>>

\* Wrong: a report that was closed already can be resolved again.
ResolvableEver(p) == Filed(p)

\* The WHERE clause of the first UPDATE of resolveReport.
Resolvable(p) == report[p].status = "open"

\* resolveReport with no action on the loadout ...
CloseReport(p, s) ==
  /\ Resolvable(p)
  /\ report' = [report EXCEPT ![p].status = s]
  /\ UNCHANGED <<store, filing, liked, shown, faults>>

\* ... and with one: both rows in one transaction.
ResolveReport(p, s, to) ==
  /\ Resolvable(p)
  /\ report' = [report EXCEPT ![p].status = s]
  /\ Moderate(report[p].loadout, to) /\ Remember
  /\ UNCHANGED <<filing, liked, faults>>

-----------------------------------------------------------------------------
(* Likes.                                                                  *)

\* INSERT ... SELECT from a published loadout, ON CONFLICT DO NOTHING.
LikeLoadout(u, l) ==
  /\ Public(l)
  /\ liked' = [liked EXCEPT ![u] = @ \cup {l}]
  /\ UNCHANGED <<store, reports, shown>>

UnlikeLoadout(u, l) ==
  /\ liked' = [liked EXCEPT ![u] = @ \ {l}]
  /\ UNCHANGED <<store, reports, shown>>

-----------------------------------------------------------------------------
FeedbackNext ==
  \/ LoadoutsNext /\ Remember /\ UNCHANGED <<reports, liked>>
  \/ \E f \in Filing, u \in User, l \in Loadout : CountReports(f, u, l)
  \/ \E f \in Filing, u \in User, l \in Loadout : CountFails(f, u, l)
  \/ \E f \in Filing, p \in Report : InsertReport(f, p)
  \/ \E f \in Filing : NoInsert(f)
  \/ \E p \in Report : Age(p)
  \/ \E p \in Report, s \in {"resolved", "dismissed"} : CloseReport(p, s)
  \/ \E p \in Report, s \in {"resolved", "dismissed"}, to \in Statuses : ResolveReport(p, s, to)
  \/ \E u \in User, l \in Loadout : LikeLoadout(u, l)
  \/ \E u \in User, l \in Loadout : UnlikeLoadout(u, l)

FeedbackSpec == FeedbackInit /\ [][FeedbackNext]_vars

-----------------------------------------------------------------------------
\* Only what was public is liked or reported, and a report keeps as evidence
\* something its loadout really showed, whatever edits, hidings and deletions
\* fall between the count and the insertion.
FeedbackOnShown ==
  /\ \A p \in Report : Filed(p) => report[p].evidence \in shown[report[p].loadout]
  /\ \A u \in User : \A l \in liked[u] : shown[l] # {}

\* Resolving is final and all or nothing: a closed report changes no more, the
\* evidence never does, and a loadout's status changes without a new version
\* only in the step that closes an open report on it.
ResolvedOnceWithItsAction ==
  [][/\ \A p \in Report : Filed(p) =>
          /\ report'[p].evidence = report[p].evidence /\ report'[p].loadout = report[p].loadout
          /\ report[p].status # "open" => report'[p].status = report[p].status
     /\ \A l \in Loadout : row'[l].status # row[l].status /\ row'[l].version = row[l].version =>
          \E p \in Report : /\ report[p].loadout = l /\ report[p].status = "open"
                            /\ report'[p].status # "open"]_vars

\* The hourly cap of a user is passed by at most the requests that run at the
\* same time, and by the failures of the query that counts.
ReportsNearlyCapped ==
  \A u \in User : Cardinality(Recent(u)) + Cardinality({f \in Filing : filing[f].by = u})
                    <= HourlyCap + Cardinality(Filing) - 1 + faults
=============================================================================
