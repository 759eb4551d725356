----------------------------- MODULE ConsolePage -----------------------------
(***************************************************************************)
(* The projects page of the console: ConsolePage, ProjectList and          *)
(* ProjectDetail (console/src/components) with the log view of LogPanel.   *)
(* A request is in flight between two steps; the operator goes on clicking *)
(* meanwhile.  React runs the effects of a change before the next event,   *)
(* so a step is an event together with the effects it causes.              *)
(***************************************************************************)
EXTENDS LogPanel, FiniteSets

CONSTANTS
    Shown,      \* projects of the registry
    NoProject,
    MaxSaves,   \* bound: changes made to a project by this page
    MaxLists,   \* bound: list requests in flight
    MaxClicks   \* bound: clicks of the operator

ASSUME ConsoleAssumption ==
    /\ NoProject \notin Shown
    /\ MaxSaves \in Nat /\ MaxLists \in Nat \ {0} /\ MaxClicks \in Nat

VARIABLES
    registry,   \* what the API holds of each project: its status and updatedAt
    selected,   \* the row in the detail pane
    preferred,  \* ?id= of the address
    category,   \* the tab of the list
    rows,       \* the rows of the list
    lists,      \* categories of the list requests in flight
    tab,        \* the tab of the detail pane
    audits,     \* audit requests in flight, live until the effect is cleaned up
    auditOf,    \* the project whose audit rows are on screen
    auditing,   \* auditLoading
    mutation,       \* the mutation in flight
    panelOf,    \* the project the log view was opened for
    clicks      \* clicks so far, bounded by MaxClicks

pageVars == <<registry, selected, preferred, category, rows, lists, tab,
              audits, auditOf, auditing, mutation, panelOf,
              clicks>>
consoleVars == <<pageVars, logVars>>

Status == {"active", "archived"}
Row == [id : Shown, status : Status, at : 0..MaxSaves]
Tabs == {"settings", "audit", "app-logs"}

RowOf(p) == [id |-> p, status |-> registry[p].status, at |-> registry[p].at]
Listed(cat) == {RowOf(p) : p \in {q \in Shown : registry[q].status = cat}}

\* The tab effect: settings for a project, the logs for an archived one.
HomeTab(s) == IF s.status = "archived" THEN "app-logs" ELSE "settings"

\* An effect's cleanup: the requests it sent no longer count.
Forgets(asked) == {[r EXCEPT !.live = FALSE] : r \in asked}

LeavesLogs ==
    panelOf' = NoProject /\ Appears

\* The detail pane is given row s and tab t: the audit effect runs when the
\* tab, the project or its updatedAt changed, then the tab effect when the
\* project or its status did.  The log view keeps its state as long as its tab
\* stays the open one, whichever project the pane shows.
Shows(s, t) ==
    LET moved == s # NoProject /\ (selected = NoProject
                     \/ <<selected.id, selected.status>> # <<s.id, s.status>>)
        now == IF s = NoProject THEN "settings" ELSE IF moved THEN HomeTab(s) ELSE t
        asked == s # NoProject /\ now = "audit"
                 /\ (moved \/ tab # "audit" \/ selected.at # s.at)
    IN /\ selected' = s
       /\ tab' = now
       /\ audits' = (IF asked \/ now # "audit" THEN Forgets(audits) ELSE audits)
                    \cup (IF asked THEN {[id |-> s.id, live |-> TRUE]} ELSE {})
       /\ auditing' = (s # NoProject /\ (auditing \/ asked))
       /\ auditOf' = IF s = NoProject THEN NoProject ELSE auditOf
       /\ IF now # "app-logs" \/ s = NoProject THEN LeavesLogs
          ELSE IF tab = "app-logs" /\ selected # NoProject THEN UNCHANGED <<panelOf, logVars>>
          ELSE panelOf' = s.id /\ Appears

\* ProjectList asks again when the category or the refresh token changes.
Relists(cat) ==
    /\ Cardinality(lists) < MaxLists \/ cat \in lists
    /\ lists' = lists \cup {cat}

\* The operator acts on the page; a dialog that is busy does not let go.
Clicks ==
    /\ ~(mutation # NoProject /\ mutation.op = "delete")
    /\ clicks < MaxClicks /\ clicks' = clicks + 1

\* A click on a row of the list, which also goes to the address.
Selects(s) ==
    /\ Clicks /\ s \in rows
    /\ Shows(s, tab)
    /\ preferred' = s.id
    /\ UNCHANGED <<registry, category, rows, lists, mutation>>

SelectsTab(t) ==
    /\ Clicks /\ selected # NoProject
    /\ t # tab /\ (t = "settings" => selected.status = "active")
    /\ Shows(selected, t)
    /\ UNCHANGED <<registry, preferred, category, rows, lists, mutation>>

ChangesCategory(cat) ==
    /\ Clicks /\ cat # category
    /\ category' = cat
    /\ Relists(cat)
    /\ Shows(NoProject, "settings")
    /\ UNCHANGED <<registry, preferred, rows, mutation>>

\* The list arrives, whichever category it was asked for; with nothing selected
\* the project of the address is selected when it is in it.
ListArrives(cat) ==
    /\ cat \in lists
    /\ lists' = lists \ {cat}
    /\ rows' = Listed(cat)
    /\ LET match == {s \in Listed(cat) : s.id = preferred}
       IN IF selected = NoProject /\ match # {}
          THEN \E s \in match : Shows(s, "settings")
          ELSE UNCHANGED <<selected, tab, audits, auditing, auditOf, panelOf, logVars>>
    /\ UNCHANGED <<clicks, registry, preferred, category, mutation>>

ListFails(cat) ==
    /\ cat \in lists
    /\ lists' = lists \ {cat}
    /\ UNCHANGED <<clicks, registry, selected, preferred, category, rows, tab, audits,
                   auditOf, auditing, mutation, panelOf, logVars>>

\* A mutation of a settings panel, or the confirmed deletion, is sent.
Sends(op) ==
    /\ Clicks /\ mutation = NoProject /\ selected # NoProject
    /\ op = "save" => tab = "settings" /\ registry[selected.id].at < MaxSaves
    /\ mutation' = [id |-> selected.id, op |-> op]
    /\ UNCHANGED <<registry, selected, preferred, category, rows, lists, tab,
                   audits, auditOf, auditing, panelOf, logVars>>

\* onUpdated, onArchived and onDeleted: the answer becomes the selection, the
\* list is asked again.
Saved ==
    /\ mutation # NoProject /\ mutation.op = "save" /\ registry[mutation.id].status = "active"
    /\ registry' = [registry EXCEPT ![mutation.id].at = @ + 1]
    /\ Shows([id |-> mutation.id, status |-> "active", at |-> registry[mutation.id].at + 1], tab)
    /\ Relists(category)
    /\ mutation' = NoProject
    /\ UNCHANGED <<clicks, preferred, category, rows>>

Archived ==
    /\ mutation # NoProject /\ mutation.op = "delete"
    /\ registry' = [registry EXCEPT ![mutation.id].status = "archived"]
    /\ Shows([id |-> mutation.id, status |-> "archived", at |-> registry[mutation.id].at], tab)
    /\ category' = "archived"
    /\ Relists("archived")
    /\ mutation' = NoProject
    /\ UNCHANGED <<clicks, preferred, rows>>

Deleted ==
    /\ mutation # NoProject /\ mutation.op = "delete"
    /\ registry' = [registry EXCEPT ![mutation.id].status = "gone"]
    /\ Shows(NoProject, "settings")
    /\ Relists(category)
    /\ mutation' = NoProject
    /\ UNCHANGED <<clicks, preferred, category, rows>>

Refused ==
    /\ mutation # NoProject
    /\ mutation' = NoProject
    /\ UNCHANGED <<clicks, registry, selected, preferred, category, rows, lists, tab,
                   audits, auditOf, auditing, panelOf, logVars>>

\* The audit rows of a project arrive, or the request fails.
Counts(r) == r.live
AuditAnswered(r, rowsOf) ==
    /\ r \in audits
    /\ audits' = audits \ {r}
    /\ IF Counts(r) THEN auditOf' = rowsOf /\ auditing' = FALSE
       ELSE UNCHANGED <<auditOf, auditing>>
    /\ UNCHANGED <<clicks, registry, selected, preferred, category, rows, lists, tab,
                   mutation, panelOf, logVars>>
AuditArrives(r) == AuditAnswered(r, r.id)
AuditFails(r) == AuditAnswered(r, NoProject)

\* The log view of the detail pane at work.
Follows ==
    /\ panelOf # NoProject /\ LogNext
    /\ UNCHANGED pageVars

ConsoleInit ==
    /\ registry \in [Shown -> {[status |-> st, at |-> 0] : st \in Status}]
    /\ selected = NoProject /\ preferred \in Shown \cup {NoProject}
    /\ category = "active" /\ rows = {} /\ lists = {"active"}
    /\ tab = "settings" /\ audits = {} /\ auditOf = NoProject /\ auditing = FALSE
    /\ mutation = NoProject /\ panelOf = NoProject
    /\ clicks = 0
    /\ LogInit

ConsoleNext ==
    \/ \E s \in rows : Selects(s)
    \/ \E t \in Tabs : SelectsTab(t)
    \/ \E cat \in Status : ChangesCategory(cat) \/ ListArrives(cat) \/ ListFails(cat)
    \/ \E op \in {"save", "delete"} : Sends(op)
    \/ Saved \/ Archived \/ Deleted \/ Refused
    \/ \E r \in audits : AuditArrives(r) \/ AuditFails(r)
    \/ Follows

ConsoleSpec == ConsoleInit /\ [][ConsoleNext]_consoleVars

ConsoleTypeOK ==
    /\ registry \in [Shown -> [status : Status \cup {"gone"}, at : 0..MaxSaves]]
    /\ selected \in Row \cup {NoProject}
    /\ preferred \in Shown \cup {NoProject}
    /\ category \in Status
    /\ rows \subseteq Row
    /\ lists \subseteq Status
    /\ tab \in Tabs
    /\ audits \subseteq [id : Shown, live : BOOLEAN]
    /\ auditOf \in Shown \cup {NoProject}
    /\ auditing \in BOOLEAN
    /\ mutation \in [id : Shown, op : {"save", "delete"}] \cup {NoProject}
    /\ panelOf \in Shown \cup {NoProject}
    /\ clicks \in 0..MaxClicks
    /\ LogTypeOK

(* What has arrived on the page belongs to what the page says: the audit    *)
(* rows under a project's heading are that project's (or none: the request  *)
(* failed), whichever projects and tabs were opened while answers were      *)
(* under way; a pane that is loading will stop; log lines are those of the  *)
(* choice on their form; and the form is for the project of the heading     *)
(* whenever that is an active one.  Going from one archived project to      *)
(* another the tab stays, and its panel keeps the project it was made for:  *)
(* there the lines are of the form's project and not of the heading's.      *)
AnswersMatchScreen ==
    /\ selected # NoProject /\ tab = "audit" /\ ~auditing
       => auditOf \in {selected.id, NoProject}
    /\ selected # NoProject /\ tab = "audit" /\ auditing
       => \E r \in audits : r.live /\ r.id = selected.id
    /\ LogsMatchChoice
    /\ selected # NoProject /\ tab = "app-logs" /\ selected.status = "active"
       => panelOf = selected.id
=============================================================================
