----------------------------- MODULE TargetForm -----------------------------
(***************************************************************************)
(* The deployment target form of the console: DeploymentTargetPanel and    *)
(* DeploymentTargetDialog (console/src/components) with the conversions of *)
(* lib/deployment-target-form.ts, against the part of the API's            *)
(* upsertDeploymentTarget that decides what a saved target becomes.  The   *)
(* form is a copy of the target it was opened on; fields stay open while a *)
(* save is under way; the pane may be given another project meanwhile, by  *)
(* a late answer of another panel, and the form stays.                     *)
(***************************************************************************)
EXTENDS Naturals, Sequences

CONSTANTS
    Proj, TargetKey,
    AppName,        \* names of apps, and of images
    Slug,           \* the project's slug, the name of the default app
    TypedHost,      \* hosts that operators type
    Ref,            \* branches
    DefaultRefOf,   \* DEFAULT_DEPLOY_REFS: Blank for a custom key
    NoneRef,        \* DEPLOY_REF_DISABLED
    Blank,          \* an empty field
    Starts,         \* the targets a project may have at first
    MaxEdits        \* bound: edits and openings of the form

ASSUME TargetFormAssumption ==
    /\ Slug \in AppName /\ MaxEdits \in Nat
    /\ DefaultRefOf \in [TargetKey -> Ref \cup {Blank}]
    /\ NoneRef \notin Ref /\ Blank \notin Ref \cup AppName \cup TypedHost
    /\ Blank \notin TargetKey \X AppName

VARIABLES
    stored,     \* the targets of each project
    pane,       \* the project the panel is given
    form,       \* the form, Blank while the dialog is closed
    removeKey,  \* the key the removal dialog asks about
    request,    \* the mutation in flight, Blank when not busy
    edits

formPanel == <<stored, pane, form, removeKey, request, edits>>

DerivedFor(k, n) == <<k, n>>                    \* deriveAppHost(Preview)
HostOf == TypedHost \cup (TargetKey \X AppName)
AppRec == [name : AppName, image : AppName, host : HostOf]
StoredTarget == [on : BOOLEAN, ref : Ref \cup {NoneRef}, apps : Seq(AppRec)]

(* A disabled target is stored without a branch to deploy.                  *)
ASSUME StartsAssumption ==
    \A s \in Starts : /\ s \in [TargetKey -> StoredTarget \cup {Blank}]
                      /\ \A k \in TargetKey : s[k] # Blank /\ ~s[k].on => s[k].ref = NoneRef

-----------------------------------------------------------------------------
(* targetFormFromProject and createDefaultAppRow.  A row remembers the app   *)
(* it was opened on, and a form its target, for the property below.          *)
FreshRow(n) == [name |-> n, image |-> n, host |-> Blank, over |-> FALSE,
                auto |-> TRUE, was |-> Blank]
RowNotOverridden == FALSE
RowOverridden == TRUE
StoredRow(app) == [name |-> app.name, image |-> app.image, host |-> app.host,
                   over |-> RowOverridden, auto |-> FALSE, was |-> app]

NewForm == [key |-> Blank, on |-> TRUE, ref |-> Blank,
            rows |-> <<FreshRow(Slug)>>, opened |-> Blank, home |-> pane]
FormOf(k, t) ==
    [key |-> k, on |-> t.on, ref |-> IF t.ref = NoneRef THEN Blank ELSE t.ref,
     rows |-> [i \in DOMAIN t.apps |-> StoredRow(t.apps[i])],
     opened |-> t, home |-> pane]

(* resolveAppsForSubmit. *)
SentApp(row, k) ==
    [name |-> row.name, image |-> row.image,
     host |-> IF row.over /\ row.host # Blank THEN row.host ELSE DerivedFor(k, row.name)]

(* The API: the ref of a saved target, and what it accepts. *)
RefOnSave(k, on, ref, old) ==
    IF ~on THEN NoneRef
    ELSE IF ref # Blank THEN ref
    ELSE IF old # Blank THEN old.ref
    ELSE DefaultRefOf[k]
Distinct(apps) ==
    \A i, j \in DOMAIN apps : i # j => apps[i].name # apps[j].name /\ apps[i].image # apps[j].image
Accepted(c) ==
    /\ Distinct(c.apps)
    /\ LET ref == RefOnSave(c.key, c.on, c.ref, stored[c.id][c.key])
       IN ref # Blank /\ (c.on => ref # NoneRef)

-----------------------------------------------------------------------------
Edits == edits < MaxEdits /\ edits' = edits + 1
IsOpen == form # Blank
Busy == request # Blank

\* Add target, or Edit of a row of the table: disabled while busy.
OpensNew ==
    /\ Edits /\ ~IsOpen /\ removeKey = Blank /\ ~Busy
    /\ form' = NewForm
    /\ UNCHANGED <<stored, pane, removeKey, request>>
Opens(k) ==
    /\ Edits /\ ~IsOpen /\ removeKey = Blank /\ ~Busy /\ stored[pane][k] # Blank
    /\ form' = FormOf(k, stored[pane][k])
    /\ UNCHANGED <<stored, pane, removeKey, request>>

\* Typing in the form, also while a save is under way.
Typed(new) == Edits /\ IsOpen /\ form' = new /\ UNCHANGED <<stored, pane, removeKey, request>>
TypesKey(k) ==
    /\ IsOpen /\ form.opened = Blank /\ k # form.key
    /\ Typed([form EXCEPT !.key = k, !.rows =
                 [i \in DOMAIN @ |-> IF @[i].over THEN @[i] ELSE [@[i] EXCEPT !.host = Blank]]])
TypesRef(r) == IsOpen /\ r # form.ref /\ Typed([form EXCEPT !.ref = r])
Toggles == IsOpen /\ Typed([form EXCEPT !.on = ~@])
NameOnly(row, n) == [row EXCEPT !.name = n]
Renamed(row, n) == [row EXCEPT !.name = n, !.image = IF row.auto THEN n ELSE @]
RenamesApp(i, n) ==
    /\ IsOpen /\ i \in DOMAIN form.rows /\ n # form.rows[i].name
    /\ Typed([form EXCEPT !.rows[i] = Renamed(@, n)])
TypesImage(i, n) ==
    /\ IsOpen /\ i \in DOMAIN form.rows /\ n # form.rows[i].image
    /\ Typed([form EXCEPT !.rows[i] = [@ EXCEPT !.image = n, !.auto = FALSE]])
TypesHost(i, h) ==
    /\ IsOpen /\ i \in DOMAIN form.rows /\ h # form.rows[i].host
    /\ Typed([form EXCEPT !.rows[i] = [@ EXCEPT !.host = h, !.over = TRUE]])
AddsApp ==
    /\ IsOpen /\ ~Busy
    /\ Typed([form EXCEPT !.rows = Append(@, FreshRow(Blank))])
RemovesApp(i) ==
    /\ IsOpen /\ Len(form.rows) > 1 /\ i \in DOMAIN form.rows
    /\ Typed([form EXCEPT !.rows = SubSeq(@, 1, i - 1) \o SubSeq(@, i + 1, Len(@))])

\* Cancel is never disabled.
Cancels ==
    /\ IsOpen
    /\ form' = Blank
    /\ UNCHANGED <<stored, pane, removeKey, request, edits>>

\* Save: the target goes to the project the pane has by now.
Submits ==
    /\ IsOpen /\ ~Busy /\ form.key # Blank
    /\ \A i \in DOMAIN form.rows : form.rows[i].name # Blank /\ form.rows[i].image # Blank
    /\ request' = [op |-> "save", id |-> pane, key |-> form.key, on |-> form.on,
                   ref |-> form.ref, form |-> form,
                   apps |-> [i \in DOMAIN form.rows |-> SentApp(form.rows[i], form.key)]]
    /\ UNCHANGED <<stored, pane, form, removeKey, edits>>

\* Remove asks for the key to be typed.
AsksRemoval(k) ==
    /\ Edits /\ ~IsOpen /\ ~Busy /\ removeKey = Blank /\ stored[pane][k] # Blank
    /\ removeKey' = k
    /\ UNCHANGED <<stored, pane, form, request>>
DropsRemoval ==
    /\ removeKey # Blank
    /\ removeKey' = Blank
    /\ UNCHANGED <<stored, pane, form, request, edits>>
ConfirmsRemoval ==
    /\ removeKey # Blank /\ ~Busy
    /\ removeKey' = Blank
    /\ request' = [op |-> "remove", id |-> pane, key |-> removeKey]
    /\ UNCHANGED <<stored, pane, form, edits>>

SavedTarget(c) ==
    [on |-> c.on, ref |-> RefOnSave(c.key, c.on, c.ref, stored[c.id][c.key]), apps |-> c.apps]

\* The answer closes the form and selects the project it came with.
SaveAnswered ==
    /\ Busy /\ request.op = "save" /\ Accepted(request)
    /\ stored' = [stored EXCEPT ![request.id][request.key] = SavedTarget(request)]
    /\ pane' = request.id /\ form' = Blank /\ request' = Blank
    /\ UNCHANGED <<removeKey, edits>>
RemovalAnswered ==
    /\ Busy /\ request.op = "remove" /\ stored[request.id][request.key] # Blank
    /\ stored' = [stored EXCEPT ![request.id][request.key] = Blank]
    /\ pane' = request.id /\ request' = Blank
    /\ UNCHANGED <<form, removeKey, edits>>

\* Refused, or the answer was lost after the API had saved: the form stays.
AnswerLost ==
    /\ Busy
    /\ \/ UNCHANGED stored
       \/ /\ request.op = "save" /\ Accepted(request)
          /\ stored' = [stored EXCEPT ![request.id][request.key] = SavedTarget(request)]
       \/ request.op = "remove" /\ stored' = [stored EXCEPT ![request.id][request.key] = Blank]
    /\ request' = Blank
    /\ UNCHANGED <<pane, form, removeKey, edits>>

\* A late answer of another panel, for a project selected before.
PaneJumps(p) ==
    /\ p # pane
    /\ pane' = p
    /\ UNCHANGED <<stored, form, removeKey, request, edits>>

TargetFormInit ==
    /\ stored \in [Proj -> Starts]
    /\ pane \in Proj
    /\ form = Blank /\ removeKey = Blank /\ request = Blank /\ edits = 0

TargetFormNext ==
    \/ OpensNew \/ \E k \in TargetKey : Opens(k) \/ TypesKey(k) \/ AsksRemoval(k)
    \/ \E r \in Ref \cup {Blank} : TypesRef(r)
    \/ Toggles \/ AddsApp \/ Cancels \/ Submits
    \/ \E i \in 1..(MaxEdits + 1) :
          \/ \E n \in AppName : RenamesApp(i, n) \/ TypesImage(i, n)
          \/ \E h \in TypedHost \cup {Blank} : TypesHost(i, h)
          \/ RemovesApp(i)
    \/ DropsRemoval \/ ConfirmsRemoval
    \/ SaveAnswered \/ RemovalAnswered \/ AnswerLost
    \/ \E p \in Proj : PaneJumps(p)

TargetFormSpec == TargetFormInit /\ [][TargetFormNext]_formPanel

TargetFormTypeOK ==
    /\ \A p \in Proj, k \in TargetKey : stored[p][k] \in StoredTarget \cup {Blank}
    /\ pane \in Proj /\ edits \in 0..MaxEdits
    /\ IsOpen => form.key \in TargetKey \cup {Blank} /\ form.ref \in Ref \cup {Blank}
    /\ removeKey \in TargetKey \cup {Blank}
    /\ Busy => request.id \in Proj /\ request.key \in TargetKey

\* What the operator left alone in a row of the form that was sent.
LeftAlone(row) == row.was # Blank /\ row.name = row.was.name
                  /\ row.image = row.was.image /\ row.host = row.was.host

(* A saved target differs from the one the form was opened on only where    *)
(* the operator edited it: apps left alone keep their name, image and host  *)
(* through the blank fields and the overrides of the form, the branch stays *)
(* when neither it nor the switch was touched, and an app with no host of   *)
(* its own gets the one of the key and the name it was saved with.          *)
EditKeepsTheRest ==
    [][ SaveAnswered /\ request.form.home = request.id =>
          LET f == request.form
              t == stored'[request.id][request.key]
          IN  /\ Len(t.apps) = Len(f.rows)
              /\ \A i \in DOMAIN f.rows :
                    /\ LeftAlone(f.rows[i]) => t.apps[i] = f.rows[i].was
                    /\ f.rows[i].host = Blank => t.apps[i].host = <<request.key, t.apps[i].name>>
                    /\ f.rows[i].auto => t.apps[i].image = t.apps[i].name
              /\ f.opened # Blank /\ f.on = f.opened.on
                 /\ f.ref \in {f.opened.ref, Blank} /\ stored[request.id][request.key] = f.opened
                 => t.ref = f.opened.ref ]_formPanel
=============================================================================
