---------------------------- MODULE ProfileEditor ----------------------------
(***************************************************************************)
(* The environment profile forms of the console: the upload form           *)
(* (console/src/components/EnvProfilePanel.tsx), which keeps one content   *)
(* as text and as key rows and converts between them when the phase, the   *)
(* delivery or the way of typing changes, and the dialog that edits a      *)
(* stored profile (EnvProfileDetailDialog.tsx).  Calls to the API and the  *)
(* reading of a picked file end in a later step.                           *)
(***************************************************************************)
EXTENDS Naturals

CONSTANTS
    EnvKey,          \* keys of a dotenv content
    Stored,        \* profiles the project has
    NoneOpen,
    MaxUploads     \* bound: profiles the form stores

ASSUME EditorAssumption == NoneOpen \notin Stored /\ MaxUploads \in Nat

VARIABLES
    phase, delivery, mode,   \* the switches of the upload form
    text,        \* form.content: its keys, and whether it has other lines
    keyRows,     \* the keys of the row editor
    reading,     \* picked files whose text is not read yet, with the mode then
    upload,      \* the upload under way: idle, its mutation, its refetch
    uploaded,    \* profiles stored by the form
    dialog,      \* the profile being managed
    fetching,    \* the dialog loads its secrets
    content,     \* the profile the content of the dialog was read from
    failed,      \* the last load of the dialog failed
    saving       \* the save under way

editorVars == <<phase, delivery, mode, text, keyRows, reading, upload, uploaded,
                dialog, fetching, content, failed, saving>>
formVars == <<phase, delivery, mode, text, keyRows, reading, upload, uploaded>>
dialogVars == <<dialog, fetching, content, failed, saving>>

Text == [keys : SUBSET EnvKey, other : BOOLEAN]
Empty == [keys |-> {}, other |-> FALSE]

\* serializeEnvRows and parseDotenvToRows: comments and odd lines do not survive.
Serialized(keys) == [keys |-> keys, other |-> FALSE]
Parsed(t) == t.keys

PerKeyAllowed(ph, del) == ph = "runtime" \/ del = "dotenv"

\* resolveContent: what an upload would send.
Resolved ==
    IF mode = "per_key" /\ PerKeyAllowed(phase, delivery) THEN Serialized(keyRows) ELSE text

\* The dialog is modal: the form takes clicks only while it is closed.
AtForm == dialog = NoneOpen

\* The operator types, in the editor that is shown.
Types(t) ==
    /\ AtForm
    /\ IF mode = "per_key"
       THEN /\ upload = "idle" /\ t.other = FALSE /\ keyRows' = t.keys
            /\ UNCHANGED text
       ELSE text' = t /\ UNCHANGED keyRows
    /\ UNCHANGED <<phase, delivery, mode, reading, upload, uploaded, dialogVars>>

\* A file is picked; when its text is there it replaces the content, and the
\* rows if the form was in per-key mode when it was picked.
Picks(t) ==
    /\ AtForm /\ mode = "file" /\ reading = {}
    /\ reading' = {t}
    /\ UNCHANGED <<phase, delivery, mode, text, keyRows, upload, uploaded, dialogVars>>

FileRead(t) ==
    /\ t \in reading
    /\ reading' = reading \ {t}
    /\ text' = t
    /\ UNCHANGED <<phase, delivery, mode, keyRows, upload, uploaded, dialogVars>>

\* setContentInputMode
SwitchesMode(m) ==
    /\ AtForm /\ m # mode
    /\ m = "per_key" => PerKeyAllowed(phase, delivery)
    /\ mode' = m
    /\ text' = IF mode = "per_key" THEN Serialized(keyRows) ELSE text
    /\ keyRows' = IF m = "per_key" THEN Parsed(text) ELSE keyRows
    /\ UNCHANGED <<phase, delivery, reading, upload, uploaded, dialogVars>>

\* onPhaseChange, onDeliveryChange: raw files have no per-key editor, so the
\* rows become the text.
LeavesByDelivery(ph, del) == mode = "per_key" /\ del = "raw" /\ phase = ph
LeavesRows(ph, del) == mode = "per_key" /\ ~PerKeyAllowed(ph, del)
SwitchesTo(ph, del) ==
    /\ AtForm
    /\ phase' = ph /\ delivery' = del
    /\ IF LeavesRows(ph, del)
       THEN mode' = "paste" /\ text' = Serialized(keyRows)
       ELSE UNCHANGED <<mode, text>>
    /\ UNCHANGED <<keyRows, reading, upload, uploaded, dialogVars>>

SwitchesPhase(ph) == ph # phase /\ SwitchesTo(ph, delivery)
SwitchesDelivery(del) == phase = "build" /\ del # delivery /\ SwitchesTo(phase, del)

\* upload: nothing is sent without content; the form stays as it is when the
\* mutation or the refetch of the project fails, and is cleared after both.
Uploads ==
    /\ AtForm /\ upload = "idle"
    /\ Resolved # Empty /\ uploaded < MaxUploads
    /\ upload' = "sent"
    /\ UNCHANGED <<phase, delivery, mode, text, keyRows, reading, uploaded, dialogVars>>

Uploaded ==
    /\ upload = "sent"
    /\ upload' = "refetch" /\ uploaded' = uploaded + 1
    /\ UNCHANGED <<phase, delivery, mode, text, keyRows, reading, dialogVars>>

UploadFails ==
    /\ upload \in {"sent", "refetch"}
    /\ upload' = "idle"
    /\ UNCHANGED <<phase, delivery, mode, text, keyRows, reading, uploaded, dialogVars>>

UploadDone ==
    /\ upload = "refetch"
    /\ upload' = "idle"
    /\ phase' = "runtime" /\ delivery' = "dotenv" /\ mode' = "paste"
    /\ text' = Empty /\ keyRows' = {}
    /\ UNCHANGED <<reading, uploaded, dialogVars>>

\* Manage opens the dialog, which loads the secrets of the profile; what it
\* showed last stays in its state until they arrive.
Manages(p) ==
    /\ AtForm /\ upload = "idle"
    /\ dialog' = p /\ fetching' = TRUE /\ failed' = FALSE
    /\ UNCHANGED <<content, saving, formVars>>

Fetched ==
    /\ fetching
    /\ fetching' = FALSE /\ content' = dialog
    /\ UNCHANGED <<dialog, failed, saving, formVars>>

FetchFails ==
    /\ fetching
    /\ fetching' = FALSE /\ failed' = TRUE
    /\ UNCHANGED <<dialog, content, saving, formVars>>

\* Its buttons are disabled while it loads or saves.
Opened == dialog # NoneOpen /\ saving = NoneOpen
Enabled == dialog # NoneOpen /\ ~fetching /\ saving = NoneOpen

\* handleSave sends the content (which the operator may have edited),
\* saveMetadata the label, branches and targets.
SavesProfile(what) ==
    /\ Enabled
    /\ saving' = [what |-> what, profile |-> dialog, from |-> content]
    /\ UNCHANGED <<dialog, fetching, content, failed, formVars>>

\* A saved content closes the dialog, saved metadata does not; when the save or
\* the refetch of the project fails the dialog stays open.
SaveEnds(ok) ==
    /\ saving # NoneOpen
    /\ saving' = NoneOpen
    /\ dialog' = IF ok /\ saving.what = "content" THEN NoneOpen ELSE dialog
    /\ UNCHANGED <<fetching, content, failed, formVars>>

Closes ==
    /\ Enabled
    /\ dialog' = NoneOpen
    /\ UNCHANGED <<fetching, content, failed, saving, formVars>>

EditorInit ==
    /\ phase = "runtime" /\ delivery = "dotenv" /\ mode = "paste"
    /\ text = Empty /\ keyRows = {} /\ reading = {}
    /\ upload = "idle" /\ uploaded = 0
    /\ dialog = NoneOpen /\ fetching = FALSE /\ content = NoneOpen
    /\ failed = FALSE /\ saving = NoneOpen

EditorNext ==
    \/ \E t \in Text : Types(t) \/ Picks(t)
    \/ \E t \in reading : FileRead(t)
    \/ \E m \in {"file", "paste", "per_key"} : SwitchesMode(m)
    \/ \E ph \in {"build", "runtime"} : SwitchesPhase(ph)
    \/ \E del \in {"raw", "dotenv"} : SwitchesDelivery(del)
    \/ Uploads \/ Uploaded \/ UploadFails \/ UploadDone
    \/ \E p \in Stored : Manages(p)
    \/ Fetched \/ FetchFails \/ Closes
    \/ \E what \in {"content", "metadata"} : SavesProfile(what)
    \/ \E ok \in BOOLEAN : SaveEnds(ok)

EditorSpec == EditorInit /\ [][EditorNext]_editorVars

EditorTypeOK ==
    /\ phase \in {"build", "runtime"} /\ delivery \in {"raw", "dotenv"}
    /\ mode \in {"file", "paste", "per_key"}
    /\ text \in Text /\ keyRows \in SUBSET EnvKey /\ reading \subseteq Text
    /\ upload \in {"idle", "sent", "refetch"} /\ uploaded \in 0..MaxUploads
    /\ dialog \in Stored \cup {NoneOpen} /\ content \in Stored \cup {NoneOpen}
    /\ fetching \in BOOLEAN /\ failed \in BOOLEAN
    /\ saving \in [what : {"content", "metadata"},
                  profile : Stored, from : Stored \cup {NoneOpen}] \cup {NoneOpen}

\* The switches of the form changed, other than by the reset after an upload.
Switched == <<phase, delivery, mode>>' # <<phase, delivery, mode>> /\ upload' = upload

(* No secret goes astray in the forms.  Whatever the order in which an       *)
(* operator tries the phases, deliveries and ways of typing, each switch     *)
(* leaves the keys an upload would send as they were; and the dialog starts  *)
(* no save of secrets that came from another profile than its own, unless    *)
(* it could not load its own.                                                *)
SecretsStayInPlace ==
    [][/\ Switched => Resolved'.keys = Resolved.keys
       /\ saving' \notin {saving, NoneOpen} /\ saving'.what = "content"
          => saving'.from = saving'.profile \/ failed]_editorVars
=============================================================================
