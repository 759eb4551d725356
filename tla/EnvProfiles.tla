----------------------------- MODULE EnvProfiles -----------------------------
(***************************************************************************)
(* EnvProfileService (api/src/projects/env): branch-scoped environment     *)
(* profiles.  A profile's metadata is in the MongoDB document, its body in *)
(* OpenBao; the keys of a runtime profile are also merged into the secret  *)
(* of each of its targets; ci/index lists the profiles for the pipeline.   *)
(* file stands for workspacePath and filename, names for the parsed keys.  *)
(***************************************************************************)
EXTENDS ProjectCalls

(* removeRuntimeKeysFromTargets. *)
LeaveKeys(p) == MergeInto(p.targets, {}, {}, FALSE)
RemoveKeys(p) == MergeInto(p.targets, p.names, {}, FALSE)

(* syncCiIndex: the branches and keys that load-vault-env.sh selects by.    *)
IndexOf(profiles) == {<<p, profiles[p].branches>> : p \in {q \in Profile : profiles[q] # Nil}}

AfterSave(doc, branches) == WriteIndex(IndexOf(doc.profiles)) \o RefreshCharts(doc, branches)

IndexBeforeSave(doc, branches) == AfterSave(doc, branches) \o Save(doc)
SaveAndIndex(doc, branches) == Save(doc) \o AfterSave(doc, branches)

(* The overlap rule is checked after the body and the targets were written. *)
UploadPlan(doc, o) ==
    LET new == NewProfile(o)
        profiles == [doc.profiles EXCEPT ![o.profile] = new]
        next == [doc EXCEPT !.profiles = profiles, !.runtime = RuntimeEnv(profiles)]
        valid == /\ o.branches # {}
                 /\ new.phase = "build"
                    \/ (new.targets # {} /\ new.targets \subseteq KeysOf(doc.targets))
        written == MergeInto(new.targets, {}, o.names, FALSE) \o WriteBody(o.profile, o.names)
    IN  IF ~valid THEN Reject
        ELSE written
             \o (IF \E q \in ProfilesOf(doc) : Overlaps(doc.profiles[q], new) THEN Reject
                 ELSE SaveAndIndex(next, new.branches))

(* The new keys are merged once the old ones are gone; the runtime flag is  *)
(* computed again and the profile assigned in place.                        *)
ContentPlan(doc, o) ==
    LET old == doc.profiles[o.profile]
        new == [old EXCEPT !.names = o.names]
        profiles == [doc.profiles EXCEPT ![o.profile] = new]
        next == [doc EXCEPT !.profiles = profiles, !.runtime = RuntimeEnv(profiles)]
    IN  IF old = Nil THEN Reject
        ELSE RemoveKeys(old) \o MergeInto(old.targets, {}, o.names, FALSE)
             \o WriteBody(o.profile, o.names)
             \o SaveProfileAt(o.profile, next) \o AfterSave(next, new.branches)

(* Only a change of the targets touches OpenBao; the job selector and a     *)
(* build profile's file change too, and the overlap rule is not checked     *)
(* again.                                                                   *)
MetadataPlan(doc, o) ==
    LET old == doc.profiles[o.profile]
        moved == old.phase = "runtime" /\ o.targets # Nil /\ o.targets # old.targets
        new == [old EXCEPT !.branches = IF o.branches = Nil THEN @ ELSE o.branches,
                           !.targets = IF moved THEN o.targets ELSE @,
                           !.job = IF o.job = {} THEN @ ELSE First(o.job),
                           !.file = IF old.phase = "build" /\ o.file # Nil THEN o.file ELSE @]
        next == [doc EXCEPT !.profiles[o.profile] = new]
    IN  IF old = Nil THEN Reject
        ELSE IF new.branches = {} THEN Reject
        ELSE (IF moved THEN RemoveKeys(old) \o ReadBody(o.profile)
                            \o MergeInto(new.targets, {}, {}, TRUE) ELSE <<>>)
             \o SaveProfileAt(o.profile, next)
             \o AfterSave(next, old.branches \cup new.branches)

DropPlan(doc, o) ==
    LET old == doc.profiles[o.profile]
        profiles == [doc.profiles EXCEPT ![o.profile] = Nil]
        next == [doc EXCEPT !.profiles = profiles, !.runtime = RuntimeEnv(profiles)]
    IN  IF old = Nil THEN Reject
        ELSE RemoveKeys(old) \o DropBody(o.profile) \o SaveAndIndex(next, old.branches)

Upload(r, o) ==
    /\ o.op = "upload"
    /\ \A q \in Req : req[q].op.op = "upload" => req[q].op.profile # o.profile  \* fresh
    /\ Begins(r, o, UploadPlan(row, o))
UpdateContent(r, o) == o.op = "content" /\ Begins(r, o, ContentPlan(row, o))
UpdateMetadata(r, o) == o.op = "metadata" /\ Begins(r, o, MetadataPlan(row, o))
DeleteProfile(r, o) == o.op = "drop" /\ Begins(r, o, DropPlan(row, o))

ProfileStarts(r, o) ==
    Upload(r, o) \/ UpdateContent(r, o) \/ UpdateMetadata(r, o) \/ DeleteProfile(r, o)

=============================================================================
