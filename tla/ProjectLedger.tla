---------------------------- MODULE ProjectLedger ----------------------------
(***************************************************************************)
(* What the project registry promises, without saying how: a ledger of     *)
(* GitLab projects.  A project is entered at most once at a time, an entry *)
(* stays with its project, archiving is never undone, and an entry is      *)
(* struck out only after GitLab has removed the project.  ProjectRegistry  *)
(* implements it (project.schema.ts, projects.service.ts).                 *)
(***************************************************************************)
CONSTANTS Project, Entry, None

VARIABLES
    life,       \* each GitLab project: "unused", "live", "pending", "gone"
    status,     \* each entry: "free", "active", "archived", "removed"
    subject     \* the project an entry is about

vars == <<life, status, subject>>

Current(e) == status[e] \in {"active", "archived"}

TypeOK ==
    /\ life \in [Project -> {"unused", "live", "pending", "gone"}]
    /\ status \in [Entry -> {"free", "active", "archived", "removed"}]
    /\ subject \in [Entry -> Project \cup {None}]

Init ==
    /\ life = [p \in Project |-> "unused"]
    /\ status = [e \in Entry |-> "free"]
    /\ subject = [e \in Entry |-> None]

(* GitLab: a project appears, is scheduled for deletion, disappears.        *)
Lives(p, from, to) ==
    /\ life[p] \in from
    /\ life' = [life EXCEPT ![p] = to]
    /\ UNCHANGED <<status, subject>>

Enter(e, p) ==
    /\ status[e] = "free"
    /\ life[p] # "unused"
    /\ \A f \in Entry : Current(f) => subject[f] # p
    /\ status' = [status EXCEPT ![e] = "active"]
    /\ subject' = [subject EXCEPT ![e] = p]
    /\ UNCHANGED life

Archive(e) ==
    /\ Current(e)
    /\ status' = [status EXCEPT ![e] = "archived"]
    /\ UNCHANGED <<life, subject>>

Strike(e) ==
    /\ Current(e)
    /\ life[subject[e]] = "gone"
    /\ status' = [status EXCEPT ![e] = "removed"]
    /\ UNCHANGED <<life, subject>>

Next ==
    \/ \E p \in Project :
        \/ Lives(p, {"unused"}, "live")
        \/ Lives(p, {"live"}, "pending")
        \/ Lives(p, {"live", "pending"}, "gone")
    \/ \E e \in Entry, p \in Project : Enter(e, p)
    \/ \E e \in Entry : Archive(e) \/ Strike(e)

Spec == Init /\ [][Next]_vars

=============================================================================
