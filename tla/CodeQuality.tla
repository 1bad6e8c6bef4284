------------------------------ MODULE CodeQuality ------------------------------
(***************************************************************************)
(* The GitLab report of `mpat check` (_gitlab.code_quality_report): an     *)
(* issue for each target that is not "ok", at the declaration its row is   *)
(* about, and one for every other declaration that uses the target.        *)
(* GitLab tells issues apart by their fingerprint, a hash of the identity. *)
(* A path stands for itself relative to the repository, lines and texts    *)
(* are left out.                                                           *)
(***************************************************************************)
EXTENDS LockCheck

\* Those that use the target, without the declaration the row is about.
UsedBy(ds, t) == Users(ds, t) \ {Expand(ds)[t].decl}

\* Mutant: the declaration that uses the target has no part in the identity.
UsageIdentityOfTarget(ds, t, d) == <<d.declared_in, Expand(ds)[t].role, t>>

RowIdentity(row, t) == <<row.declared_in, row.role, t>>
UsageIdentity(ds, t, d) == <<d.declared_in, Expand(ds)[t].role, t, d.target>>

Issue(t, user, status, identity) ==
    [target |-> t, user |-> user, status |-> status, fingerprint |-> identity]

\* code_quality_report(): what is only in the lock has the entry's own role and file, and
\* nobody uses it.
Report(ds) ==
    LET status == Check(ds)
        listed == {t \in DOMAIN status : status[t] # "ok"}
        wanted == listed \cap Wanted(ds)
        Row(t) == Expand(ds)[t]
    IN  {Issue(t, Row(t).decl, status[t], RowIdentity(Row(t), t)) : t \in wanted}
        \cup {Issue(t, None, status[t], RowIdentity(Parsed(lock[t]), t)) : t \in listed \ wanted}
        \cup UNION {{Issue(t, d, status[t], UsageIdentity(ds, t, d)) : d \in UsedBy(ds, t)} :
                       t \in wanted}

\* No file declares a target twice.
NamedOnce(ds) == \A i, j \in DOMAIN ds :
    ds[i].declared_in = ds[j].declared_in /\ ds[i].target = ds[j].target => i = j

\* Every declaration that uses a drifted target is marked on the merge request: it has an
\* issue, and GitLab takes that issue for no other one, nor one that is stale for one that
\* drifted (CHANGELOG: "GitLab gets one finding per declaration, so every patch that depends
\* on the drift is marked").
EveryUserIsMarked == NamedOnce(project) =>
    LET status == Check(project)
        report == Report(project)
    IN  \A t \in Wanted(project) : status[t] # "ok" => \A d \in Users(project, t) :
            \E issue \in report :
                /\ issue.target = t /\ issue.user = d
                /\ \A other \in report : other.fingerprint = issue.fingerprint => other = issue

================================================================================
