--------------------------- MODULE CodeQualityProofs ---------------------------
(***************************************************************************)
(* Proofs about the GitLab report, for any projects, releases and locks:   *)
(* no two of its issues that matter share a fingerprint.                   *)
(***************************************************************************)
EXTENDS CodeQuality, TLAPS

--------------------------------------------------------------------------------
(* The issues of a report.                                                 *)

Listed(ds) == {t \in DOMAIN Check(ds) : Check(ds)[t] # "ok"}

RowIssue(ds, t) ==
    LET row == Expand(ds)[t] IN Issue(t, row.decl, Check(ds)[t], RowIdentity(row, t))
UsageIssue(ds, t, d) == Issue(t, d, Check(ds)[t], UsageIdentity(ds, t, d))
StaleIssue(ds, t) == Issue(t, None, Check(ds)[t], RowIdentity(Parsed(lock[t]), t))

RowIssues(ds) == {RowIssue(ds, t) : t \in Listed(ds) \cap Wanted(ds)}
UsageIssues(ds) ==
    UNION {{UsageIssue(ds, t, d) : d \in UsedBy(ds, t)} : t \in Listed(ds) \cap Wanted(ds)}
StaleIssues(ds) == {StaleIssue(ds, t) : t \in Listed(ds) \ (Listed(ds) \cap Wanted(ds))}

\* An issue is that of the row of a wanted target, that of another user of it, or that of
\* a target nobody wants.
LEMMA IssuesOfReport ==
    ASSUME NEW ds
    PROVE  Report(ds) = RowIssues(ds) \cup StaleIssues(ds) \cup UsageIssues(ds)
BY DEF Report, RowIssue, UsageIssue, StaleIssue, Listed, RowIssues, UsageIssues, StaleIssues

LEMMA UsageIsListed ==
    ASSUME NEW ds, NEW issue
    PROVE  issue \in UsageIssues(ds) <=>
              \E t \in Listed(ds) \cap Wanted(ds) : \E d \in UsedBy(ds, t) :
                 issue = UsageIssue(ds, t, d)
<1> DEFINE wanted == Listed(ds) \cap Wanted(ds)
           Usages(t) == {UsageIssue(ds, t, d) : d \in UsedBy(ds, t)}
<1>1. issue \in UsageIssues(ds) <=> \E t \in wanted : issue \in Usages(t)
  BY Zenon DEF UsageIssues
<1> QED
  BY <1>1

LEMMA KindsOfIssues ==
    ASSUME NEW ds, NEW issue \in Report(ds)
    PROVE  \/ \E t \in Listed(ds) \cap Wanted(ds) : issue = RowIssue(ds, t)
           \/ \E t \in Listed(ds) \cap Wanted(ds) : \E d \in UsedBy(ds, t) :
                 issue = UsageIssue(ds, t, d)
           \/ \E t \in Listed(ds) \ Wanted(ds) : issue = StaleIssue(ds, t)
<1>1. issue \in RowIssues(ds) \/ issue \in UsageIssues(ds) \/ issue \in StaleIssues(ds)
  BY IssuesOfReport
<1>2. CASE issue \in RowIssues(ds)
  BY <1>2 DEF RowIssues
<1>3. CASE issue \in UsageIssues(ds)
  BY <1>3, UsageIsListed
<1>4. CASE issue \in StaleIssues(ds)
  BY <1>4 DEF StaleIssues
<1> QED
  BY <1>1, <1>2, <1>3, <1>4

\* The identity of a row names the target, that of a usage the declaration's file and
\* target as well; a row has three parts and a usage four.
LEMMA RowFields ==
    ASSUME NEW ds, NEW t
    PROVE  LET row == Expand(ds)[t]
               issue == RowIssue(ds, t)
           IN  /\ issue.target = t /\ issue.user = row.decl
               /\ issue.fingerprint = <<row.declared_in, row.role, t>>
BY DEF RowIssue, Issue, RowIdentity

LEMMA UsageFields ==
    ASSUME NEW ds, NEW t, NEW d
    PROVE  LET issue == UsageIssue(ds, t, d)
           IN  /\ issue.target = t /\ issue.user = d
               /\ issue.fingerprint = <<d.declared_in, Expand(ds)[t].role, t, d.target>>
BY DEF UsageIssue, Issue, UsageIdentity

LEMMA StaleFields ==
    ASSUME NEW ds, NEW t
    PROVE  StaleIssue(ds, t).fingerprint =
              <<Parsed(lock[t]).declared_in, Parsed(lock[t]).role, t>>
BY DEF StaleIssue, Issue, RowIdentity

LEMMA ThreeAreNotFour ==
    ASSUME NEW a, NEW b, NEW c, NEW x, NEW y, NEW z, NEW u
    PROVE  <<a, b, c>> # <<x, y, z, u>>
<1>1. Len(<<a, b, c>>) = 3 /\ Len(<<x, y, z, u>>) = 4
  OBVIOUS
<1> QED
  BY <1>1

--------------------------------------------------------------------------------
(* One issue, one fingerprint.                                             *)

LEMMA RowIsAlone ==
    ASSUME NEW ds, NEW t \in Listed(ds) \cap Wanted(ds), NEW other \in Report(ds),
           other.fingerprint = RowIssue(ds, t).fingerprint
    PROVE  other = RowIssue(ds, t)
<1>1. ASSUME NEW u \in Listed(ds) \cap Wanted(ds), other = RowIssue(ds, u)
      PROVE  other = RowIssue(ds, t)
  <2>1. u = t
    BY <1>1, RowFields
  <2> QED
    BY <1>1, <2>1
<1>2. ASSUME NEW u \in Listed(ds) \cap Wanted(ds), NEW d \in UsedBy(ds, u),
             other = UsageIssue(ds, u, d)
      PROVE  FALSE
  <2>1. RowIssue(ds, t).fingerprint # UsageIssue(ds, u, d).fingerprint
    <3> DEFINE row == RowIssue(ds, t).fingerprint
               usage == UsageIssue(ds, u, d).fingerprint
    <3>1. \E a, b, c : row = <<a, b, c>>
      BY RowFields
    <3>2. \E x, y, z, v : usage = <<x, y, z, v>>
      BY UsageFields
    <3> HIDE DEF row, usage
    <3>3. row # usage
      BY <3>1, <3>2, ThreeAreNotFour
    <3> QED
      BY <3>3 DEF row, usage
  <2> QED
    BY <1>2, <2>1
<1>3. ASSUME NEW u \in Listed(ds) \ Wanted(ds), other = StaleIssue(ds, u)
      PROVE  FALSE
  <2>1. u = t
    BY <1>3, RowFields, StaleFields
  <2> QED
    BY <1>3, <2>1
<1> QED
  BY <1>1, <1>2, <1>3, KindsOfIssues

LEMMA UsageIsAlone ==
    ASSUME NEW ds, NamedOnce(ds), NEW t \in Listed(ds) \cap Wanted(ds),
           NEW d \in UsedBy(ds, t), NEW other \in Report(ds),
           other.fingerprint = UsageIssue(ds, t, d).fingerprint
    PROVE  other = UsageIssue(ds, t, d)
<1>1. ASSUME NEW u \in Listed(ds) \cap Wanted(ds), other = RowIssue(ds, u)
      PROVE  FALSE
  BY <1>1, RowFields, UsageFields, ThreeAreNotFour
<1>2. ASSUME NEW u \in Listed(ds) \cap Wanted(ds), NEW e \in UsedBy(ds, u),
             other = UsageIssue(ds, u, e)
      PROVE  other = UsageIssue(ds, t, d)
  <2>1. u = t /\ e.declared_in = d.declared_in /\ e.target = d.target
    BY <1>2, UsageFields
  <2>2. PICK i \in DOMAIN ds, j \in DOMAIN ds : d = ds[i] /\ e = ds[j]
    BY DEF UsedBy, Users, Declaring, DependingOn
  <2>3. d = e
    BY <2>1, <2>2 DEF NamedOnce
  <2> QED
    BY <1>2, <2>1, <2>3
<1>3. ASSUME NEW u \in Listed(ds) \ Wanted(ds), other = StaleIssue(ds, u)
      PROVE  FALSE
  BY <1>3, UsageFields, StaleFields, ThreeAreNotFour
<1> QED
  BY <1>1, <1>2, <1>3, KindsOfIssues

\* Where no file declares a target twice, every declaration that uses a drifted target has
\* an issue of its own, which GitLab takes for no other one, whatever was locked.
THEOREM UsersAreMarked == Spec => []EveryUserIsMarked
<1>1. EveryUserIsMarked
  <2> SUFFICES ASSUME NamedOnce(project), NEW t \in Wanted(project),
                      Check(project)[t] # "ok", NEW d \in Users(project, t)
               PROVE  \E issue \in Report(project) :
                         /\ issue.target = t /\ issue.user = d
                         /\ \A other \in Report(project) :
                               other.fingerprint = issue.fingerprint => other = issue
    BY DEF EveryUserIsMarked
  <2>1. t \in Listed(project) \cap Wanted(project)
    BY DEF Listed, Check
  <2>2. CASE d = Expand(project)[t].decl
    <3>1. RowIssue(project, t) \in Report(project)
      BY <2>1, IssuesOfReport DEF RowIssues
    <3>2. RowIssue(project, t).target = t /\ RowIssue(project, t).user = d
      BY <2>2, RowFields
    <3> QED
      BY <2>1, <3>1, <3>2, RowIsAlone
  <2>3. CASE d # Expand(project)[t].decl
    <3>1. d \in UsedBy(project, t)
      BY <2>3 DEF UsedBy
    <3>2. UsageIssue(project, t, d) \in Report(project)
      <4>1. UsageIssue(project, t, d) \in UsageIssues(project)
        BY <2>1, <3>1, UsageIsListed
      <4> QED
        BY <4>1, IssuesOfReport
    <3>3. UsageIssue(project, t, d).target = t /\ UsageIssue(project, t, d).user = d
      BY UsageFields
    <3> QED
      BY <2>1, <3>1, <3>2, <3>3, UsageIsAlone
  <2> QED
    BY <2>2, <2>3
<1> QED
  BY <1>1, PTL

================================================================================
