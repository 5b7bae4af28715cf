----------------------- MODULE ReleasePipeline_proofs -----------------------
(***************************************************************************)
(* What a release leaves behind can be resolved, was tested and was        *)
(* inventoried, for any number of tags released at once and any images.    *)
(*                                                                         *)
(* The argument: what a run established stays established, because the     *)
(* tree and the images do not change, evidence only grows, and no run      *)
(* touches the tag of another's version; so a run that failed and was      *)
(* started again still has what its earlier steps did.                     *)
(***************************************************************************)
EXTENDS ReleasePipeline, TLAPS

Tagged == {"tagLatest", "verify", "release", "attach", "done"}
Inventoried == {"tag"} \cup Tagged
Checked == {"inventory"} \cup Inventoried

\* The tag v may point consumers at its image.
Evidenced(v) ==
  /\ tree[v].passes /\ Publishable(v)
  /\ Subjects(Locked(v), Platforms) \subseteq evidence[v]

\* What the run of v has established, by the step it is at.
Progress(v) ==
  /\ job[v] \in {"check"} \cup Checked => tree[v].passes
  /\ job[v] \in Checked => Publishable(v)
  /\ job[v] \in Inventoried => Evidenced(v)
  /\ job[v] \in Tagged => tags[v] = Locked(v)
  /\ job[v] = "attach" => v \in released
  /\ v \in failed => job[v] \notin {"unpushed", "done"}

\* What stays of it when the run is started again.
Kept(v) ==
  /\ tags[v] # Untagged => Evidenced(v) /\ tags[v] = Locked(v)
  /\ v \in released => Evidenced(v) /\ tags[v] = Locked(v)

\* "latest" is some run's image.
LatestKept ==
  tags[Latest] # Untagged => \E v \in Versions : Evidenced(v) /\ tags[Latest] = Locked(v)

\* An agent reports the image its lock records, or the local one.
Reported ==
  \A s \in report.subjects :
    /\ report.by \in Versions
    /\ \/ s \in Subjects(Locked(report.by), Platforms)
       \/ s.image = Override /\ report.what \in {"run", "image sbom"} /\ s.platform \in Daemon

IInv ==
  /\ TypeOK
  /\ \A v \in Versions : Progress(v) /\ Kept(v)
  /\ LatestKept
  /\ Reported

-----------------------------------------------------------------------------
(* What a run establishes stays.                                           *)

\* The image of a run that was checked is one that was pushed.
LEMMA LockedImage ==
  ASSUME TypeOK, NEW v \in Versions, Locked(v) # Unlocked
  PROVE  /\ Locked(v) \in Digests
         /\ Subjects(Locked(v), Platforms) \subseteq Documents
<1>1. Locked(v) \in Digests
  BY DEF TypeOK, Trees, Locked
<1> QED
  BY <1>1 DEF Documents

\* Evidence is never lost.
LEMMA EvidenceStays ==
  ASSUME NEW v, Evidenced(v), UNCHANGED <<tree, builtFor>>, evidence[v] \subseteq evidence'[v]
  PROVE  Evidenced(v)'
BY DEF Evidenced, Publishable, Locked

\* A step of a run that changes neither tags nor evidence nor releases moves
\* that run alone.
LEMMA RunMoves ==
  ASSUME IInv, NEW v \in Versions, NEW j \in Jobs, Goto(v, j), failed' \subseteq failed, v \notin failed',
         UNCHANGED <<tree, builtFor, registry>>,
         j \in {"check"} \cup Checked => tree[v].passes,
         j \in Checked => Publishable(v),
         j \in Inventoried => Evidenced(v),
         j \in Tagged => tags[v] = Locked(v),
         j = "attach" => v \in released
  PROVE  IInv'
<1> USE DEF registry
<1>1. TypeOK'
  BY DEF IInv, TypeOK, Goto
<1>2. ASSUME NEW u \in Versions
      PROVE  (Progress(u) /\ Kept(u))'
  <2>1. Evidenced(u)' <=> Evidenced(u)
    BY DEF Evidenced, Publishable, Locked
  <2>2. job'[u] = IF u = v THEN j ELSE job[u]
    BY DEF IInv, TypeOK, Goto
  <2> QED
    BY <2>1, <2>2 DEF IInv, Progress, Kept, Publishable, Locked
<1>3. LatestKept'
  BY DEF IInv, LatestKept, Evidenced, Publishable, Locked
<1>4. Reported'
  BY DEF IInv, Reported, Locked
<1> QED
  BY <1>1, <1>2, <1>3, <1>4 DEF IInv

\* The steps that only move a run.
LEMMA MovingStep ==
  ASSUME IInv, NEW v \in Versions, PushTag(v) \/ Test(v) \/ Check(v) \/ Verify(v) \/ Rerun(v)
  PROVE  IInv'
<1> USE DEF At, Tagged, Inventoried, Checked, Jobs
<1>1. failed \subseteq Versions /\ job[v] \in Jobs /\ Progress(v)
  BY DEF IInv, TypeOK
<1>2. CASE PushTag(v)
  BY <1>1, <1>2, RunMoves DEF PushTag
<1>3. CASE Test(v)
  BY <1>1, <1>3, RunMoves DEF Test
<1>4. CASE Check(v)
  BY <1>1, <1>4, RunMoves DEF Check, Progress
<1>5. CASE Verify(v)
  BY <1>1, <1>5, RunMoves DEF Verify, Progress
<1>6. CASE Rerun(v)
  <2>1. job[v] \notin {"unpushed", "done"} /\ v \notin failed'
    BY <1>1, <1>6 DEF Rerun, Progress
  <2> QED
    BY <1>1, <1>6, <2>1, RunMoves DEF Rerun, FirstStep, Progress
<1> QED
  BY <1>2, <1>3, <1>4, <1>5, <1>6

\* The inventory adds its run's documents.
LEMMA InventoryStep ==
  ASSUME IInv, NEW v \in Versions, Inventory(v)
  PROVE  IInv'
<1> USE DEF Inventory, At, Goto
<1>1. Publishable(v) /\ tree[v].passes
  BY DEF IInv, Progress, Checked
<1>2. Subjects(Locked(v), Platforms) \subseteq Documents
  BY <1>1, LockedImage DEF IInv, Publishable
<1>3. /\ evidence' \in [Versions -> SUBSET Documents]
      /\ \A u \in Versions : evidence[u] \subseteq evidence'[u]
      /\ Subjects(Locked(v), Platforms) \subseteq evidence'[v]
  BY <1>2 DEF IInv, TypeOK
<1>4. \A u \in Versions : Evidenced(u) => Evidenced(u)'
  BY <1>3, EvidenceStays
<1>5. Evidenced(v)' /\ Publishable(v)'
  BY <1>1, <1>3 DEF Evidenced, Publishable, Locked
<1>6. TypeOK'
  BY <1>3 DEF IInv, TypeOK, Jobs
<1>7. ASSUME NEW u \in Versions
      PROVE  (Progress(u) /\ Kept(u))'
  <2>1. job'[u] = IF u = v THEN "tag" ELSE job[u]
    BY DEF IInv, TypeOK
  <2> QED
    BY <1>1, <1>4, <1>5, <2>1 DEF IInv, Progress, Kept, Tagged, Inventoried, Checked, Publishable, Locked
<1>8. LatestKept'
  BY <1>4 DEF IInv, LatestKept, Locked
<1>9. Reported'
  BY DEF IInv, Reported, Locked
<1> QED
  BY <1>6, <1>7, <1>8, <1>9 DEF IInv

\* The two tags are set, each to the image its run has inventoried.
LEMMA TagStep ==
  ASSUME IInv, NEW v \in Versions, Tag(v) \/ TagLatest(v)
  PROVE  IInv'
<1> USE DEF At, Goto
<1>1. /\ job[v] \in {"tag", "tagLatest"} /\ v \notin failed
      /\ UNCHANGED <<tree, builtFor, failed, evidence, released, attached, report>>
  BY DEF Tag, TagLatest
<1>2. Evidenced(v)
  BY <1>1 DEF IInv, Progress, Tagged, Inventoried
<1>3. Locked(v) \in Digests
  BY <1>2, LockedImage DEF IInv, Evidenced, Publishable
<1>4. \A u \in Versions : (Evidenced(u)' <=> Evidenced(u)) /\ (Publishable(u)' <=> Publishable(u))
  BY <1>1 DEF Evidenced, Publishable, Locked
<1>5. /\ tags'[v] = Locked(v) /\ \A u \in Versions \ {v} : tags'[u] = tags[u]
      /\ tags'[Latest] \in {tags[Latest], Locked(v)}
      /\ tags' \in [Versions \cup {Latest} -> Digests \cup {Untagged}]
  <2>1. CASE Tag(v)
    BY <1>3, <2>1, NameAssumption DEF Tag, IInv, TypeOK
  <2>2. CASE TagLatest(v)
    BY <1>3, <2>2, NameAssumption DEF TagLatest, IInv, TypeOK, Progress, Tagged
  <2> QED BY <2>1, <2>2
<1>6. /\ job' \in [Versions -> Jobs] /\ job'[v] \in {"tagLatest", "verify"}
      /\ \A u \in Versions \ {v} : job'[u] = job[u]
  BY DEF Tag, TagLatest, IInv, TypeOK, Jobs
<1>7. TypeOK'
  BY <1>1, <1>5, <1>6 DEF IInv, TypeOK
<1>8. ASSUME NEW u \in Versions
      PROVE  (Progress(u) /\ Kept(u))'
  BY <1>1, <1>2, <1>4, <1>5, <1>6
     DEF IInv, Progress, Kept, Evidenced, Tagged, Inventoried, Checked, Locked
<1>9. LatestKept'
  BY <1>1, <1>2, <1>4, <1>5 DEF IInv, LatestKept, Locked
<1>10. Reported'
  BY <1>1 DEF IInv, Reported, Locked
<1> QED
  BY <1>7, <1>8, <1>9, <1>10 DEF IInv

\* The release is made, and its evidence attached.
LEMMA ReleaseStep ==
  ASSUME IInv, NEW v \in Versions, Release(v) \/ Attach(v)
  PROVE  IInv'
<1> USE DEF At, Goto
<1>1. /\ job[v] \in {"release", "attach"} /\ v \notin failed
      /\ UNCHANGED <<tree, builtFor, failed, tags, evidence, report>>
  BY DEF Release, Attach
<1>2. Evidenced(v) /\ tags[v] = Locked(v)
  BY <1>1 DEF IInv, Progress, Tagged, Inventoried
<1>3. \A u \in Versions : (Evidenced(u)' <=> Evidenced(u)) /\ (Publishable(u)' <=> Publishable(u))
  BY <1>1 DEF Evidenced, Publishable, Locked
<1>4. released' = released \cup {v} /\ attached' \subseteq released'
  BY DEF Release, Attach, IInv, TypeOK, Progress
<1>5. /\ job' \in [Versions -> Jobs] /\ job'[v] \in {"attach", "done"}
      /\ \A u \in Versions \ {v} : job'[u] = job[u]
  BY DEF Release, Attach, IInv, TypeOK, Jobs
<1>6. TypeOK'
  BY <1>1, <1>4, <1>5 DEF IInv, TypeOK
<1>7. ASSUME NEW u \in Versions
      PROVE  (Progress(u) /\ Kept(u))'
  BY <1>1, <1>2, <1>3, <1>4, <1>5
     DEF IInv, Progress, Kept, Evidenced, Tagged, Inventoried, Checked, Locked
<1>8. LatestKept'
  BY <1>1, <1>3 DEF IInv, LatestKept, Locked
<1>9. Reported'
  BY <1>1 DEF IInv, Reported, Locked
<1> QED
  BY <1>6, <1>7, <1>8, <1>9 DEF IInv

\* A failure leaves the run where it is.
LEMMA FailStep ==
  ASSUME IInv, NEW v \in Versions, Fail(v)
  PROVE  IInv'
<1> USE DEF Fail, registry
<1>1. \A u \in Versions : (Evidenced(u)' <=> Evidenced(u)) /\ (Publishable(u)' <=> Publishable(u))
  BY DEF Evidenced, Publishable, Locked
<1>2. \A u \in Versions : (Progress(u) /\ Kept(u))'
  BY <1>1 DEF IInv, Progress, Kept, Locked
<1>3. TypeOK' /\ LatestKept' /\ Reported'
  BY <1>1 DEF IInv, TypeOK, LatestKept, Reported, Locked
<1> QED
  BY <1>2, <1>3 DEF IInv

\* An agent is asked: it names the image of its lock, or the override.
LEMMA AskStep ==
  ASSUME IInv, NEW v \in Versions, NEW what, NEW override \in BOOLEAN, Ask(v, what, override)
  PROVE  IInv'
<1> DEFINE image == IF what \in {"run", "image sbom"} THEN Effective(v, override) ELSE Published(v)
           platforms == IF image = Override THEN Daemon ELSE Platforms
<1>1. /\ image # Unlocked
      /\ report' = [by |-> v, what |-> what, subjects |-> Subjects(image, platforms)]
      /\ UNCHANGED <<tree, builtFor, job, failed, tags, evidence, released, attached>>
  BY DEF Ask
<1>2. \A u \in Versions : (Evidenced(u)' <=> Evidenced(u)) /\ (Publishable(u)' <=> Publishable(u))
  BY <1>1 DEF Evidenced, Publishable, Locked
<1>3. \A u \in Versions : (Progress(u) /\ Kept(u))'
  BY <1>1, <1>2 DEF IInv, Progress, Kept, Locked
<1>4. LatestKept'
  BY <1>1, <1>2 DEF IInv, LatestKept, Locked
<1>5. CASE image = Override /\ what \in {"run", "image sbom"}
  <2>1. Subjects(image, platforms) = Subjects(Override, Daemon)
    BY <1>5
  <2>2. \A s \in Subjects(Override, Daemon) : s.image = Override /\ s.platform \in Daemon
    BY DEF Subjects
  <2>3. TypeOK' /\ Reported'
    BY <1>1, <1>5, <2>1, <2>2 DEF IInv, TypeOK, Reported
  <2> QED
    BY <1>3, <1>4, <2>3 DEF IInv
<1>6. CASE image = Locked(v) /\ Locked(v) # Override
  <2>1. Subjects(image, platforms) = Subjects(Locked(v), Platforms)
    <3> HIDE DEF image
    <3> QED BY <1>6
  <2>2. Subjects(Locked(v), Platforms) \subseteq Documents
    BY <1>1, <1>6, LockedImage DEF IInv
  <2>3. TypeOK' /\ Reported'
    BY <1>1, <2>1, <2>2 DEF IInv, TypeOK, Reported, Locked
  <2> QED
    BY <1>3, <1>4, <2>3 DEF IInv
<1>7. image = Locked(v) => Locked(v) # Override
  BY <1>1, LockedImage, NameAssumption DEF IInv
<1> QED
  BY <1>5, <1>6, <1>7 DEF Effective, Published

\* Every step.
LEMMA NextInv ==
  ASSUME IInv, [Next]_vars
  PROVE  IInv'
<1>1. CASE UNCHANGED vars
  <2>1. \A u \in Versions : (Evidenced(u)' <=> Evidenced(u)) /\ (Publishable(u)' <=> Publishable(u))
    BY <1>1 DEF vars, Evidenced, Publishable, Locked
  <2> QED
    BY <1>1, <2>1 DEF vars, IInv, TypeOK, Progress, Kept, LatestKept, Reported, Locked
<1> QED
  BY <1>1, MovingStep, InventoryStep, TagStep, ReleaseStep, FailStep, AskStep DEF Next

-----------------------------------------------------------------------------
(* The theorems.                                                           *)

\* In every reachable state a run has behind it what its step needs.
THEOREM Invariance == Spec => []IInv
<1>1. Init => IInv
  BY NameAssumption DEF Init, IInv, TypeOK, Jobs, Documents, Progress, Kept, LatestKept, Reported,
     Nothing, Tagged, Inventoried, Checked
<1> QED
  BY <1>1, NextInv, PTL DEF Spec

\* Tags, evidence and reports only ever name images that were pushed, and no
\* evidence is attached to a release that is not made.
THEOREM TypeCorrectness == Spec => []TypeOK
<1>1. IInv => TypeOK
  BY DEF IInv
<1> QED
  BY <1>1, Invariance, PTL

\* What is released passed its tests and resolves, by its version, to the image
\* its lock records, built for it and inventoried on every platform.
THEOREM ReleasesCanBeResolved == Spec => []ReleasesResolve
<1>1. IInv => ReleasesResolve
  BY DEF IInv, TypeOK, Kept, Evidenced, Publishable, ReleasesResolve
<1> QED
  BY <1>1, Invariance, PTL

\* No tag, "latest" included, resolves to an image that no passing run has
\* inventoried, whichever runs fail, race or are started again.
THEOREM NothingIsTaggedUnseen == Spec => []TagsAreInventoried
<1>1. IInv => TagsAreInventoried
  <2> SUFFICES ASSUME IInv, NEW t \in Versions \cup {Latest}, tags[t] # Untagged
               PROVE  \E v \in Versions :
                        tree[v].passes /\ Subjects(tags[t], Platforms) \subseteq evidence[v]
    BY DEF IInv, TypeOK, TagsAreInventoried
  <2>1. CASE t \in Versions
    BY <2>1 DEF IInv, Kept, Evidenced
  <2>2. CASE t = Latest
    BY <2>2 DEF IInv, LatestKept, Evidenced
  <2> QED BY <2>1, <2>2
<1> QED
  BY <1>1, Invariance, PTL

\* What a released agent runs, deploys, audits or reports is what its release
\* inventoried, but for a local override, which it only runs and reports.
THEOREM ReportsAreBackedByEvidence == Spec => []ReportsAreEvidenced
<1>1. IInv => ReportsAreEvidenced
  <2> SUFFICES ASSUME IInv, report.by \in released, NEW s \in report.subjects
               PROVE  \/ s \in evidence[report.by] /\ builtFor[s.image] = report.by
                      \/ /\ s.image = Override /\ report.what \in {"run", "image sbom"}
                         /\ s.platform \in Daemon
    BY DEF ReportsAreEvidenced
  <2>1. Evidenced(report.by)
    BY DEF IInv, TypeOK, Kept
  <2>2. CASE s \in Subjects(Locked(report.by), Platforms)
    <3>1. s.image = Locked(report.by)
      BY <2>2 DEF Subjects
    <3> QED
      BY <2>1, <2>2, <3>1 DEF Evidenced, Publishable
  <2> QED
    BY <2>2 DEF IInv, Reported
<1> QED
  BY <1>1, Invariance, PTL
=============================================================================
