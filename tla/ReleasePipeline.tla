-------------------------- MODULE ReleasePipeline --------------------------
(***************************************************************************)
(* The release workflow (.github/workflows/release.yml): one run per v*    *)
(* tag, of the jobs test, gateway-image, release and attach-image-evidence *)
(* in that order. Runs of different tags are concurrent and share the      *)
(* registry, the tag "latest" included. Any step may fail; a run that      *)
(* failed may be started again from the job that failed.                   *)
(*                                                                         *)
(* What a tag points at is arbitrary: its tests may fail, its version file *)
(* may be another version's, its lock may record no digest or one that was *)
(* built for another version. The agent built from it deploys, runs and     *)
(* reports the image its lock records (gateway_image.go, builder.go), or    *)
(* the locally built one an override names.                                *)
(***************************************************************************)
EXTENDS FiniteSets

CONSTANTS Versions,   \* the v* tags that are pushed
          Digests     \* images pushed by publish-gateway-image.yml

VARIABLES tree,       \* what each tag points at
          builtFor,   \* the version label of each image
          job,        \* where the run of each tag is
          failed,     \* the runs that stand still after a failure
          tags,       \* the registry's tags
          evidence,   \* the SBOM artifacts of each run: digests inventoried
          released,   \* GitHub releases
          attached,   \* the releases that carry their evidence
          report      \* what an agent was last asked for, and its subjects

vars == <<tree, builtFor, job, failed, tags, evidence, released, attached, report>>
registry == <<tags, evidence, released, attached, report>>

Untagged == "untagged"
Unlocked == "unlocked"
Latest   == "latest"

Override == "a local build"   \* what SWH_GATEWAY_IMAGE names

\* A version is told from the tag "latest" and a digest from a local name: the
\* one is numbers and dots, the other begins with "sha256:".
ASSUME NameAssumption == Latest \notin Versions /\ Override \notin Digests
Nothing  == [by |-> "nobody", what |-> "nothing", subjects |-> {}]

\* Platforms of internal/gatewayimage; the daemon holds an override's only one.
Platforms == {"linux/amd64", "linux/arm64"}
Daemon    == {"the daemon's"}
Subjects(image, platforms) == [image : {image}, platform : platforms]
Documents == UNION {Subjects(d, Platforms) : d \in Digests}

Jobs == {"unpushed", "test", "check", "inventory", "tag", "tagLatest", "verify",
         "release", "attach", "done"}

Trees == [passes : BOOLEAN, version : Versions, digest : Digests \cup {Unlocked}]

TypeOK ==
  /\ tree \in [Versions -> Trees] /\ builtFor \in [Digests -> Versions]
  /\ job \in [Versions -> Jobs] /\ failed \subseteq Versions
  /\ tags \in [Versions \cup {Latest} -> Digests \cup {Untagged}]
  /\ evidence \in [Versions -> SUBSET Documents]
  /\ report.subjects \subseteq Documents \cup Subjects(Override, Daemon)
  /\ attached \subseteq released /\ released \subseteq Versions

Init ==
  /\ tree \in [Versions -> Trees] /\ builtFor \in [Digests -> Versions]
  /\ job = [v \in Versions |-> "unpushed"] /\ failed = {}
  /\ tags = [t \in Versions \cup {Latest} |-> Untagged]
  /\ evidence = [v \in Versions |-> {}]
  /\ released = {} /\ attached = {} /\ report = Nothing

-----------------------------------------------------------------------------
At(v, j) == job[v] = j /\ v \notin failed
Goto(v, j) == job' = [job EXCEPT ![v] = j]
Locked(v) == tree[v].digest

PushTag(v) ==
  /\ At(v, "unpushed") /\ Goto(v, "test")
  /\ UNCHANGED <<tree, builtFor, failed, registry>>

Test(v) ==
  /\ At(v, "test") /\ tree[v].passes /\ Goto(v, "check")
  /\ UNCHANGED <<tree, builtFor, failed, registry>>

\* The tag is the version in agent.codefly.yaml, and every platform of the
\* locked image is labelled with it.
PublishableIfLocked(v) ==   \* mutation: the label is not looked at
  tree[v].version = v /\ Locked(v) # Unlocked

Publishable(v) ==
  tree[v].version = v /\ Locked(v) # Unlocked /\ builtFor[Locked(v)] = v

Check(v) ==
  /\ At(v, "check") /\ Publishable(v) /\ Goto(v, "inventory")
  /\ UNCHANGED <<tree, builtFor, failed, registry>>

InventoryLater(v) ==   \* mutation: the scan does not hold up the tags
  /\ At(v, "inventory") /\ Goto(v, "tag")
  /\ UNCHANGED <<tree, builtFor, failed, registry>>

\* image-sbom of the digest: a document for every platform, or the step fails.
Inventory(v) ==
  /\ At(v, "inventory") /\ Goto(v, "tag")
  /\ evidence' = [evidence EXCEPT ![v] = @ \cup Subjects(Locked(v), Platforms)]
  /\ UNCHANGED <<tree, builtFor, failed, tags, released, attached, report>>

\* imagetools create sets one tag after the other.
Tag(v) ==
  /\ At(v, "tag") /\ Goto(v, "tagLatest")
  /\ tags' = [tags EXCEPT ![v] = Locked(v)]
  /\ UNCHANGED <<tree, builtFor, failed, evidence, released, attached, report>>

TagLatest(v) ==
  /\ At(v, "tagLatest") /\ Goto(v, "verify")
  /\ tags' = [tags EXCEPT ![Latest] = Locked(v)]
  /\ UNCHANGED <<tree, builtFor, failed, evidence, released, attached, report>>

\* Both tags resolve to the digest: not so if another run has moved "latest".
Verify(v) ==
  /\ At(v, "verify") /\ tags[v] = Locked(v) /\ tags[Latest] = Locked(v)
  /\ Goto(v, "release")
  /\ UNCHANGED <<tree, builtFor, failed, registry>>

Release(v) ==
  /\ At(v, "release") /\ Goto(v, "attach")
  /\ released' = released \cup {v}
  /\ UNCHANGED <<tree, builtFor, failed, tags, evidence, attached, report>>

AttachEarly(v) ==   \* mutation: it needs the image's job alone
  /\ job[v] \in {"release", "attach"} /\ v \notin failed /\ Goto(v, "done")
  /\ attached' = attached \cup {v}
  /\ UNCHANGED <<tree, builtFor, failed, tags, evidence, released, report>>

Attach(v) ==
  /\ At(v, "attach") /\ Goto(v, "done")
  /\ attached' = attached \cup {v}
  /\ UNCHANGED <<tree, builtFor, failed, tags, evidence, released, report>>

\* A step fails, for its own reasons or because a check did not hold.
Fail(v) ==
  /\ job[v] \notin {"unpushed", "done"} /\ v \notin failed
  /\ failed' = failed \cup {v}
  /\ UNCHANGED <<tree, builtFor, job, registry>>

\* Re-run failed jobs: the steps from "check" to "verify" are one job.
FirstStep(j) == IF j \in {"test", "release", "attach"} THEN j ELSE "check"

Rerun(v) ==
  /\ v \in failed /\ failed' = failed \ {v} /\ Goto(v, FirstStep(job[v]))
  /\ UNCHANGED <<tree, builtFor, registry>>

-----------------------------------------------------------------------------
(* An agent built from what a tag points at *)

PublishedByTag(v) == tags[Latest]   \* mutation: an image by its tag

\* publishedGatewayImage: an error if the lock records no digest.
Published(v) == Locked(v)

Effective(v, override) == IF override THEN Override ELSE Published(v)

\* The effective image is what the agent runs and reports; the published one is
\* what it deploys, audits and lists the packages of.
Ask(v, what, override) ==
  /\ LET image == IF what \in {"run", "image sbom"} THEN Effective(v, override) ELSE Published(v)
         platforms == IF image = Override THEN Daemon ELSE Platforms
     IN /\ image # Unlocked
        /\ report' = [by |-> v, what |-> what, subjects |-> Subjects(image, platforms)]
  /\ UNCHANGED <<tree, builtFor, job, failed, tags, evidence, released, attached>>

Next ==
  \E v \in Versions :
    \/ PushTag(v) \/ Test(v) \/ Check(v) \/ Inventory(v) \/ Tag(v) \/ TagLatest(v)
    \/ Verify(v) \/ Release(v) \/ Attach(v) \/ Fail(v) \/ Rerun(v)
    \/ \E what \in {"deploy", "audit", "source sbom", "run", "image sbom"}, override \in BOOLEAN :
         Ask(v, what, override)

Spec == Init /\ [][Next]_vars

-----------------------------------------------------------------------------
\* A released agent finds its gateway by the version consumers ask for: the
\* image its lock records, built for that version and inventoried
\* (release.yml: "a release published without those tags leaves consumers
\* unable to resolve the image").
ReleasesResolve ==
  \A v \in released :
    /\ tree[v].passes /\ tree[v].version = v
    /\ tags[v] = Locked(v) /\ builtFor[tags[v]] = v
    /\ Subjects(tags[v], Platforms) \subseteq evidence[v]

\* Whatever a tag resolves to, "latest" included, was inventoried by the run of
\* a tag whose tests passed (release.yml: "Only now does the image become
\* resolvable by the tags consumers use").
TagsAreInventoried ==
  \A t \in DOMAIN tags :
    tags[t] # Untagged => \E v \in Versions : tree[v].passes /\ Subjects(tags[t], Platforms) \subseteq evidence[v]

\* What a released agent deploys, runs, audits or reports is, platform by
\* platform, what its release inventoried, built for its version; an override
\* is run and reported as the local image it is, and never deployed or audited
\* (gateway_image.go:35-54, builder.go:77-139).
ReportsAreEvidenced ==
  report.by \in released =>
    \A s \in report.subjects :
      \/ s \in evidence[report.by] /\ builtFor[s.image] = report.by
      \/ s.image = Override /\ report.what \in {"run", "image sbom"} /\ s.platform \in Daemon
=============================================================================
