-------------------------- MODULE UnpublishedLock --------------------------
(***************************************************************************)
(* CI's exception for a tree whose gateway-image.json records no digest    *)
(* (.github/scripts/allow-unpublished-image.sh, called by ci.yml): it is   *)
(* granted while the repository has no v* tag and its history no digest.   *)
(*                                                                         *)
(* The repository grows by commits, branches and merges; a commit is a     *)
(* number, greater than its parents. The checkout has the full history of  *)
(* every branch (fetch-depth: 0). git (external) lists the commits that    *)
(* touch a path by its default history simplification.                     *)
(***************************************************************************)
EXTENDS Naturals, Sequences

CONSTANTS Branches,    \* branch names
          Main,        \* the one that exists from the start
          Digests,     \* digests a lock can record
          MaxCommits   \* bound

VARIABLES commits,   \* how many there are
          parents,   \* the parents of each commit, first parent first
          lock,      \* the digest gateway-image.json records in each
          head,      \* the tip of each branch, 0 for one that does not exist
          released   \* some v* tag exists

vars == <<commits, parents, lock, head, released>>

Empty == "empty"
Locks == Digests \cup {Empty}

Parents(c) == {parents[c][i] : i \in DOMAIN parents[c]}

\* Commit c and everything it descends from.
Ancestors ==
  LET ancestors[c \in 1 .. commits] == {c} \cup UNION {ancestors[p] : p \in Parents(c)}
  IN  ancestors

TypeOK ==
  /\ commits \in 1 .. MaxCommits
  /\ parents \in [1 .. commits -> Seq(1 .. commits)]
  /\ \A c \in 1 .. commits : \A p \in Parents(c) : p < c
  /\ lock \in [1 .. commits -> Locks]
  /\ head \in [Branches -> 0 .. commits]
  /\ released \in BOOLEAN

\* The first commit records no digest: no image is published yet.
Init ==
  /\ commits = 1 /\ parents = [c \in {1} |-> <<>>] /\ lock = [c \in {1} |-> Empty]
  /\ head = [b \in Branches |-> IF b = Main THEN 1 ELSE 0]
  /\ released = FALSE

Exists(b) == head[b] # 0

\* A commit on branch b with the given parents, whose lock is l.
Extend(b, ps, l) ==
  /\ commits < MaxCommits
  /\ commits' = commits + 1
  /\ parents' = [c \in 1 .. commits' |-> IF c = commits' THEN ps ELSE parents[c]]
  /\ lock' = [c \in 1 .. commits' |-> IF c = commits' THEN l ELSE lock[c]]
  /\ head' = [head EXCEPT ![b] = commits']
  /\ UNCHANGED released

Commit(b) == Exists(b) /\ \E l \in Locks : Extend(b, <<head[b]>>, l)

\* What merging commits c and d makes of the lock: the side that changed it
\* since they parted, or either if both did.
Merged(c, d) ==
  LET common == Ancestors[c] \cap Ancestors[d]
      base   == CHOOSE a \in common : \A e \in common : e <= a
  IN  CASE lock[c] = lock[base] -> {lock[d]}
        [] lock[d] = lock[base] -> {lock[c]}
        [] OTHER -> {lock[c], lock[d]}

Merge(b, other) ==
  /\ Exists(b) /\ Exists(other) /\ head[other] \notin Ancestors[head[b]]
  /\ \E l \in Merged(head[b], head[other]) : Extend(b, <<head[b], head[other]>>, l)

Branch(b, from) ==
  /\ ~Exists(b) /\ Exists(from) /\ head' = [head EXCEPT ![b] = head[from]]
  /\ UNCHANGED <<commits, parents, lock, released>>

DeleteBranch(b) ==
  /\ b # Main /\ Exists(b) /\ head' = [head EXCEPT ![b] = 0]
  /\ UNCHANGED <<commits, parents, lock, released>>

Release == released' = TRUE /\ UNCHANGED <<commits, parents, lock, head>>

Next ==
  \/ Release
  \/ \E b \in Branches :
       \/ Commit(b) \/ DeleteBranch(b)
       \/ \E other \in Branches \ {b} : Merge(b, other) \/ Branch(b, other)

Spec == Init /\ [][Next]_vars

-----------------------------------------------------------------------------
Tips == {head[b] : b \in {b \in Branches : Exists(b)}}

\* git rev-list from commit c, limited to gateway-image.json: a commit whose lock
\* is that of one of its parents is left out, and only the first such is followed.
RevList ==
  LET same(c) == {i \in DOMAIN parents[c] : lock[parents[c][i]] = lock[c]}
      list[c \in 1 .. commits] ==
        IF same(c) # {} THEN list[parents[c][CHOOSE i \in same(c) : \A j \in same(c) : i <= j]]
                        ELSE {c} \cup UNION {list[p] : p \in Parents(c)}
  IN  list

\* The script exits 0.
ExceptionGranted ==
  /\ ~released
  /\ \A tip \in Tips : \A c \in RevList[tip] : lock[c] = Empty

\* Every commit of the history of the branches.
History == UNION {Ancestors[tip] : tip \in Tips}

\* "Follow every fetched branch and both parents of merges. Deleting a digest
\* before the first tag must not reset the pre-release exception."
\* (allow-unpublished-image.sh:13-14.)
ExceptionEndsAtTheFirstLock == ExceptionGranted => \A c \in History : lock[c] = Empty
=============================================================================
