----------------------------- MODULE StageAccess -----------------------------
(***************************************************************************)
(* Where a stage may write: from the contracts of the stage and of the     *)
(* delivery target to the mounts of its container.  The runner builds a    *)
(* sandbox (internal/isolation), materializes the repositories of the run  *)
(* and widens the sandbox to them (internal/runner/repos.go), writes a     *)
(* summary of the sandbox into context.json, and the container launcher    *)
(* (internal/stagecontainer) derives the mounts from that file.  What the  *)
(* launcher cannot read or make it leaves out, and starts the container.   *)
(* The work order repository, always read-only, is left out of the model.  *)
(*                                                                         *)
(* A path inside a repository and an ownership pattern are sequences of    *)
(* segments.  The root of a checkout is named by what it is: the checkout  *)
(* of this run, the source repository, or the materialization path of the  *)
(* work order with its {run_id} still in it.                               *)
(***************************************************************************)
EXTENDS Integers, Sequences, SequencesExt

CONSTANTS Contracts,   \* records [spec, target]
          Segments,    \* the plain segments of paths
          Dotted,      \* those that hold a dot (file.ext, v1.2)
          MaxDepth     \* bound: segments of a path

VARIABLES contract,    \* the stage's and the delivery target's contracts
          step,
          scopes,      \* the sandbox's WritableScopes
          control,     \* the sandbox's repoControlRoots
          repos,       \* materialized_repos
          context,     \* what context.json says, or the empty sequence
          mounts,      \* the volumes of docker run
          skipped      \* history: the volumes the launcher left out

accessVars == <<contract, step, scopes, control, repos, context, mounts, skipped>>

spec == contract.spec
target == contract.target

NoName == ""     \* an absent name, an empty segment
Wild == {"*", "**"}
Paths == UNION {[1 .. n -> Segments] : n \in 0 .. MaxDepth}

\* An ownership pattern, and the path of a directory that scopes begin at.
IsPattern(q) == q \in Seq(Segments \cup Wild) /\ Len(q) \in 1 .. MaxDepth
IsDirectory(d) == d \in Seq(Segments) /\ Len(d) < MaxDepth

Rules(component) ==
  component.ownership \cup UNION {r.ownership : r \in component.repositories}

ASSUME SegmentsAssumption ==
  /\ MaxDepth \in Nat
  /\ "generated" \in Segments
  /\ Segments \cap ({NoName, ".", ".git"} \cup Wild) = {}

ASSUME ContractsAssumption ==
  \A c \in Contracts :
    /\ c.spec.materialize \subseteq {"components", "journal", "gitops"}
    /\ \A n \in DOMAIN c.target.components :
         \A r \in Rules(c.target.components[n]) : \A q \in r.paths : IsPattern(q)
    /\ IsDirectory(c.target.journal.path)
    /\ \A e \in DOMAIN c.target.environments : IsDirectory(c.target.environments[e].path)

------------------------------------------------------------------------------
(* The delivery target (internal/model/types.go).                           *)

SelectedComponentNames ==
  IF target.selected # {} THEN target.selected
  ELSE IF target.primary # NoName THEN {target.primary}
  ELSE DOMAIN target.components

SelectedDeliveryComponents ==
  {target.components[n] : n \in SelectedComponentNames \cap DOMAIN target.components}

RulesFor(rules, identity) == {r \in rules : r.identity = identity}

AllRepositories(component) ==
  IF component.repositories = {}
  THEN {[repo |-> component.repo, ownership |-> {}]}
  ELSE component.repositories

OwnershipRulesFor(component, identity) ==
  RulesFor(component.ownership, identity) \cup
  UNION {RulesFor(r.ownership, identity) : r \in AllRepositories(component)}

EmptyRepo == [project |-> NoName, templated |-> FALSE, complete |-> FALSE]

EnvironmentTarget(name) ==
  IF name \in DOMAIN target.environments
  THEN target.environments[name]
  ELSE [repo |-> EmptyRepo, path |-> << >>]

Valid(identity) == identity \in {"agent", "generator", "governed"}

------------------------------------------------------------------------------
(* The sandbox (internal/isolation/sandbox.go).                             *)

RunRepo(repo) == <<"run", repo.project>>
RepoCandidates(project) == IF project = NoName THEN {} ELSE {<<"source", project>>}

\* The materialization path as the work order spells it: it is the checkout
\* of the run unless a {run_id} in it was replaced.
MaterializationPath(repo) ==
  IF repo.templated THEN <<"template", repo.project>> ELSE RunRepo(repo)

gitOpsCandidates(repo) ==
  RepoCandidates(repo.project) \cup
  (IF repo.complete THEN {MaterializationPath(repo)} ELSE {})

Whole(root) == [root |-> root, all |-> TRUE, patterns |-> {}]
allowPatterns(root, patterns) ==
  IF patterns = {} THEN {} ELSE {[root |-> root, all |-> FALSE, patterns |-> patterns]}

mutablePatterns(rules) == UNION {r.paths : r \in {q \in rules : q.mutable}}

\* strings.Trim(path, "/") + "/**": an empty path gives a pattern that
\* nothing matches.
Below(path) == (IF path = << >> THEN <<NoName>> ELSE path) \o <<"**">>

May(surface) == surface \in spec.writable
MayControl(surface) == surface \in spec.repoControl

ComponentScopes ==
  UNION {UNION {
    LET rules == IF r.ownership = {} THEN OwnershipRulesFor(c, spec.writeAs)
                 ELSE RulesFor(r.ownership, spec.writeAs)
    IN  UNION {allowPatterns(root, mutablePatterns(rules)) :
                 root \in RepoCandidates(r.repo.project)}
    : r \in AllRepositories(c)} : c \in SelectedDeliveryComponents}

ComponentRoots ==
  UNION {UNION {RepoCandidates(r.repo.project) : r \in AllRepositories(c)} :
           c \in SelectedDeliveryComponents}

GovernedSurfaces ==
  IF spec.writeAs = "governed"
  THEN [journal |-> gitOpsCandidates(target.journal.repo),
        gitops  |-> LET t == EnvironmentTarget(spec.environment)
                    IN  IF t.repo.project # NoName /\ t.path # << >>
                        THEN gitOpsCandidates(t.repo) ELSE {}]
  ELSE IF spec.writeAs = "generator"
  THEN [journal |-> gitOpsCandidates(target.journal.repo)
                      \cup {<<"generator", target.journal.repo.project>>},
        gitops  |-> {}]
  ELSE [journal |-> {}, gitops |-> {}]

\* The patterns the code adds next to a whole repository change nothing that
\* scope does not already allow.
addIdentityScopes ==
  (IF May("components") THEN ComponentScopes ELSE {}) \cup
  UNION {{Whole(root) : root \in GovernedSurfaces[s]} :
           s \in {t \in {"journal", "gitops"} : May(t)}}

addIdentityControl ==
  (IF MayControl("components") THEN ComponentRoots ELSE {}) \cup
  UNION {GovernedSurfaces[s] : s \in {t \in {"journal", "gitops"} : MayControl(t)}}

\* filepath.Match, segment by segment.
MatchSegments(pattern, rel) ==
  /\ Len(pattern) = Len(rel)
  /\ \A i \in DOMAIN rel : pattern[i] \in Wild \/ pattern[i] = rel[i]

\* A pattern that ends in "/**": everything at or below what is before it, in
\* which a wildcard is taken literally.
Deep(pattern) == Len(pattern) > 1 /\ Last(pattern) = "**"

\* The path of the root itself is ".".
matchPattern(pattern, path) ==
  LET rel == IF path = << >> THEN <<".">> ELSE path
  IN  IF Deep(pattern) THEN IsPrefix(Front(pattern), rel) ELSE MatchSegments(pattern, rel)

allows(scope, root, path) ==
  /\ scope.root = root
  /\ scope.all \/ \E p \in scope.patterns : matchPattern(p, path)

\* A stage without write_as is refused nothing, whatever its scopes are.
RequireWrite(root, path) ==
  spec.writeAs = NoName \/ \E s \in scopes : allows(s, root, path)

------------------------------------------------------------------------------
(* The mounts (internal/stagecontainer/docker.go).                          *)

\* The segments before the first wildcard.  An empty one, which the code skips,
\* comes from an empty path and has a wildcard after it.
Static(pattern) ==
  LET stop == SelectInSeq(pattern, LAMBDA s : s \in Wild \cup {NoName})
  IN  IF stop = 0 THEN pattern ELSE SubSeq(pattern, 1, stop - 1)

\* The last segment before a wildcard is always taken for a file.
ParentRoot(pattern) ==
  LET static == Static(pattern)
  IN  IF static # << >> THEN Front(static) ELSE static

writablePatternRoot(pattern) ==
  LET static == Static(pattern)
  IN  IF static # << >> /\ Last(static) \in Dotted THEN Front(static) ELSE static

RepoRoots(ctx) == {r.root : r \in ctx.repos}

RepoMounts(ctx) ==
  {[root |-> root, path |-> << >>, rw |-> Whole(root) \in ctx.scopes] :
     root \in RepoRoots(ctx)}

writableSubpathMounts(ctx) ==
  UNION {{[root |-> s.root, path |-> writablePatternRoot(p), rw |-> TRUE] :
            p \in {q \in s.patterns : writablePatternRoot(q) # << >>}} :
           s \in {t \in ctx.scopes : t.root \in RepoRoots(ctx) /\ ~ t.all}}

repoControlMounts(ctx) ==
  {[root |-> root, path |-> <<".git">>, rw |-> TRUE] :
     root \in ctx.control \cap RepoRoots(ctx)}

Workspace == <<"workspace", NoName>>

WorkspaceMount == [root |-> Workspace, path |-> << >>, rw |-> TRUE]

\* The mounts that are made if their directory is there or can be made
\* (ensureMountPath, and the stat of .git).
Optional(ctx) == writableSubpathMounts(ctx) \cup repoControlMounts(ctx)

Planned(ctx) == RepoMounts(ctx) \cup Optional(ctx)

------------------------------------------------------------------------------
AccessInit ==
  /\ contract \in Contracts
  /\ step = "claimed"
  /\ scopes = {} /\ control = {} /\ repos = {} /\ mounts = {} /\ skipped = {}
  /\ context = << >>

\* isolation.New; a stage without a known identity has its workspace only.
New ==
  /\ step = "claimed"
  /\ step' = "sandboxed"
  /\ scopes' = {Whole(Workspace)} \cup
               (IF Valid(spec.writeAs) THEN addIdentityScopes ELSE {})
  /\ control' = IF Valid(spec.writeAs) THEN addIdentityControl ELSE {}
  /\ UNCHANGED <<contract, repos, context, mounts, skipped>>

Materialized(surface) == surface \in spec.materialize

\* The repositories EnsureRunRepo is asked for, surface by surface.
Requested ==
  {[surface |-> "components", repo |-> c.repo] :
     c \in IF Materialized("components") THEN SelectedDeliveryComponents ELSE {}} \cup
  {[surface |-> "journal", repo |-> r] :
     r \in IF Materialized("journal") /\ target.journal.repo.project # NoName
           THEN {target.journal.repo} ELSE {}} \cup
  {[surface |-> "gitops", repo |-> r] :
     r \in IF Materialized("gitops")
           THEN {EnvironmentTarget(spec.environment).repo} ELSE {}}

\* A generator is given its own directory of the journal as well.
JournalPatterns ==
  {IF target.journal.path = << >> THEN <<"**">> ELSE Below(target.journal.path)} \cup
  (IF spec.writeAs = "generator"
   THEN {target.journal.path \o <<"generated", "**">>} ELSE {})

grantComponentRepoAccess ==
  UNION {allowPatterns(RunRepo(c.repo),
                       mutablePatterns(OwnershipRulesFor(c, spec.writeAs))) :
           c \in IF May("components") THEN SelectedDeliveryComponents ELSE {}}

Granted(request) ==
  CASE request.surface = "components" ->
         {s \in grantComponentRepoAccess : s.root = RunRepo(request.repo)}
    [] request.surface = "journal" ->
         allowPatterns(RunRepo(request.repo), JournalPatterns)
    [] request.surface = "gitops" ->
         allowPatterns(RunRepo(request.repo),
                       {Below(EnvironmentTarget(spec.environment).path)})

\* Every repository resolves and is granted to the sandbox.
initializeStageRepos ==
  /\ step = "sandboxed"
  /\ Materialized("gitops") => spec.environment # NoName
  /\ \A r \in Requested : r.repo.project # NoName /\ r.repo.complete
  /\ step' = "materialized"
  /\ repos' = {[surface |-> r.surface, root |-> RunRepo(r.repo)] : r \in Requested}
  /\ scopes' = scopes \cup UNION {Granted(r) : r \in Requested}
  /\ control' = control \cup
       {RunRepo(r.repo) : r \in {q \in Requested :
                                   q.surface = "components" => MayControl("components")}}
  /\ UNCHANGED <<contract, context, mounts, skipped>>

\* The first repository that does not resolve, for want of a declaration or
\* because git fails, ends the attempt.
initializeStageReposFails ==
  /\ step = "sandboxed"
  /\ Requested # {}
  /\ step' = "failed"
  /\ UNCHANGED <<contract, scopes, control, repos, context, mounts, skipped>>

SummaryAtStart ==
  [scopes |-> {s \in scopes : s.root \notin {r.root : r \in repos}},
   control |-> control, repos |-> repos]

\* Summary, taken for context.json after the repositories were granted.
Summary == [scopes |-> scopes, control |-> control, repos |-> repos]

writeContext ==
  /\ step = "materialized"
  /\ RequireWrite(Workspace, << >>)
  /\ step' = "ready"
  /\ context' = Summary
  /\ UNCHANGED <<contract, scopes, control, repos, mounts, skipped>>

\* What the context holds cannot be loaded, or the file cannot be written.
writeContextFails ==
  /\ step = "materialized"
  /\ step' = "failed"
  /\ UNCHANGED <<contract, scopes, control, repos, context, mounts, skipped>>

\* dockerArgs: the mounts come from context.json alone.  A directory that
\* cannot be made, or a .git that is not there, is passed over in silence.
runEntrypoint ==
  /\ step = "ready"
  /\ step' = "running"
  /\ \E lost \in SUBSET Optional(context) :
       /\ mounts' = {WorkspaceMount} \cup (Planned(context) \ lost)
       /\ skipped' = lost
  /\ UNCHANGED <<contract, scopes, control, repos, context>>

\* A context.json that cannot be read or validated is passed over as well.
runEntrypointBlind ==
  /\ step = "ready"
  /\ step' = "running"
  /\ mounts' = {WorkspaceMount}
  /\ skipped' = Planned(context)
  /\ UNCHANGED <<contract, scopes, control, repos, context>>

AccessNext ==
  \/ New
  \/ initializeStageRepos
  \/ initializeStageReposFails
  \/ writeContext
  \/ writeContextFails
  \/ runEntrypoint
  \/ runEntrypointBlind

AccessSpec == AccessInit /\ [][AccessNext]_accessVars

------------------------------------------------------------------------------
Covered(volumes, root, path) ==
  \E m \in volumes : m.rw /\ m.root = root /\ IsPrefix(m.path, path)

\* A pattern that begins at the root of its repository: a wildcard or a file
\* there.  The launcher leaves such repositories read-only.
AtRoot(pattern) ==
  \/ Head(pattern) \in Wild \cup {NoName}
  \/ pattern[1] \in Dotted /\ (Len(pattern) = 1 \/ pattern[2] \in Wild)

AllowedAtRoot(root, path) ==
  \A s \in scopes : allows(s, root, path) =>
    ~ s.all /\ \A q \in s.patterns : matchPattern(q, path) => AtRoot(q)

(***************************************************************************)
(* The container can write what RequireWrite lets a stage with a write_as  *)
(* write: a path allowed in a materialized repository lies under a         *)
(* read-write mount, unless only patterns that begin at the repository's   *)
(* root allow it or the launcher passed over a mount above it.  The        *)
(* sandbox matches whole patterns and the launcher mounts their static     *)
(* beginning, from a summary that must be younger than the grants.         *)
(***************************************************************************)
AllowedIsMounted ==
  step = "running" /\ spec.writeAs # NoName =>
    \A r \in repos, p \in Paths :
      RequireWrite(r.root, p) =>
        \/ Covered(mounts, r.root, p)
        \/ Covered(skipped, r.root, p)
        \/ AllowedAtRoot(r.root, p)

\* A pattern that matches no path: a wildcard before its final "**".
Inert(pattern) == Deep(pattern) /\ \E i \in 1 .. Len(pattern) - 1 : pattern[i] \in Wild

\* A directory with everything below it, whose name the launcher does not
\* take for that of a file.
Exact(pattern) == Deep(pattern) /\ ~ Inert(pattern) /\ Last(Front(pattern)) \notin Dotted

\* The pattern allows a path at or below the directory; one that is Inert
\* is there all the same.
Reaches(pattern, directory) ==
  /\ IsPrefix(directory, pattern)
  /\ Inert(pattern) \/ \E p \in Paths : IsPrefix(directory, p) /\ matchPattern(pattern, p)

(***************************************************************************)
(* "repo roots are read-only by default" (OPERATIONS.md): what is mounted  *)
(* read-write the sandbox allows entirely, down to the last path below it. *)
(* A mount that is wider than what it was made for is made for a pattern   *)
(* that is not a directory with everything below it, or whose directory    *)
(* has a dot in its name (src/v1.2/** mounts src), and is not the whole    *)
(* repository.                                                             *)
(***************************************************************************)
MountedIsAllowed ==
  \A m \in mounts : m.rw /\ m.root \in {r.root : r \in repos} =>
    \/ m.path = <<".git">> /\ m.root \in control
    \/ \A p \in Paths : IsPrefix(m.path, p) => \E s \in scopes : allows(s, m.root, p)
    \/ /\ m.path # << >>
       /\ \E s \in scopes : s.root = m.root /\ \E q \in s.patterns :
            ~ Exact(q) /\ Reaches(q, m.path)
==============================================================================
