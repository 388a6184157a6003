# A formal model of Datum

TLA+ modules, TLC configurations and machine-checked proofs about Datum, the
agent that reconciles a Linux host with the state a Git repository declares.
Every definition is translated from the Go source; `PROJECT.json` ("map") says
which lines each one stands for.

To check a run: `tlc -workers 2 -config Pass.cfg MCPass`. To check the proofs:
`tlapm PassProofs.tla`, and the same for `GraphProofs`, `AgentProofs`,
`ReportsProofs`, `LoopProofs`, `HostProofs`, `CompileProofs` and `ManifestProofs`.

## The system

A pass goes from a repository to a changed host in one direction:

    agent / datum reconcile            (lock, schedule, timeout)
      -> source.Select                 fetch, choose, verify, materialise, fall back
      -> discover, resolve.Host        layers that match, merged, validated
      -> graph.BuildProtecting         one total order
      -> observe.Host                  every target is read
      -> plan.Build                    an action for each, and triggers
      -> reconcile.Apply               act, verify, block, outcome
           -> a provider               calls to the host
      -> report.Write                  what datum status and a restart read

| Component | State it keeps | Operations | What is hard | What makes it correct |
|---|---|---|---|---|
| Discovery (`internal/discover`) | documents found, their layers | find the root, exclude, sort, assign | directories within each other, documents of other fleets | every document of the fleet belongs to its nearest layer, nothing is left out |
| Manifest (`internal/resolve`, `match`, `schema`) | resources so far, conflicts | match, fold, substitute, validate, digest | precedence and provenance over three or more layers | the result is the merge of the layers or there is none; one digest, one set of instructions |
| Anchor (`internal/anchor`) | none | the protected set, check a target | many ways to write and to contain a path | nothing of the agent's own is managed |
| Capability (`internal/capability`, `osrelease`) | none | select a provider for each type | closeness, ambiguity, what the host lacks | the closest claim serves |
| Graph (`internal/graph`) | nodes, edges, ready queue, order | nodes, duplicates, edges, sort | ties, cycles, dropped nodes | one least topological order of the whole manifest |
| Pass (`internal/observe`, `plan`, `reconcile`, `state`) | what was seen, plan, blocked set, verdicts | observe, plan, enforce, verify, block | a host that changes after it was read, failures half way, triggers, cut-off passes | nothing is attempted behind a failure, converged was read, outcomes mean what they say |
| Providers (`internal/provider/*`) | the host itself | observe, apply as a list of calls | calls that fail, half take effect or are the last before a crash; fields that do not read back | what was applied verifies, what is right is left alone, nothing half done shows |
| Source (`internal/source`, `git`, `revision`) | clone, tree, accepted revision | select, accept, fall back | timeouts and crashes inside each, two owners, revoked or rewritten history | only vetted revisions, never backwards |
| Agent (`internal/agent`, `lock`, `cmd/datum`) | the flock | tick, pass, timeout, reconcile, clear | mutual exclusion, hung passes, operators | one pass at a time, the lock comes free, the host becomes current |
| Loop (`internal/agent`, `schedule`, `metrics`) | timer, backoff, registry | wait, record, stop, restart | two clocks, overruns, stopping during a pass, restarts | every wait ends in the host's own tick, only the remote stretches it, the loop goes on |
| Reports (`internal/report`) | a directory of files | write, prune, latest | several writers, pruning while reading, clocks set back | none is replaced, only old ones go, the latest is the latest |
| Documents, configuration, rendering | none | text, I/O | text | see "Not modelled" |

They share state through files (`clone`, `tree`, `accepted-revision`,
`pass.lock`, `reports/`) and through the host. Inside a process a pass is one
sequential call chain; concurrency is between processes, between a pass and
everything else that changes the host, and between a pass and its deadline.

## Modules

| Module | Models | Correspondence |
|---|---|---|
| `Discover` | `discover.Walk` and what it calls | operators on a repository, a record of documents and their paths |
| `Sorting` | what `sort.SliceStable` leaves | one function of what is sorted, which the code's orders determine |
| `Schema` | `schema.Validate` and the field tables | operators on one merged resource |
| `Anchor` | `anchor.For`, `Set.Check` | operators on a configuration and a target |
| `Capability` | `capability.selectFrom`, `osrelease.ReadFrom`, `provider.NewSet` | operators on a machine: providers, what it has, its os-release |
| `Resolve` | `resolve.Host`, `merger`, `substituter`, `match.Evaluate` | `MatchLayers` is the first loop of `Host`, `FoldResource` one iteration of the loops over layers and their resources, `CheckManifest` the rest. A value carries the layer it is from, as `Value.From` does. |
| `Graph` | `graph.BuildProtecting` | one action per phase, one per iteration of Kahn's loop; a reference is its rank in string order |
| `Compile` | `runPass` up to observing | composes the above: `WalkStep` finds the documents, `ResolveStep` resolves, `HandOver` gives the merged resources, with their targets and whether they are protected, to the graph, `Detect` selects the providers |
| `Affected` | `datum affected`, `Manifest.Digest` | resolves every host of two revisions with the steps of `Compile` and compares |
| `Pass` | `observe.Host`, `plan.Build`, `reconcile.Apply`, `enforce`, `verify`, `block`, `outcome` | one action per loop iteration; `Drift` is anyone else on the host, `Abandon` the deadline or a crash |
| `PassContract` | what a pass promises, without observing or planning | abstract specification of `Pass` |
| `PassProofs` | theorems about `Pass`: its order and its contract, and what it reports | |
| `GraphProofs`, `AgentProofs`, `ReportsProofs`, `LoopProofs` | theorems about `Graph`, `Agent` with `Source`, `Reports`, `Loop` with `Schedule` and `Metrics` | |
| `HostProofs` | theorems about `Host` with all six providers | |
| `CompileProofs` | theorems about `Compile` and `Affected`, with `Anchor` and `Capability` | |
| `ManifestProofs` | theorems about `Compile` and `Affected`, with `Discover`, `Resolve` and, through `GraphProofs`, `Graph` | |
| `Provider` | the interface: `diff`, `decide`, `verify`, which fields count | operators |
| `Posix`, `Accounts`, `Systemd`, `ProcSys`, `Packages`, `Repositories` | one provider each | `Observe`, `Calls` (what `Apply` does, as a list) and `Effect` (what one call does to the host) |
| `Host` | one resource of one host, pass after pass | composes the providers with planning, faults, crashes, meddling and new revisions |
| `History` | ancestry of commits | what `merge-base --is-ancestor` answers |
| `Source` | `source.Select` | one action per call that touches the state directory |
| `Agent` | `runOnce`, the fetching pass, `datum reconcile`, `revision clear` | over `Source`; `Tick`, `Resolve`, `WriteTemp`, `Publish`, `Apply`, `End`, `Timeout`, `Crash` |
| `Schedule` | `schedule.New`, `Record`, `Next`, `Wait` | operators on the schedule of one host |
| `Metrics` | the registry, as far as it shows passes | operators |
| `Loop` | `agent.New`, `Run`, `runOnce` seen from outside a pass, with the process around it | `Tick` is the timer firing, `PassErrs`, `WriteReport` and `PassReports` the ways a pass ends, `Crash`, `Stop`, `Restart` the process, `Elapse` and `SetClock` its two clocks |
| `Ratchet` | what the accepted revision promises | abstract specification of `Agent` |
| `Reports` | `report.Write`, `prune`, `Latest` | several writers and readers, each a few file operations long |

`MC*` modules give the constants; operators marked `\* defect` are plausible
bugs that the mutants of `PROJECT.json` put in place of the definition below
them, to show that each property can fail.

A pass is three models: `Agent` has what it does to the state directory, `Pass`
what it does to the host, and `Loop` only how it ends. `Pass` treats a provider as something that may do its work, fail, or claim
success without having done it; `Host` looks inside the providers and treats
the rest of the graph as somebody who may ask for a restart. `Graph` shows what
`Pass` takes for granted: edges go forward in the order and a target has one
owner (`CompileEdgesGoForward` proves it).

## What the runs show

| Run | Instance | Properties |
|---|---|---|
| `compile` | five thousand repositories: three layers in six patterns of precedence with every choice of a mode (a label, an undeclared label), of a file or content, or of dependencies; two layers under every pair of eleven matchers; one layer with three resources and every `requires` relation, self-references, dangling ones and shared targets; directories three deep with and without layers, exclusions, unreadable files, several or stray Fleet documents, layers and hosts that share a name; twenty ways to write a path, as the path of a file, a directory or a link or as where it points; three hundred machines; and every two of sixteen revisions of a fleet with three hosts | `ManifestIsTheMerge`, `ConflictsAreRefused`, `FilesComeFromTheirLayer`, `LeastTopologicalOrder`, `OnlySoundGraphsAreBuilt`, `ProtectedIsOutOfReach`, `ClosestClaimServes`, `VerdictsAreOfTheInstructions` |
| `pass` | three resources in a chain, a fork of triggers and a triangle; absent targets, gaps in coverage, observe mode; two faults (drift, read errors, failed or ineffective actions, abandoned passes); passes without end | `PrerequisitesHold`, `BlockedOnlyBehindAFailure`, `ConvergedWasRead`, `OutcomeMeansWhatItSays`, `SecondPassIsEmpty`, `ChangedMeansReacted`, `ReactionHasACause`, `EventuallyDeclared`, and `KeepsContract` (refinement of `PassContract`) |
| `agent` | one agent and one command, five commits with a fork, a broken commit and a merge, three trust settings, two moves of people, two faults | `OnePassAtATime`, `LockIsReleased`, `EventuallyCurrent` |
| `two_agents` | two agents on one host, two faults | `TreeIsPlanned`, `AppliesNothingOlder`, `KeepsRatchet` (refinement of `Ratchet`) |
| `loop` | two hosts with an interval of 2, one with a splay that exceeds it, on a clock that comes round to every boundary of the stretched interval; passes that end in each of their ways, forever; two of: a crash, the clock set by 11, a command, an error of the lock, a report that cannot be written | `TimerIsTheNextTick`, `OnlyTheRemoteBacksOff`, `MetricsAreOfTheLastPass`, `KeepsGoingUntilStopped` |
| `reports` | two writers, one reader, four reports of which two are kept, equal times, one crash, one step back of the clock | `NeverReplaced`, `OnlyOldReportsGo`, `NamesFollowPasses`, `StatusIsCurrent` |
| `host` | eleven worlds, one or two for each resource type, with several declarations and found targets; two failed or interrupted calls, one change by others, one new revision | `AppliedIsVerified`, `ConvergedIsMet`, `MetIsLeftAlone`, `NothingHalfDone`, `NoTraces`, `AccountsKeepTheirIds`, `OutagesAreAskedFor`, `EventuallyMet` |

Why the bounds are enough. Three resources are the least with which a failure
is transitive, a trigger chains and two causes meet; three layers the least for
provenance to matter (see below); two faults in `host` and `pass` because a
second one must meet what the first left. Passes, ticks and
retries are not bounded: only what goes wrong is (`MaxFaults`, `MaxMoves`,
`MaxMeddling`, `MaxRevisions`, `MaxCrashes`, `MaxBack`, `MaxTrouble`), and so are
the reports written (`MaxReports`) and the times they bear (`MaxTime`), since each
is a new state. In `Loop` the clock runs modulo a common multiple of the interval
and its stretched forms, which is all a next tick depends on; names of passes are
used again once nothing refers to them; and counts of failures stop at
`MaxFailures`, which is where the backoff has stopped growing. `Compile`,
`Affected` and `Reports` stop when a pass is ready or refused, the report is
complete, and `MaxReports` are written, so deadlock is not checked there.

The files of a repository are paths of natural numbers, each name being its rank
among names; the code compares whole paths as text, which orders two names of
which one is a prefix of the other by what follows. Only ties of precedence
depend on it.

### Fairness

- `Pass`: weak fairness of the agent's own steps. The loops of a pass have no
  blocking step but an action, which `Exec.Run` bounds by the context, and `Run`
  starts another pass after each.
- `Agent`: weak fairness of each agent's steps, because it is scheduled,
  restarted by its unit and bounded by `Reconciliation.Timeout`; and of the end
  of a `datum reconcile`. The last one is an assumption on the operator: the
  command runs under `context.Background()` with no deadline
  (`cmd/datum/reconcile.go:59`), so a program that hangs keeps the lock until
  somebody ends the command. Nothing is assumed of pushes, clears, crashes or
  of the commands being started.
- `Host`: weak fairness of the provider's steps, for the same reasons as `Pass`.
- `Loop`: weak fairness of time, of a timer that is due, of the end of a pass
  (bounded by its timeout) and of a command, of `select` once the context is
  done, and of the restart after a death that nobody asked for, which
  `packaging/datum.service` promises (`Restart=on-failure`). Nobody has to start
  an agent that was stopped, and nothing makes anyone stop one or set a clock.

### Where the code and its documents disagree

Five runs find a statement of the documents or comments that the code does not
keep; the findings in `PROJECT.json` quote them.

- `compile_conflict_missed`: A at 10 and B at 20 say x, C at 20 says y. B's
  agreement leaves no trace, so C overrides A and nobody reports that B and C,
  of equal precedence, disagree. `ConflictsAreRefused` is the property that does
  hold: such an echo is the only way a disagreement is missed.
- `pass_lost_reaction`: a service whose configuration was changed in a pass in
  which its own restart failed is not restarted by the next pass, which finds
  the configuration in place.
- `agent_last_known_good`: a revision that verifies but does not resolve ends the
  pass; the accepted revision is not reconciled until the remote changes.
- `agent_half_clone`: a clone killed by the fetch timeout is not removed.
- `host_misjudged`: `suite`, and whether a source is signed, are never compared.

Others were met while modelling and are carried as named exceptions or notes:

- `MetIsLeftAlone` excepts `NeverReadBack`: groups that name the primary group,
  modes of three digits or with special bits, `sensitive`, the owner of a
  `Symlink`, a `Sysctl` value with double spaces, `components` out of order or
  listed and empty.
  Such targets are updated on every pass and fire their dependents' triggers,
  against docs/resources/lifecycle.md:103.
- A skipped dependency does not block what requires it (`reconcile.go:127`),
  while docs/resources/dependencies.md:36 speaks of anything not converged.
- A source failure that falls back is recorded as a success and does not back
  off (`schedule.go:26` against `cmd/datum/agent.go`); a host that cannot be
  observed is recorded as the remote's failure.
- A File that names its `source` in two layers is read from the lower one when
  both say the same relative path; `signingKey` is not among `pathFields`, so a
  key always comes from the first layer's directory; the digest leaves the
  directory out.
- Two layers with one name share their resources, which `resourcesIn` looks up
  by name, so a host can get those of a layer it does not match;
  docs/reference/manifest-format.md:25 calls names unique and nothing checks it.
  `ManifestIsTheMerge` says which resources result, and which values only when
  names are unique (`OneNameEach`).
- The digest, "the same instructions" in `resolve.go:60`, leaves out the layer
  directory and the content of files the repository holds, so an edited source
  file is no change for `datum affected`; and `--show-resources` has no line for
  a resource whose dependencies alone changed. `VerdictsAreOfTheInstructions`
  states both as they are.
- A provider that is picked for one type is registered for all its types, the
  last type in alphabetical order winning (`provider.NewSet`). Every provider in
  the code claims the same for all its types, so nothing comes of it;
  `ClosestClaimServes` is about such providers.
- A Fleet document counts wherever it is below the directory that is searched,
  in an excluded directory too.
- The configuration file is protected at its usual path and not where the agent
  was told to find it; `plan` and the other commands protect the usual paths
  even if the agent is configured with others (docs/security/repository-trust.md:201).
- A metadata-only `File` is staged and renamed, and so gets the agent's owner.
- Retries come at the ticks of a stretched interval, counted from the epoch, so
  the first after a failure may come after one interval, not two
  (docs/reconciliation/failure-handling.md). Losing the lock to an error counts as
  the host's failure; a host that cannot be observed, as the remote's, against
  the comment at `cmd/datum/agent.go:144`.
- A revision that fails to resolve leaves no report, so the metrics never show it
  attempted ahead of what is applied, as docs/observability/metrics.md describes.
- A pass that is cut off writes no report (`reconcile.go:105`), where
  docs/reconciliation/failure-handling.md:102 has it recorded as failed with its
  phase; a pointer that cannot be written is only logged.
- A restarted agent seeds its metrics with the last report and so counts that
  pass a second time (`agent.go:100`).

## What is proved

`PassProofs` proves, for every `N`, every set of worlds whose edges go forward
and every number of faults (assumptions `NAssumption`, `WorldsAssumption`,
`FaultsAssumption` of `Pass`):

- `PassInvariant`: `Spec => []IInv`
- `PassTypeOK`: `Spec => []TypeOK`
- `PassPrerequisites`: `Spec => []PrerequisitesHold`
- `PassBlockedBehindFailure`: `Spec => []BlockedOnlyBehindAFailure`
- `PassKeepsContract`: `Spec => KeepsContract`, that is, every step of a pass is
  a step or a stutter of `PassContract`

`PrerequisitesHold` is not inductive: it speaks of resources already acted on
and says nothing of where the loop stands or whether a failure has reached its
dependents. `IInv` adds `UnsoundSpreads` (every edge out of a failed or blocked
resource leads into a blocked one), `ActedInOrder` (what was acted on was not
blocked, and everything smaller was settled) and `LoopPosition` (a resource is
settled if and only if the loop has passed it). With these the argument is
short: edges go forward, so what waits for r is larger than r; the loop blocks
all of it when r fails; and it never acts on what is blocked. That the search
of `block` reaches everything downstream is a lemma about `Reached`, the least
set closed under successors. `IInv` is not listed in a run of its own: TLC
confirmed it before it was proved.

It proves of what a pass reports, under the same assumptions:

- `PassOutcomeInvariant`: `Spec => []OInv`
- `PassConvergedWasRead`: `Spec => []ConvergedWasRead`
- `PassOutcomeMeans`: `Spec => []OutcomeMeansWhatItSays`
- `PassSecondIsEmpty`: `Spec => []SecondPassIsEmpty`
- `PassChangedMeansReacted`: `Spec => []ChangedMeansReacted`
- `PassReactionHasACause`: `Spec => []ReactionHasACause`

A verdict is true of the host only through what lies between: that what was read
stays true until the target drifts or is acted on (`ReadingStands`), that the plan
was made of what was read, in order, and is kept (`PlanStands`), that each verdict
follows from the step and from whether anything was tried (`VerdictsFollowSteps`,
`AppliedMeansTried`), and that a reaction which had its turn and is still owed
was tried and failed (`OwedUntilReacted`). The loop settles a resource in six
ways; one lemma says what all six have in common (`BorneOut`), and each conjunct
is shown to survive that. A settled host stays so because a pass over it finds
nothing to do before it could do anything (`QuietStays`). TLC confirmed `OInv`
on the instance of `pass`, 1.1 million states, before it was proved.

`GraphProofs` proves, for every manifest over every finite set of references
(assumption `RefsAssumption` of `Graph`):

- `GraphInvariant`: `Spec => []Inv`
- `GraphTypeOK`: `Spec => []TypeOK`
- `GraphOrder`: `Spec => []LeastTopologicalOrder`
- `GraphSound`: `Spec => []OnlySoundGraphsAreBuilt`

`Spec` there is that of `Graph`, which starts from any manifest; `ManifestProofs`
carries both over to the graphs of the manifests a repository yields. Not
even `TypeOK` is inductive, because a count could drop below zero if it counted
anything but the edges from nodes not yet placed. `Inv` says what the counts and
the ready set mean (`Counted`), that what reaches the sort is the manifest free
of local problems (`Beginning`, `Accepted`), that no node is placed twice
(`Injective`) and how the sort ends (`Ending`). The step of Kahn's loop takes away
exactly the edges that leave the node it places. A node that was placed waits for
nothing, so it is never freed again. When nothing is ready each node left over
waits for another one left over: that is a cycle, and the length of the order
shows it because the order has no repetitions. Conversely nodes in a topological
order cannot all wait for each other, because the first of them does not.
That a set of references has a least member comes from the library's theorem
that the subsets of a finite set are well-founded. TLC confirmed `Inv` for every
manifest of two references before it was proved.

`AgentProofs` proves, for any number of agents and commands, every history of
commits and every number of faults and of moves of people (assumptions
`HistoryAssumption`, `NamesAssumption`, `SettingsAssumption`, `BoundsAssumption`,
`ProcessesAssumption`):

- `AgentInvariant`: `Spec => []Inv`
- `AgentTypeOK`: `Spec => []TypeOK`
- `AgentMutualExclusion`: `Spec => []OnePassAtATime`
- `AgentTree`: `Spec => []TreeIsPlanned`
- `AgentNothingOlder`: `Spec => []AppliesNothingOlder`
- `AgentKeepsRatchet`: `Spec => KeepsRatchet`, that is, every step is a step or a
  stutter of `Ratchet`

`Inv` adds to mutual exclusion what is true of one pass at each of its stages
(`PassHolds`): that its baseline is vetted and nobody but an operator who clears it
has moved the pointer since (`BaselineHolds`), that what it selected is vouched for
and follows the baseline (`SelectionHolds`), and that the tree, the plan and the
temporary file are of that revision (`PlanHolds`). The argument is that of one
process: mutual exclusion leaves every other agent asleep or down, where
`PassHolds` says nothing, so a step has to be looked at for the pass that takes it
only. A clear may come at any time and takes no lock, which is why the pointer is
the baseline *or nothing*, and why what is published still follows it. Of the
history the proof needs that a commit is its own ancestor, of the settings that
every rule picks commits it vouches for (`CandidateFacts`).

`ReportsProofs` proves, for any number of writers, readers, passes, crashes and
clock changes and any `Keep` above zero (`KeepAssumption`):

- `ReportsInvariant`: `Spec => []Inv`
- `ReportsGoWhenOld`: `Spec => []OnlyOldReportsGo`
- `ReportsAreNotReplaced`: `Spec => NeverReplaced`
- `ReportNamesInvariant`: `Spec => []NamesInv`
- `ReportNamesFollowPasses`: `Spec => []NamesFollowPasses`
- `ReportsStatusIsCurrent`: `Spec => []StatusIsCurrent`

A writer prunes by name from a list it read earlier, while others prune and
publish, even under a name that was free again. `Inv` says that no two reports
have one name (`NamesDiffer`) and that what any writer still means to remove is
old enough now, not only when it looked (`DoomedAreOld`). Publishing only adds
newer reports (`AddingKeepsOld`). Removing d does not make another report too
young (`RemovingKeepsOld`): if d was among the reports newer than f, then all that
are newer than d are newer than f, and of those there are enough.

`NamesInv` is about a steady clock. A writer that has listed the directory has a
sequence number beyond every report of its time, and one that finds its name
taken moves on, so what had been written when it began sorts before it
(`NamesFollow`), although time and number are chosen in different steps and
others publish in between. What a reader chose was the newest of its list, so
whatever is newer came after it looked (`ChosenWasNewest`); if its choice is
gone when it opens it, a writer removed it, and only because as many newer
reports were there. TLC confirmed `NamesInv` on the instance of `reports`, 7
million states.

`LoopProofs` proves, for every clock and every set of hosts whose clock is a
common multiple of their stretched intervals (assumptions `LongestAssumption`,
`SettingsAssumption`, `PassesAssumption`, `FailuresAssumption`,
`JumpsAssumption` of `Loop`):

- `WaitEndsAtTheTick`: a lemma about `Schedule` alone: the wait ends at the
  host's offset, after now and within one round, by the arithmetic of remainders
- `LoopInvariant`: `Spec => []LoopInv`
- `LoopTypeCorrect`: `Spec => []TypeOK`
- `LoopTimerIsTheNextTick`: `Spec => []TimerIsTheNextTick`
- `LoopOnlyTheRemoteBacksOff`: `Spec => []OnlyTheRemoteBacksOff`
- `LoopMetricsAreOfTheLastPass`: `Spec => []MetricsAreOfTheLastPass`

`LoopInv` says what the schedule and the registry remember of the failures in a
row (`Remembers`), that a running timer ends at the tick it was set for, through
time that passes and clocks that are set (`KeepsTime`), what the registry shows
of the reports on disk and of the pass under way (`ShowsTheDisk`), and that a
restart starts afresh (`StartsAfresh`). The assumption that the clock's period
is a multiple of eight intervals is the bound of the model, not of the code: the
code's clock counts from an epoch and does not come round, and the tick it picks
depends on nothing but the remainder. Names of passes are used again in the model
once nothing refers to them, which five suffice for (`FreshIsAPass`).

`HostProofs` proves, for every set of worlds whose declarations the schema lets
through and whose targets a provider can find, every set of versions that has a
newest one, and every number of faults, of changes by others and of revisions
(assumptions `WorldsAssumption`, `VersionsAssumption`, `BoundsAssumption` of
`Host`):

- `HostInvariant`: `Spec => []HostInv`
- `HostAppliedIsVerified`: `Spec => []AppliedIsVerified`
- `HostConvergedIsMet`: `Spec => []ConvergedIsMet`
- `HostMetIsLeftAlone`: `Spec => []MetIsLeftAlone`
- `HostNothingHalfDone`: `Spec => []NothingHalfDone`
- `HostNoTraces`: `Spec => []NoTraces`
- `HostAccountsKeepTheirIds`: `Spec => []AccountsKeepTheirIds`
- `HostOutagesAreAskedFor`: `Spec => []OutagesAreAskedFor`

There are two halves. The first needs no behaviour: for each of the six
providers, `Decide` has nothing to do about a target exactly when the target
holds what is declared, but for the exceptions `Host` names (`AgreedIsMet`,
`MetAgrees`). `Observe` and `Compare` are far from saying so themselves: a field
may be unobservable, not comparable, restated before it is compared, or compared
as sorted text. The second half follows a target call by call. `Pending` lists,
for each type, every sequence of calls that can be left of an Apply, and
`OnTheWay` what a target nobody else touches must already hold when those are
left: that a staged file has the declared owner once only its mode, its content
and the rename are to come, that a running service is only started when it did
not run when planned, that an account keeps what was not declared. One lemma
for each provider shows that its first calls start there (`Beginning`), and one
that a call which succeeds brings the target one call further (`Stepping`). An
empty list then means that the target is as declared, which the first half turns
into what `Verify` answers (`BroughtIsVerified`). Faults, crashes and other
people need no argument about the target: a failed call leaves what the call
before it or the call itself left, cleaned up, and whoever meddles ends `alone`.
TLC confirmed `HostInv` on the instance of `host`, 240 thousand states.

`WorldsAssumption` is `schema.Validate` as far as these properties depend on it
(`Legal`: known, required and exclusive fields, and the values that checkValue
allows), and for a target the shape that its provider reads. Beyond that it
excludes values that are empty, which the code treats as absent when it reads a
request (`FieldOr`), a user whose primary group is the marker for "no account",
and more than two components or one component twice, which the model's sorted
pair stands for.

`CompileProofs` proves, for every set of repositories, hosts, paths and providers
(assumptions `PathAssumption` and `ProvidersAssumption` of `Compile`):

- `CompileInvariant`: `AffectedSpec => []CompileInv`
- `CompileProtectedIsOutOfReach`: `AffectedSpec => []ProtectedIsOutOfReach`
- `CompileClosestClaimServes`: `AffectedSpec => []ClosestClaimServes`

`CompileInv` says that the graph is given the merged resources of this host and
stays empty before (`BuildsTheMerged`), that it holds none it was told is
protected and refuses no other for it (`Separates`), and that what is selected is
selected for this host (`SelectsForTheHost`). The rest is about the two
components alone. `PathProtected` shows that comparing a cleaned path with the
protected files and directories, in both directions, finds exactly the paths that
are, contain or are inside of something the agent trusts: of two prefixes of one
path one is a prefix of the other (`AgreeFacts`). `ClosestArePicked` shows that
walking the identifiers from the closest on and stopping at the first that anybody
claims picks those at the least distance, and `SetIsOfThePicked` that registering
every provider for all of its types overrides nothing. `PathAssumption` says that
the meaning a path is given in an instance is what `Clean` makes of its names, since
what a fold computes is out of reach; TLC evaluates it. `ProvidersAssumption` is
what `candidates()` looks like: providers that share a type share all of them.
Without it the theorem is false: a general provider picked for one type could be
registered, by `NewSet`, over a closer one for another. TLC confirmed `CompileInv`
on the instance of `compile`.

`ManifestProofs` proves, for every set of repositories and hosts (assumptions
`RepositoryAssumption` and `TypesAssumption` of `Compile`, `RefsAssumption` of
`Graph`):

- `ManifestInvariant`: `AffectedSpec => []ManifestInv`
- `CompileManifestIsTheMerge`: `AffectedSpec => []ManifestIsTheMerge`
- `CompileConflictsAreRefused`: `AffectedSpec => []ConflictsAreRefused`
- `CompileFilesComeFromTheirLayer`: `AffectedSpec => []FilesComeFromTheirLayer`
- `ReportInvariant`: `AffectedSpec => []ReportInv`
- `AffectedVerdictsAreOfTheInstructions`:
  `AffectedSpec => []VerdictsAreOfTheInstructions`
- `BuildingInvariant`: `AffectedSpec => []GraphIsBuilt`
- `CompileLeastTopologicalOrder`: `AffectedSpec => []LeastTopologicalOrder`
- `CompileOnlySoundGraphsAreBuilt`: `AffectedSpec => []OnlySoundGraphsAreBuilt`
- `CompileEdgesGoForward`: `AffectedSpec => []EdgesGoForward`, what
  `WorldsAssumption` of `Pass` takes for granted of edges and targets

The properties speak of documents, directories and layers, the code of sorted
lists and of positions in them. The first part closes that gap without any
behaviour. A list that `InOrder` makes of a finite set has each member once
(`Sorting`, by the number of members before it). Paths compare as
`strings.Compare` has it, which orders them (`ComesOrders`), so what discovery
collects is the documents of this fleet in one order (`LayersFound`,
`ResourcesFound`, `HostsFound`), and the deepest directory at which
`NearestLayer` finds a Layer document is that of the layer that governs
(`NearestGoverns`), which is one because more would have been refused.

The second part follows the fold. `Contributed` is what each pair of a matching
layer and a resource of its name says, and `FoldInv` that what is merged is the
merge of the pairs folded so far: the fields and references are all of theirs,
and of every field `FieldAt` holds. That is the strengthening the properties need:
to say that a value is one a layer of the highest precedence gives is not
inductive, since it forgets whose name the value bears, and the next conflict is
decided by that name's precedence. `FieldAt` says that the value is from one who
says so and whom nobody above contradicts, and, where no conflict was reported,
that whoever says otherwise is below it or repeats what one below it said. Pairs
are folded in order of precedence (`FoldsNext`), so the next to speak is not below
any so far, and `FieldGoesOn` is the case analysis of agreement, conflict and
override. `Checked` adds what the validation of the manifest and the choice of the
directory leave. At the end every pair is folded, and what they say is what the
documents say (`ContributedMeans`). `ReportInv` says of `datum affected` that every
host of a revision has a manifest or is still to come; `DigestsAlike` that sorting
a finite set of references forgets nothing but the order they were mentioned in.

The third part composes: what a resolved manifest hands over is a manifest a
graph can be built of (`EffectiveIsManifest`), so the invariant of Kahn's loop
that `GraphProofs` has of `Graph` alone holds of every graph of a pass. With that
`CompileEdgesGoForward` discharges what `Pass` assumes about its worlds.

`RepositoryAssumption` is what a checkout looks like: finitely many documents
with the fields their kind has, and paths that are not both a file and a
directory. Every document has a path of its own: where two stand in one file, the
last step of the path is the place in it, and the code, which sorts with
`sort.SliceStable`, keeps them in that order. That no two documents of one kind
with one name (a layer: one precedence) share a path excludes nothing then.
`TypesAssumption` is that every resource type the documents allow has a field table,
whose absence `internal/schema/schema.go:154` calls a bug in the code and not a problem of the
repository. Neither says that layer names are unique, which no code
checks: where a property needs it, it says so itself (`OneNameEach`).
TLC evaluates both, and confirmed `ManifestInv`, `ReportInv` and `GraphIsBuilt` on the
instance of `compile`, 73 thousand states, before they were proved.

Four things came out of these proofs that no run had shown. Two definitions had
alternatives that overlapped (`Record` of `Schedule`, `Verdict` of `Affected`),
which TLC resolves silently by taking the first; they say now which is meant. A
unit that is enabled until the next boot only counts as enabled where the
provider can know, and `UnitMet` asks the provider's own question; and a list of
components that is declared and empty never reads back, which is now among
the exceptions and in the worlds of `host`. A relative path in the agent's
configuration protects nothing in the code, while `Anchor` protected what it would
mean from the root; `Anchor` now leaves it out, and `compile` has such a
configuration.

## What is only model-checked

- Liveness, which these provers do not reach: `EventuallyDeclared`,
  `EventuallyCurrent`, `LockIsReleased`, `EventuallyMet`, `KeepsGoingUntilStopped`.

Every other property a passing run checks is stated by a theorem as well.

## Not modelled

- YAML decoding, field formats, glob patterns, rendering, `explain`, `validate`,
  `init`: text in, text out, no state. What they yield are inputs: documents, the
  paths a pattern matches, files that cannot be decoded.
- Values within values: a map of fields merges key by key as the fields of a
  resource do. A map that a scalar replaces never conflicts (`merge.go:39`).
- `CheckIdentity` of `internal/anchor`, which follows the links a host has.
- The text of metrics, the textfile, and counters that only add up.
- Configuration: its validated values are the assumptions of the models.
- Disks that reorder writes: `revision.writeAtomic` does not sync, so a power
  loss can leave an empty pointer, which reads as first contact. Crashes here
  are of processes, not of machines.

## Plan

Done, in this order, the most important behaviour first: `Graph`, `Pass` with
`PassContract` and `PassProofs`, `Source`/`Agent` with `Ratchet`, `Reports`, the
providers with `Host`, `Resolve` with `Compile`, `Schedule`/`Metrics` with `Loop`,
`Discover`, `Schema`, `Anchor`, `Capability`, `Affected`, and the proof modules.

Next:

1. Machine crashes for the pointer and the reports.
2. `CheckIdentity`, with links that change between the check and the write.
