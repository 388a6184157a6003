-------------------------------- MODULE Host --------------------------------
(***************************************************************************)
(* One resource of one host, pass after pass: observed, planned, applied   *)
(* call by call and verified, by whichever provider serves its type, while *)
(* calls fail or are cut off, the agent dies between two of them, others   *)
(* change the same target and new revisions declare it differently.        *)
(***************************************************************************)
EXTENDS Provider, Functions, Sequences

CONSTANTS
  Worlds,      \* by name: a type, what may be declared of it, and what may be found
  Versions,    \* the package versions on offer
  MaxFaults,   \* bound on failed calls and crashes
  MaxMeddling, \* bound on changes by others
  MaxRevisions \* bound on new declarations

ASSUME VersionsAssumption == Versions \subseteq Nat /\ \E v \in Versions : \A w \in Versions : w <= v
ASSUME BoundsAssumption == {MaxFaults, MaxMeddling, MaxRevisions} \subseteq Nat

-----------------------------------------------------------------------------
(* What a resource may be: what schema.Validate lets through, and what its *)
(* provider can find.  Owner stands for group as well, shell for home and  *)
(* comment, and content for source and template, which have been resolved. *)

Declaration == INSTANCE Schema

File == INSTANCE Posix
Account == INSTANCE Accounts
Service == INSTANCE Systemd
Sysctl == INSTANCE ProcSys
Package == INSTANCE Packages
Source == INSTANCE Repositories

StoodFor == {"group", "home", "comment", "source", "template"}

Listed(s) == s \in Seq(Nat) /\ Len(s) <= 2 /\ (Len(s) = 2 => s[1] # s[2])

IsText(text) == text.tidy \in BOOLEAN /\ text = Sysctl!Text(text.value, text.tidy)

LegalValue(type, f, v) ==
  /\ f = "state" => v \in IF type = "Service" THEN {"running", "stopped"} ELSE {"present", "absent"}
  /\ f = "enabled" => v \in {"true", "false"}
  /\ f = "version" => v \in Nat
  /\ f = "value" => IsText(v) /\ v.value # Sysctl!Unset.value
  /\ f = "primaryGroup" => v # Account!NoAccount.primary
  /\ f \in {"url", "signingKey", "priority"} => v # ""
  /\ f = "components" => Listed(v)

Legal(type, d) ==
  /\ DOMAIN d \subseteq Declaration!Fields[type] \ StoodFor
  /\ Declaration!Required(type) \subseteq DOMAIN d
  /\ Present(d) => Declaration!RequiredWhenPresent(type) \subseteq DOMAIN d
  /\ \A f, g \in Declaration!AtMostOne(type) \cap DOMAIN d : f = g
  /\ \A f \in DOMAIN d : LegalValue(type, f, d[f])

IsNode(node) == node = File!Node(node.kind, node.owner, node.mode, node.data)
IsAccount(a) ==
  /\ a = Account!Entry(a.id, a.primary, a.groups, a.shell)
  /\ a # Account!NoAccount => a.primary # Account!NoAccount.primary
IsSource(s) ==
  /\ s = [url |-> s.url, suite |-> s.suite, components |-> s.components,
          priority |-> s.priority, enabled |-> s.enabled, signed |-> s.signed]
  /\ Listed(s.components)

\* What a target of a type looks like, while Apply is at it too.
Shaped(type, h) ==
  /\ type \in Paths => h = [node |-> h.node, staged |-> h.staged] /\ IsNode(h.node) /\ IsNode(h.staged)
  /\ type \in {"User", "Group"} => h = [account |-> h.account] /\ IsAccount(h.account)
  /\ type = "Service" => h = [unit |-> Service!Unit(h.unit.load, h.unit.active, h.unit.file)]
  /\ type = "Sysctl" => /\ h = Sysctl!Parameter(h.running, h.stored)
                        /\ IsText(h.running) /\ h.running.tidy /\ IsText(h.stored)
  /\ type = "Package" => h = Package!Package(h.manager, h.status, h.version) /\ h.version \in Nat
  /\ type = "Repository" => h = Source!Repository(h.manager, h.source, h.key) /\ IsSource(h.source)

Findable(type, h) == Shaped(type, h) /\ (type \in Paths => h.staged = File!Nothing)

ASSUME WorldsAssumption ==
  \A w \in DOMAIN Worlds :
    /\ Worlds[w].type \in DOMAIN Declaration!Fields
    /\ \A d \in Worlds[w].declarations : Legal(Worlds[w].type, d)
    /\ \A h \in Worlds[w].hosts : Findable(Worlds[w].type, h)

-----------------------------------------------------------------------------
VARIABLES
  world,       \* the name of this behaviour's world
  declared,    \* the declaration in force
  host,        \* the target, as the provider of its type knows it
  stage,       \* "rest", "planned" or "applying"
  action, trigger, \* what the plan decided
  todo,        \* the calls Apply still has to make
  verdict,     \* how the resource ended its last pass
  faults, meddling, revisions

(* History: no guard of the code reads these.                              *)
VARIABLES
  before,      \* the target when it was last planned
  alone,       \* nobody else has changed it or its declaration since
  fresh,       \* ... nor since it was last observed
  crashed      \* Apply was cut off once

bounds == <<faults, meddling, revisions>>
history == <<before, alone, fresh, crashed>>
vars == <<world, declared, host, stage, action, trigger, todo, verdict, bounds, history>>

-----------------------------------------------------------------------------
(* The provider that serves the type.                                      *)

Type == Worlds[world].type

Observe(h) == CASE Type \in Paths -> File!Observe(Type, declared, h)
                [] Type \in {"User", "Group"} -> Account!Observe(Type, declared, h)
                [] Type = "Service" -> Service!Observe(Type, declared, h)
                [] Type = "Sysctl" -> Sysctl!Observe(Type, declared, h)
                [] Type = "Package" -> Package!Observe(Type, declared, h)
                [] Type = "Repository" -> Source!Observe(Type, declared, h)

Calls(h, act, trig) ==
  CASE Type \in Paths -> File!Calls(Type, declared, h, act, trig)
    [] Type \in {"User", "Group"} -> Account!Calls(Type, declared, h, act, trig)
    [] Type = "Service" -> Service!Calls(Type, declared, h, act, trig)
    [] Type = "Sysctl" -> Sysctl!Calls(Type, declared, h, act, trig)
    [] Type = "Package" -> Package!Calls(Type, declared, h, act, trig)
    [] Type = "Repository" -> Source!Calls(Type, declared, h, act, trig)

Effect(h, call) ==
  CASE Type \in Paths -> File!Effect(Type, declared, h, call)
    [] Type \in {"User", "Group"} -> Account!Effect(Type, declared, h, call)
    [] Type = "Service" -> Service!Effect(Type, declared, h, call)
    [] Type = "Sysctl" -> Sysctl!Effect(Type, declared, h, call)
    [] Type = "Package" -> Package!Effect(Type, declared, h, call)
    [] Type = "Repository" -> Source!Effect(Type, declared, h, call)

Cleanup(h) == IF Type \in Paths THEN File!Cleanup(h) ELSE h

Refused == Type = "Repository" /\ Source!Refused(declared, host)

Triggers == IF Type = "Service" THEN {"none", "restart", "reload"} ELSE {"none"}

-----------------------------------------------------------------------------

Init ==
  /\ world \in DOMAIN Worlds
  /\ declared \in Worlds[world].declarations
  /\ host \in Worlds[world].hosts
  /\ stage = "rest" /\ action = "none" /\ trigger = "none" /\ todo = <<>>
  /\ verdict = "unknown"
  /\ faults = 0 /\ meddling = 0 /\ revisions = 0
  /\ before = host
  /\ alone = TRUE /\ fresh = FALSE /\ crashed = FALSE

\* A pass is over, for this resource.
Over(v) == stage' = "rest" /\ action' = "none" /\ trigger' = "none" /\ todo' = <<>> /\ verdict' = v

\* The target is observed and the plan decides; what a dependency's change
\* asks for makes an update of nothing to do.
Plan ==
  /\ stage = "rest" /\ ~Refused
  /\ trigger' \in Triggers
  /\ LET decided == Decide(Type, declared, Observe(host))
     IN  action' = IF decided = "none" /\ trigger' # "none" THEN "update" ELSE decided
  /\ IF action' = "none"
     THEN stage' = "rest" /\ verdict' = "converged"
     ELSE stage' = "planned" /\ verdict' = "unknown"
  /\ before' = host /\ alone' = TRUE /\ fresh' = TRUE
  /\ UNCHANGED <<world, declared, host, todo, bounds, crashed>>

\* What cannot be observed fails and is not touched.
Refuse ==
  /\ stage = "rest" /\ Refused
  /\ Over("failed")
  /\ UNCHANGED <<world, declared, host, bounds, history>>

Start ==
  /\ stage = "planned"
  /\ stage' = "applying"
  /\ todo' = Calls(host, action, trigger)
  /\ UNCHANGED <<world, declared, host, action, trigger, verdict, bounds, history>>

Call ==
  /\ stage = "applying" /\ todo # <<>>
  /\ host' \in Effect(host, Head(todo))
  /\ todo' = Tail(todo)
  /\ UNCHANGED <<world, declared, stage, action, trigger, verdict, bounds, history>>

\* A call that cannot succeed, or that fails or is cut off by the action
\* timeout before or after it did what it does.
CallFails ==
  /\ stage = "applying" /\ todo # <<>>
  /\ LET outcomes == Effect(host, Head(todo))
     IN  \/ /\ outcomes = {}
            /\ host' = Cleanup(host)
            /\ UNCHANGED faults
         \/ /\ outcomes # {} /\ faults < MaxFaults
            /\ faults' = faults + 1
            /\ host' \in {Cleanup(h) : h \in outcomes \cup {host}}
  /\ Over("failed")
  /\ UNCHANGED <<world, declared, meddling, revisions, before, alone, fresh, crashed>>

\* Reading the target again, whatever the provider returned.
VerifyApplied ==
  /\ stage = "applying" /\ todo = <<>>
  /\ LET found == Verify(Type, declared, Observe(host))
     IN  Over(IF found = "failed" THEN "untrue" ELSE found)
  /\ fresh' = TRUE
  /\ UNCHANGED <<world, declared, host, bounds, before, alone, crashed>>

\* The pass is abandoned or the agent dies, and nothing cleans up.
CutOff ==
  /\ stage # "rest" /\ faults < MaxFaults
  /\ faults' = faults + 1
  /\ crashed' = TRUE
  /\ Over("unknown")
  /\ UNCHANGED <<world, declared, host, meddling, revisions, before, alone, fresh>>

Meddle ==
  /\ meddling < MaxMeddling
  /\ meddling' = meddling + 1
  /\ \E h \in Worlds[world].hosts :
       host' = IF Type \in Paths THEN [host EXCEPT !.node = h.node] ELSE h
  /\ host' # host
  /\ alone' = FALSE /\ fresh' = FALSE
  /\ UNCHANGED <<world, declared, stage, action, trigger, todo, verdict, faults, revisions, before, crashed>>

\* The next pass reconciles a revision that declares the target differently.
Revise ==
  /\ stage = "rest" /\ revisions < MaxRevisions
  /\ revisions' = revisions + 1
  /\ declared' \in Worlds[world].declarations \ {declared}
  /\ verdict' = "unknown"
  /\ alone' = FALSE /\ fresh' = FALSE
  /\ UNCHANGED <<world, host, stage, action, trigger, todo, faults, meddling, before, crashed>>

Provide == Plan \/ Refuse \/ Start \/ Call \/ CallFails \/ VerifyApplied

Next == \/ Provide
        \/ CutOff
        \/ Meddle
        \/ Revise

Spec == Init /\ [][Next]_vars

\* The agent goes on passing over its resources, whatever a pass ended like.
FairSpec == Spec /\ WF_vars(Provide)

-----------------------------------------------------------------------------
(* What a declaration asks for, as far as it can be measured, said without *)
(* observing or comparing: whether a static unit starts at boot, a         *)
(* parameter this kernel does not have and a secret cannot be.             *)

Says(f, x) == f \in DOMAIN declared => declared[f] = x

SaysMode(bits) == "mode" \in DOMAIN declared => declared.mode.bits = bits

PathMet(node) ==
  IF ~Present(declared) THEN node.kind # Type
  ELSE /\ node.kind = Type
       /\ Says("owner", node.owner) /\ SaysMode(node.mode)
       /\ Says("content", node.data) /\ Says("target", node.data)

AccountMet(account) ==
  IF ~Present(declared) THEN account = Account!NoAccount
  ELSE /\ account # Account!NoAccount
       /\ Says("uid", account.id) /\ Says("gid", account.id)
       /\ Says("primaryGroup", account.primary) /\ Says("shell", account.shell)
       /\ "groups" \in DOMAIN declared =>
            account.groups \cup {account.primary} = declared.groups \cup {account.primary}

UnitMet(unit) ==
  /\ Service!Exists(unit)
  /\ (unit.active = "active") = (declared.state = "running")
  /\ Service!EnablementKnown(unit) => (unit.file = "disabled") = (declared.enabled = "false")

ParameterMet(h) ==
  IF ~Present(declared) THEN h.stored = Sysctl!Unset
  ELSE h.running \in {Sysctl!Unset, Sysctl!Normalise(declared.value)}
         /\ Sysctl!Normalise(h.stored) = Sysctl!Normalise(declared.value)

PackageMet(h) ==
  (h.status = "installed") = Present(declared)
    /\ (Present(declared) => Says("version", h.version))

SourceMet(h) ==
  IF ~Present(declared) THEN h.source = Source!NoSource
  ELSE /\ h.source # Source!NoSource
       /\ Says("url", h.source.url) /\ Says("suite", h.source.suite) /\ Says("priority", h.source.priority)
       /\ "components" \in DOMAIN declared => Range(declared.components) = Range(h.source.components)
       /\ h.source.enabled = Declared(declared, "enabled", "true")
       /\ "signingKey" \in DOMAIN declared => h.source.signed
       /\ Says("signingKey", h.key)

Met == CASE Type \in Paths -> PathMet(host.node)
         [] Type \in {"User", "Group"} -> AccountMet(host.account)
         [] Type = "Service" -> UnitMet(host.unit)
         [] Type = "Sysctl" -> ParameterMet(host)
         [] Type = "Package" -> PackageMet(host)
         [] Type = "Repository" -> SourceMet(host)

-----------------------------------------------------------------------------
(* Where the code is known to fall short, and why.                         *)

\* Declarations that are never read back as they were written: a mode in
\* another width or with special bits, a field no provider observes or sets,
\* the primary group among the others, spaces, components out of order or none.
NeverReadBack ==
  \/ "mode" \in DOMAIN declared /\ File!ModeText(File!Perm(declared.mode)) # declared.mode
  \/ "sensitive" \in DOMAIN declared
  \/ Type = "Symlink" /\ "owner" \in DOMAIN declared /\ declared.owner # "root"
  \/ "groups" \in DOMAIN declared /\ Account!Observe(Type, declared, host).exists
       /\ host.account.primary \in declared.groups
  \/ Type = "User" /\ "groups" \in DOMAIN declared /\ "primaryGroup" \in DOMAIN declared
       /\ declared.primaryGroup \in declared.groups
  \/ Type = "Sysctl" /\ ~declared.value.tidy
  \/ "components" \in DOMAIN declared /\ (declared.components = <<>> \/ Source!SortedPair(declared.components) # declared.components)

\* What is declared of a source and never compared with it.
NeverCompared ==
  /\ Type = "Repository" /\ Present(declared) /\ host.source # Source!NoSource
  /\ ~Says("suite", host.source.suite) \/ ("signingKey" \in DOMAIN declared /\ ~host.source.signed)

\* An account in use keeps its id.
NeverCorrected ==
  Type \in {"User", "Group"} /\ host.account # Account!NoAccount
    /\ ~(Says("uid", host.account.id) /\ Says("gid", host.account.id))

\* Something stands in the way of the first call that matters.
Obstructed ==
  \E call \in Range(Calls(host, Decide(Type, declared, Observe(host)), "none")) : Effect(host, call) = {}

-----------------------------------------------------------------------------
(* Properties.                                                             *)

(* Whatever calls Apply makes, in whatever world they find, the target     *)
(* holds what was declared when all of them succeeded and nobody else      *)
(* interfered: verification has nothing to object to                       *)
(* (reconcile.go:206-241).                                                 *)
AppliedIsVerified == verdict = "untrue" => ~alone \/ NeverReadBack

(* A resource is reported converged only when the target really holds      *)
(* everything declared of it (docs/concepts/state.md:16).                  *)
ConvergedIsMet == verdict = "converged" /\ fresh => Met \/ NeverCompared

(* What already holds everything declared of it is planned to be left      *)
(* alone, unless a dependency asks for more (lifecycle.md:103-115): an     *)
(* update of nothing would also fire the triggers of its dependents.       *)
MetIsLeftAlone == stage = "planned" /\ alone /\ trigger = "none" => ~Met \/ NeverReadBack

(* What Apply puts at a path appears there all at once: what was there     *)
(* before, or the whole of what was declared, and a new directory opens    *)
(* only once it belongs to whom it is declared to (apply_linux.go:83-85,   *)
(* 140-141).                                                               *)
NothingHalfDone ==
  alone /\ Type \in Paths /\ host.node # before.node =>
    CASE Type = "Directory" ->
           before.node.kind = "nothing" /\ host.node.mode # File!Octal(0, 7, 0, 0) => Says("owner", host.node.owner)
      [] OTHER -> NeverReadBack \/ PathMet(host.node)

(* A failed Apply leaves nothing beside the target (apply_linux.go:108);   *)
(* only a process that dies does.                                          *)
NoTraces == Type \in Paths /\ stage # "applying" /\ ~crashed => host.staged = File!Nothing

(* An account in use keeps its id, and every field the declaration leaves  *)
(* out, until it is removed (linuxuser.go:135, 260-264).                   *)
AccountsKeepTheirIds ==
  alone /\ Type \in {"User", "Group"} /\ Account!NoAccount \notin {before.account, host.account} =>
    /\ host.account.id = before.account.id
    /\ "groups" \notin DOMAIN declared => host.account.groups = before.account.groups
    /\ "shell" \notin DOMAIN declared => host.account.shell = before.account.shell

(* A service that runs is restarted, reloaded or stopped only when that    *)
(* was asked for, and never one for the other (systemd.go:198-222).        *)
OutagesAreAskedFor ==
  Type = "Service" /\ stage = "applying" =>
    \A call \in Range(todo) :
      /\ call \in {"restart", "reload"} => call = trigger /\ declared.state = "running"
      /\ call = "stop" => declared.state = "stopped"
      /\ call = "start" => ~alone \/ ~Service!Running(before.unit)

(* Whatever failed, was cut off, left half done or was changed by others,  *)
(* the passes that follow bring the target to what is declared, unless     *)
(* something obstructs it (docs/resources/lifecycle.md:97-120).            *)
EventuallyMet ==
  <>[](Met \/ Refused \/ Obstructed \/ NeverReadBack \/ NeverCompared \/ NeverCorrected)

-----------------------------------------------------------------------------
(* What the documentation says and the code does not do.                   *)

(* "converged | Observed state satisfies desired state, whether or not     *)
(* this pass changed it" (docs/concepts/state.md:16).                      *)
ConvergedSatisfiesDesired == verdict = "converged" /\ fresh => Met
=============================================================================
