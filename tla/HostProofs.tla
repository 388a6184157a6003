----------------------------- MODULE HostProofs -----------------------------
(***************************************************************************)
(* Proofs about one resource pass after pass, for every declaration the    *)
(* schema lets through and every target its provider can find.             *)
(***************************************************************************)
EXTENDS Host, TLAPS, SequenceTheorems

-----------------------------------------------------------------------------
(* What Apply still has to call.                                           *)

FillIt == <<"fill", "rename">>
OpenIt == <<"chmod", "fill", "rename">>
HandOver == <<"chown", "chmod", "fill", "rename">>

PathPending(left) ==
  /\ Type = "File" =>
       left \in {<<>>, <<"refuse">>, <<"unlink">>, <<"rename">>, FillIt, OpenIt, HandOver,
                 <<"create", "chmod", "fill", "rename">>, <<"create", "chown", "chmod", "fill", "rename">>}
  /\ Type = "Directory" =>
       left \in {<<>>, <<"unlink">>, <<"chmod">>, <<"chown", "chmod">>, <<"mkdir", "chmod">>,
                 <<"mkdir", "chown", "chmod">>}
  /\ Type = "Symlink" => left \in {<<>>, <<"unlink">>, <<"rename">>, <<"symlink", "rename">>}

Asked(call) ==
  /\ call \in {"restart", "reload"} => call = trigger /\ declared.state = "running"
  /\ call = "stop" => declared.state = "stopped"
  /\ call = "start" => ~alone \/ ~Service!Running(before.unit)

Enabling == {"enable", "disable"}
Switching == {"start", "stop", "restart", "reload"}

UnitPending(left) ==
  \/ left \in {<<>>, <<"refuse">>, <<"enable">>, <<"disable">>}
  \/ \E c \in Switching : Asked(c) /\ (left = <<c>> \/ \E e \in Enabling : left = <<e, c>>)

Pending(left) ==
  /\ Type \in Paths => PathPending(left)
  /\ Type \in {"User", "Group"} => left \in {<<>>, <<"add">>, <<"mod">>, <<"del">>}
  /\ Type = "Service" => UnitPending(left)
  /\ Type = "Sysctl" => left \in {<<>>, <<"write", "persist">>, <<"persist">>, <<"unpersist">>}
  /\ Type = "Package" => left \in {<<>>, <<"erase">>, <<"upgrade">>, <<"install">>, <<"downgrade">>}
  /\ Type = "Repository" =>
       left \in {<<>>, <<"key", "source">>, <<"source">>, <<"unlist", "unkey">>, <<"unkey">>}

-----------------------------------------------------------------------------
(* How far Apply has brought a target that nobody else touches, when these *)
(* calls are left.                                                         *)

\* NeverReadBack, of a path.
Unreadable ==
  \/ "mode" \in DOMAIN declared /\ File!ModeText(File!Perm(declared.mode)) # declared.mode
  \/ "sensitive" \in DOMAIN declared
  \/ Type = "Symlink" /\ "owner" \in DOMAIN declared /\ declared.owner # "root"

FileOnTheWay(h, left) ==
  /\ left # <<>> => h.node = before.node /\ (left = <<"unlink">>) = ~Present(declared)
  /\ left = <<"create", "chmod", "fill", "rename">> => "owner" \notin DOMAIN declared
  /\ left \in {<<"create", "chown", "chmod", "fill", "rename">>, HandOver} => "owner" \in DOMAIN declared
  /\ left \in {HandOver, OpenIt, FillIt, <<"rename">>} => h.staged.kind = "File"
  /\ left \in {OpenIt, FillIt, <<"rename">>} => Says("owner", h.staged.owner)
  /\ left \in {FillIt, <<"rename">>} /\ "mode" \in DOMAIN declared => h.staged.mode = File!Perm(declared.mode)
  /\ left = <<"rename">> => Says("content", h.staged.data)
  /\ left = <<>> => PathMet(h.node) \/ Unreadable

DirectoryOnTheWay(h, left) ==
  /\ left \in {<<"unlink">>, <<"mkdir", "chmod">>, <<"mkdir", "chown", "chmod">>} => h.node = before.node
  /\ left # <<>> => (left = <<"unlink">>) = ~Present(declared)
  /\ ~Present(declared) => before.node.kind = "Directory"
  /\ left = <<"mkdir", "chmod">> => "owner" \notin DOMAIN declared
  /\ left \in {<<"mkdir", "chown", "chmod">>, <<"chown", "chmod">>} => "owner" \in DOMAIN declared
  /\ left \in {<<"chown", "chmod">>, <<"chmod">>} => h.node.kind = "Directory"
  /\ left = <<"chown", "chmod">> /\ before.node.kind = "nothing" => h.node.mode = File!Octal(0, 7, 0, 0)
  /\ left = <<"chmod">> \/ (left = <<>> /\ Present(declared)) => Says("owner", h.node.owner)
  /\ left = <<>> => PathMet(h.node) \/ Unreadable

SymlinkOnTheWay(h, left) ==
  /\ left # <<>> => h.node = before.node /\ (left = <<"unlink">>) = ~Present(declared)
  /\ left = <<"rename">> => h.staged = File!Node("Symlink", "root", File!Octal(0, 7, 7, 7), declared.target)
  /\ left = <<>> => PathMet(h.node) \/ Unreadable

\* AccountMet, but for the id, which is not corrected.
Joined(account) ==
  IF ~Present(declared) THEN account = Account!NoAccount
  ELSE /\ account # Account!NoAccount
       /\ Says("primaryGroup", account.primary) /\ Says("shell", account.shell)
       /\ Says("groups", account.groups)

KeepsItsId(account) ==
  Account!NoAccount \notin {before.account, account} =>
    /\ account.id = before.account.id
    /\ "groups" \notin DOMAIN declared => account.groups = before.account.groups
    /\ "shell" \notin DOMAIN declared => account.shell = before.account.shell

AccountOnTheWay(h, left) ==
  /\ left # <<>> => h.account = before.account /\ (left = <<"del">>) = ~Present(declared)
  /\ left = <<>> => Joined(h.account) /\ KeepsItsId(h.account)

Switched(unit) == Service!Running(unit) = (declared.state = "running")
Enabled(unit) == Service!EnablementKnown(unit) => (unit.file = "disabled") = (declared.enabled = "false")

UnitOnTheWay(h, left) ==
  left # <<"refuse">> =>
    /\ Service!Exists(h.unit)
    /\ Enabled(h.unit) \/ (left # <<>> /\ Head(left) \in Enabling)
    /\ left # <<>> /\ Head(left) \in Enabling =>
         Service!EnablementKnown(h.unit) /\ Head(left) = (IF declared.enabled = "true" THEN "enable" ELSE "disable")
    /\ \/ Switched(h.unit) /\ left \in {<<>>, <<"enable">>, <<"disable">>}
       \/ \E c \in Switching :
            /\ c = "stop" <=> declared.state = "stopped"
            /\ left = <<c>> \/ \E e \in Enabling : left = <<e, c>>

ParameterOnTheWay(h, left) ==
  /\ left # <<>> => (left = <<"unpersist">>) = ~Present(declared)
  /\ left = <<"persist">> => h.running = Sysctl!Normalise(declared.value)
  /\ left = <<>> => ParameterMet(h)

PackageOnTheWay(h, left) ==
  /\ left # <<>> => (left = <<"erase">>) = ~Present(declared)
  /\ left = <<"upgrade">> => "version" \notin DOMAIN declared
  /\ left = <<"install">> => h.manager # "dnf" \/ ~Package!Backwards(declared, h)
  /\ left = <<>> => PackageMet(h)

SourceOnTheWay(h, left) ==
  /\ h.manager = before.manager /\ ~Source!Refused(declared, h)
  /\ left \in {<<"unlist", "unkey">>, <<"unkey">>} => ~Present(declared)
  /\ left \in {<<"key", "source">>, <<"source">>} => Present(declared)
  /\ left = <<"unkey">> => h.source = Source!NoSource
  /\ left = <<"source">> => Says("signingKey", h.key)
  /\ left = <<>> => SourceMet(h)

OnTheWay(h, left) ==
  /\ Type = "File" => FileOnTheWay(h, left)
  /\ Type = "Directory" => DirectoryOnTheWay(h, left)
  /\ Type = "Symlink" => SymlinkOnTheWay(h, left)
  /\ Type \in {"User", "Group"} => AccountOnTheWay(h, left)
  /\ Type = "Service" => UnitOnTheWay(h, left)
  /\ Type = "Sysctl" => ParameterOnTheWay(h, left)
  /\ Type = "Package" => PackageOnTheWay(h, left)
  /\ Type = "Repository" => SourceOnTheWay(h, left)

-----------------------------------------------------------------------------
(* The inductive invariant.                                                *)

Types == DOMAIN Declaration!Fields

HostTyped ==
  /\ world \in DOMAIN Worlds /\ declared \in Worlds[world].declarations
  /\ Shaped(Type, host) /\ Shaped(Type, before)
  /\ stage \in {"rest", "planned", "applying"}
  /\ alone \in BOOLEAN /\ fresh \in BOOLEAN /\ crashed \in BOOLEAN
  /\ trigger \in Triggers
  /\ stage # "applying" => todo = <<>>
  /\ stage # "rest" => verdict = "unknown"

\* What was decided when the target was last planned.
PlanStandsFor(seen) ==
  /\ Type = "Repository" => ~Source!Refused(declared, before)
  /\ \/ Decide(Type, declared, seen) # "none" /\ action = Decide(Type, declared, seen)
     \/ /\ Decide(Type, declared, seen) = "none" /\ trigger # "none" /\ action = "update"

OnPlan ==
  /\ stage # "rest" => PlanStandsFor(Observe(before))
  /\ stage = "planned" /\ alone => host = before
  /\ stage = "applying" => Pending(todo)
  /\ stage = "applying" /\ alone => OnTheWay(host, todo)

\* Only a rename that is still to come explains what is staged.
NothingStaged ==
  Type \in Paths /\ ~crashed /\ (todo = <<>> \/ todo[Len(todo)] # "rename") => host.staged = File!Nothing

\* What was found converged still looks the same.
ConvergedAgrees == verdict = "converged" /\ fresh => Decide(Type, declared, Observe(host)) = "none"

HostInv ==
  /\ HostTyped
  /\ OnPlan
  /\ NothingStaged
  /\ ConvergedAgrees
  /\ AppliedIsVerified
  /\ NothingHalfDone
  /\ AccountsKeepTheirIds

-----------------------------------------------------------------------------
(* What is seen and what is, provider by provider: Decide has nothing to do *)
(* about a target exactly when it holds what is declared of it.             *)

(* What Decide answers, and when it has nothing to do.                      *)
LEMMA Deciding ==
  ASSUME NEW type, NEW d, NEW seen, seen.exists \in BOOLEAN
  PROVE  /\ Decide(type, d, seen) \in {"create", "remove", "update", "none"}
         /\ Decide(type, d, seen) = "remove" => ~Present(d) /\ seen.exists
         /\ Decide(type, d, seen) = "create" => Present(d) /\ ~seen.exists
         /\ Decide(type, d, seen) = "update" => Present(d) /\ seen.exists
         /\ Decide(type, d, seen) = "none" <=>
              /\ Present(d) <=> seen.exists
              /\ Present(d) => Compare(type, DesiredOr(d, seen), seen) = {}
BY DEF Decide, Present

(* A field differs when it is declared, can be compared and is read back    *)
(* otherwise or not at all.                                                 *)
LEMMA InCompare ==
  ASSUME NEW type, NEW d, NEW seen, NEW f
  PROVE  f \in Compare(type, d, seen) <=>
           /\ f \in DOMAIN d /\ f \notin Identity(type) /\ f \notin seen.unobservable
           /\ Comparable(f, d[f])
           /\ f \in DOMAIN seen.fields => seen.fields[f] # d[f]
BY DEF Compare

(* A provider that restates nothing is compared with the declaration itself.*)
LEMMA NoDesired ==
  ASSUME NEW d, NEW seen, seen.desired = <<>>
  PROVE  DesiredOr(d, seen) = d
BY DEF DesiredOr

PathFields(type, d) ==
  {"owner"} \cup (IF type = "Symlink" THEN {"target"} ELSE {"mode"})
            \cup (IF "content" \in DOMAIN d THEN {"content"} ELSE {})

(* What Observe reports of a path.                                          *)
LEMMA PathSeen ==
  ASSUME NEW type, NEW d, NEW h
  PROVE  LET seen == File!Observe(type, d, h) IN
         /\ seen.exists \in BOOLEAN /\ (seen.exists <=> h.node.kind = type)
         /\ seen.desired = <<>> /\ seen.uncorrectable = {}
         /\ seen.unobservable = IF "secretRef" \in DOMAIN d THEN {"content"} ELSE {}
         /\ seen.exists =>
              /\ DOMAIN seen.fields = PathFields(type, d)
              /\ seen.fields["owner"] = h.node.owner
              /\ "mode" \in PathFields(type, d) => seen.fields["mode"] = File!ModeText(h.node.mode)
              /\ "content" \in PathFields(type, d) => seen.fields["content"] = h.node.data
              /\ "target" \in PathFields(type, d) => seen.fields["target"] = h.node.data
<1> DEFINE names == PathFields(type, d)
           fields == [f \in names |-> CASE f = "owner" -> h.node.owner
                                        [] f = "mode" -> File!ModeText(h.node.mode)
                                        [] OTHER -> h.node.data]
           first == IF h.node.kind # type THEN NotThere ELSE There(fields)
           seen == File!Observe(type, d, h)
<1>1. seen = IF "secretRef" \in DOMAIN d THEN [first EXCEPT !.unobservable = {"content"}] ELSE first
  BY DEF File!Observe, PathFields, File!NotThere, File!There, NotThere, There
<1>2. /\ "owner" \in names /\ fields["owner"] = h.node.owner
      /\ "mode" \in names => fields["mode"] = File!ModeText(h.node.mode)
      /\ "content" \in names => fields["content"] = h.node.data
      /\ "target" \in names => fields["target"] = h.node.data
  BY DEF PathFields
<1>3. DOMAIN fields = names
  OBVIOUS
<1> HIDE DEF names, fields
<1>4. CASE h.node.kind # type
  <2>1. first = NotThere
    BY <1>4
  <2> HIDE DEF first
  <2> QED
    BY <1>1, <1>4, <2>1 DEF NotThere
<1>5. CASE h.node.kind = type
  <2>1. first = [exists |-> TRUE, fields |-> fields, desired |-> <<>>, unobservable |-> {}, uncorrectable |-> {}]
    BY <1>5 DEF There, NotThere
  <2> HIDE DEF first
  <2> QED
    BY <1>1, <1>2, <1>3, <1>5, <2>1 DEF names
<1> QED
  BY <1>4, <1>5

-----------------------------------------------------------------------------
(* What every type is, and what the schema says of its declarations.       *)

Lawful == world \in DOMAIN Worlds /\ declared \in Worlds[world].declarations

(* The types of resources.                                                  *)
LEMMA TypesAre ==
  DOMAIN Declaration!Fields =
    {"Package", "File", "Directory", "Symlink", "Service", "User", "Group", "Sysctl", "Repository"}
BY DEF Declaration!Fields

(* What is declared was let through by the schema.                          *)
LEMMA LawfulIsLegal ==
  ASSUME Lawful
  PROVE  /\ Type \in DOMAIN Declaration!Fields
         /\ Legal(Type, declared)
         /\ \A f \in DOMAIN declared : LegalValue(Type, f, declared[f])
BY WorldsAssumption DEF Lawful, Type, Legal

(* What may be declared of a path.                                          *)
LEMMA FieldsOfPaths ==
  ASSUME Lawful, Type \in Paths
  PROVE  /\ DOMAIN declared \subseteq {"path", "state", "owner", "mode", "content", "target", "secretRef",
                                      "sensitive", "validate", "allowPrivileged"}
         /\ "mode" \in DOMAIN declared => Type # "Symlink"
         /\ "content" \in DOMAIN declared \/ "secretRef" \in DOMAIN declared => Type = "File"
         /\ "target" \in DOMAIN declared => Type = "Symlink"
         /\ Type = "Symlink" /\ Present(declared) => "target" \in DOMAIN declared
         /\ ~("content" \in DOMAIN declared /\ "secretRef" \in DOMAIN declared)
         /\ "state" \in DOMAIN declared => declared["state"] \in {"present", "absent"}
<1>1. Legal(Type, declared)
  BY LawfulIsLegal
<1>2. CASE Type = "File"
  <2>1. /\ Declaration!Fields[Type] = {"state"} \cup {"owner", "group"} \cup {"path", "content", "source", "template",
                    "secretRef", "mode", "sensitive", "validate", "allowPrivileged"}
        /\ Declaration!AtMostOne(Type) = {"content", "source", "template", "secretRef"}
    BY <1>2 DEF Declaration!Fields, Declaration!Presence, Declaration!Ownership, Declaration!AtMostOne,
         Declaration!Content
  <2> QED
    BY <1>1, <1>2, <2>1 DEF Legal, StoodFor, LegalValue
<1>3. CASE Type = "Directory"
  <2>1. Declaration!Fields[Type] = {"state"} \cup {"owner", "group"} \cup {"path", "mode", "allowPrivileged"}
    BY <1>3 DEF Declaration!Fields, Declaration!Presence, Declaration!Ownership
  <2> QED
    BY <1>1, <1>3, <2>1 DEF Legal, StoodFor, LegalValue
<1>4. CASE Type = "Symlink"
  <2>1. /\ Declaration!Fields[Type] = {"state"} \cup {"owner", "group"} \cup {"path", "target"}
        /\ Declaration!RequiredWhenPresent(Type) = {"target"}
    BY <1>4 DEF Declaration!Fields, Declaration!Presence, Declaration!Ownership, Declaration!RequiredWhenPresent
  <2> QED
    BY <1>1, <1>4, <2>1 DEF Legal, StoodFor, LegalValue
<1> QED
  BY <1>2, <1>3, <1>4 DEF Paths

-----------------------------------------------------------------------------
(* What is seen and what is.                                               *)

(* A path nothing is to be done about holds what is declared of it.         *)
LEMMA PathAgrees ==
  ASSUME Lawful, Type \in Paths, NEW h, Decide(Type, declared, File!Observe(Type, declared, h)) = "none"
  PROVE  PathMet(h.node)
<1> DEFINE seen == File!Observe(Type, declared, h)
<1>1. /\ seen.exists \in BOOLEAN /\ (seen.exists <=> h.node.kind = Type) /\ seen.desired = <<>>
      /\ seen.unobservable = IF "secretRef" \in DOMAIN declared THEN {"content"} ELSE {}
      /\ seen.exists =>
              /\ DOMAIN seen.fields = PathFields(Type, declared)
              /\ seen.fields["owner"] = h.node.owner
              /\ "mode" \in PathFields(Type, declared) => seen.fields["mode"] = File!ModeText(h.node.mode)
              /\ "content" \in PathFields(Type, declared) => seen.fields["content"] = h.node.data
              /\ "target" \in PathFields(Type, declared) => seen.fields["target"] = h.node.data
  BY PathSeen
<1> HIDE DEF seen
<1>2. /\ Present(declared) <=> seen.exists
      /\ Present(declared) => Compare(Type, declared, seen) = {}
  BY <1>1, Deciding, NoDesired DEF seen
<1>3. CASE ~Present(declared)
  BY <1>1, <1>2, <1>3 DEF PathMet
<1>4. CASE Present(declared)
  <2>1. \A f \in DOMAIN declared :
          f \notin Identity(Type) /\ f \notin seen.unobservable /\ Comparable(f, declared[f]) =>
          f \in DOMAIN seen.fields /\ seen.fields[f] = declared[f]
    BY <1>2, <1>4, InCompare
  <2>2. Identity(Type) = {"path"}
    BY DEF Identity
  <2>3. "owner" \in DOMAIN declared => declared["owner"] = h.node.owner
    BY <1>1, <1>2, <1>4, <2>1, <2>2 DEF Comparable, NotComparable
  <2>4. "mode" \in DOMAIN declared => declared["mode"] = File!ModeText(h.node.mode)
    BY <1>1, <1>2, <1>4, <2>1, <2>2 DEF Comparable, NotComparable
  <2>5. "content" \in DOMAIN declared => declared["content"] = h.node.data
    BY <1>1, <1>2, <1>4, <2>1, <2>2, FieldsOfPaths DEF Comparable, NotComparable
  <2>6. "target" \in DOMAIN declared => declared["target"] = h.node.data
    BY <1>1, <1>2, <1>4, <2>1, <2>2 DEF Comparable, NotComparable
  <2>7. File!ModeText(h.node.mode).bits = h.node.mode
    BY DEF File!ModeText
  <2> QED
    BY <1>1, <1>2, <1>4, <2>3, <2>4, <2>5, <2>6, <2>7 DEF PathMet, Says, SaysMode
<1> QED
  BY <1>3, <1>4

(* A path that holds what is declared of it has nothing to be done about it,*)
(* if all of that can be read back.                                         *)
LEMMA PathMetAgrees ==
  ASSUME Lawful, Type \in Paths, NEW h, PathMet(h.node), ~Unreadable
  PROVE  Decide(Type, declared, File!Observe(Type, declared, h)) = "none"
<1> DEFINE seen == File!Observe(Type, declared, h)
<1>1. /\ seen.exists \in BOOLEAN /\ (seen.exists <=> h.node.kind = Type) /\ seen.desired = <<>>
      /\ seen.unobservable = IF "secretRef" \in DOMAIN declared THEN {"content"} ELSE {}
      /\ seen.exists =>
              /\ DOMAIN seen.fields = PathFields(Type, declared)
              /\ seen.fields["owner"] = h.node.owner
              /\ "mode" \in PathFields(Type, declared) => seen.fields["mode"] = File!ModeText(h.node.mode)
              /\ "content" \in PathFields(Type, declared) => seen.fields["content"] = h.node.data
              /\ "target" \in PathFields(Type, declared) => seen.fields["target"] = h.node.data
  BY PathSeen
<1> HIDE DEF seen
<1>2. CASE ~Present(declared)
  BY <1>1, <1>2, Deciding DEF PathMet, seen
<1>3. CASE Present(declared)
  <2>1. seen.exists
    BY <1>1, <1>3 DEF PathMet
  <2>2. ASSUME NEW f \in Compare(Type, declared, seen) PROVE FALSE
    <3>1. /\ f \in DOMAIN declared /\ f \notin Identity(Type) /\ f \notin seen.unobservable
          /\ Comparable(f, declared[f])
          /\ f \in DOMAIN seen.fields => seen.fields[f] # declared[f]
      BY <2>2, InCompare
    <3>2. f \in {"owner", "mode", "content", "target"}
      BY <3>1, FieldsOfPaths DEF Identity, Comparable, NotComparable, Unreadable
    <3>3. f \in PathFields(Type, declared)
      BY <3>1, <3>2, FieldsOfPaths DEF PathFields
    <3>4. CASE f = "mode"
      <4>1. declared.mode = File!ModeText(File!Perm(declared.mode))
        BY <3>1, <3>4 DEF Unreadable
      <4>2. declared.mode.bits = File!Perm(declared.mode) /\ declared.mode.bits = h.node.mode
        BY <1>3, <3>1, <3>4, <4>1 DEF File!ModeText, PathMet, SaysMode
      <4> QED
        BY <1>1, <2>1, <3>1, <3>3, <3>4, <4>1, <4>2
    <3>5. CASE f # "mode"
      BY <1>1, <1>3, <2>1, <3>1, <3>2, <3>3, <3>5 DEF PathMet, Says
    <3> QED
      BY <3>4, <3>5
  <2>3. DesiredOr(declared, seen) = declared
    BY <1>1, NoDesired
  <2>4. Compare(Type, DesiredOr(declared, seen), seen) = {}
    BY <2>2, <2>3
  <2>5. Decide(Type, declared, seen) = "none"
    BY <1>1, <1>3, <2>1, <2>4 DEF Decide, Present
  <2> QED
    BY <2>5 DEF seen
<1> QED
  BY <1>2, <1>3

(* What is said of paths alone is said in Host too.                         *)
LEMMA UnreadableIs ==
  ASSUME Type \in Paths, Unreadable
  PROVE  NeverReadBack
BY DEF Unreadable, NeverReadBack

(* What may be declared of an account.                                      *)
LEMMA FieldsOfAccounts ==
  ASSUME Lawful, Type \in {"User", "Group"}
  PROVE  /\ DOMAIN declared \subseteq {"state", "uid", "gid", "primaryGroup", "groups", "shell",
                                      "system", "passwordRef"}
         /\ "uid" \in DOMAIN declared => Type = "User"
         /\ "gid" \in DOMAIN declared => Type = "Group"
         /\ Type = "Group" => {"primaryGroup", "groups", "shell"} \cap DOMAIN declared = {}
         /\ declared["state"] \in {"present", "absent"}
         /\ "primaryGroup" \in DOMAIN declared => declared.primaryGroup # Account!NoAccount.primary
<1>1. Legal(Type, declared)
  BY LawfulIsLegal
<1>2. CASE Type = "User"
  <2>1. /\ Declaration!Fields[Type] = 
             {"state", "uid", "primaryGroup", "groups", "home", "shell", "comment", "system", "passwordRef"}
        /\ Declaration!Required(Type) = {"state"}
    BY <1>2 DEF Declaration!Fields, Declaration!Required
  <2> QED
    BY <1>1, <1>2, <2>1 DEF Legal, StoodFor, LegalValue
<1>3. CASE Type = "Group"
  <2>1. Declaration!Fields[Type] = {"state", "gid", "system"} /\ Declaration!Required(Type) = {"state"}
    BY <1>3 DEF Declaration!Fields, Declaration!Required
  <2> QED
    BY <1>1, <1>3, <2>1 DEF Legal, StoodFor, LegalValue
<1> QED
  BY <1>2, <1>3

AccountFields(type) == IF type = "User" THEN {"uid", "primaryGroup", "groups", "shell"} ELSE {"gid"}

(* What Observe reports of an account.                                      *)
LEMMA AccountSeen ==
  ASSUME NEW type \in {"User", "Group"}, NEW d, NEW h
  PROVE  LET seen == Account!Observe(type, d, h) IN
         /\ seen.exists \in BOOLEAN /\ (seen.exists <=> h.account # Account!NoAccount)
         /\ seen.desired = <<>> /\ seen.unobservable = {}
         /\ seen.exists =>
              /\ seen.uncorrectable = {Account!Id(type)}
              /\ DOMAIN seen.fields = AccountFields(type)
              /\ seen.fields[Account!Id(type)] = h.account.id
              /\ type = "User" => /\ seen.fields["primaryGroup"] = h.account.primary
                                  /\ seen.fields["groups"] = h.account.groups \ {h.account.primary}
                                  /\ seen.fields["shell"] = h.account.shell
<1> DEFINE names == AccountFields(type)
           account == h.account
           fields == [f \in names |-> CASE f = "primaryGroup" -> account.primary
                                        [] f = "groups" -> account.groups \ {account.primary}
                                        [] f = "shell" -> account.shell
                                        [] OTHER -> account.id]
           seen == Account!Observe(type, d, h)
<1>1. seen = IF account = Account!NoAccount THEN Account!NotThere
             ELSE [Account!There(fields) EXCEPT !.uncorrectable = {Account!Id(type)}]
  BY DEF Account!Observe, AccountFields
<1>2. /\ Account!Id(type) \in names /\ fields[Account!Id(type)] = account.id
      /\ type = "User" => /\ fields["primaryGroup"] = account.primary
                          /\ fields["groups"] = account.groups \ {account.primary}
                          /\ fields["shell"] = account.shell
  BY DEF AccountFields, Account!Id
<1>3. DOMAIN fields = names
  OBVIOUS
<1> HIDE DEF names, fields, account
<1>4. CASE account = Account!NoAccount
  BY <1>1, <1>4 DEF Account!NotThere, account
<1>5. CASE account # Account!NoAccount
  <2>1. seen = [exists |-> TRUE, fields |-> fields, desired |-> <<>>, unobservable |-> {},
                uncorrectable |-> {Account!Id(type)}]
    BY <1>1, <1>5 DEF Account!NotThere, Account!There
  <2> HIDE DEF seen
  <2>2. /\ seen.exists = TRUE /\ seen.fields = fields /\ seen.desired = <<>> /\ seen.unobservable = {}
        /\ seen.uncorrectable = {Account!Id(type)}
    BY <2>1
  <2> QED
    BY <1>2, <1>3, <1>5, <2>2 DEF names, account, seen
<1> QED
  BY <1>4, <1>5

(* An account nothing is to be done about holds what is declared of it.     *)
LEMMA AccountAgrees ==
  ASSUME Lawful, Type \in {"User", "Group"}, NEW h,
         Decide(Type, declared, Account!Observe(Type, declared, h)) = "none"
  PROVE  AccountMet(h.account)
<1> DEFINE seen == Account!Observe(Type, declared, h)
<1>1. /\ seen.exists \in BOOLEAN /\ (seen.exists <=> h.account # Account!NoAccount)
      /\ seen.desired = <<>> /\ seen.unobservable = {}
      /\ seen.exists =>
              /\ DOMAIN seen.fields = AccountFields(Type)
              /\ seen.fields[Account!Id(Type)] = h.account.id
              /\ Type = "User" => /\ seen.fields["primaryGroup"] = h.account.primary
                                  /\ seen.fields["groups"] = h.account.groups \ {h.account.primary}
                                  /\ seen.fields["shell"] = h.account.shell
  BY AccountSeen
<1>2. Decide(Type, declared, seen) = "none"
  OBVIOUS
<1> HIDE DEF seen
<1>3. DesiredOr(declared, seen) = declared
  BY <1>1, NoDesired
<1>4. /\ Present(declared) <=> seen.exists
      /\ Present(declared) => Compare(Type, declared, seen) = {}
  BY <1>1, <1>2, <1>3 DEF Decide, Present
<1>5. CASE ~Present(declared)
  BY <1>1, <1>4, <1>5 DEF AccountMet
<1>6. CASE Present(declared)
  <2>1. \A f \in DOMAIN declared :
          f \notin Identity(Type) /\ Comparable(f, declared[f]) /\ f \in DOMAIN seen.fields =>
          seen.fields[f] = declared[f]
    BY <1>1, <1>4, <1>6, InCompare
  <2>2. Identity(Type) = {}
    BY DEF Identity, Paths
  <2>3. \A f \in {"uid", "gid", "primaryGroup", "groups", "shell"} \cap DOMAIN declared :
          seen.fields[f] = declared[f] /\ f \in AccountFields(Type)
    BY <1>1, <1>4, <1>6, <2>1, <2>2, FieldsOfAccounts DEF Comparable, NotComparable, AccountFields
  <2>4. CASE Type = "User"
    BY <1>1, <1>4, <1>6, <2>3, <2>4 DEF AccountFields, AccountMet, Says, Account!Id
  <2>5. CASE Type = "Group"
    BY <1>1, <1>4, <1>6, <2>3, <2>5, FieldsOfAccounts DEF AccountFields, AccountMet, Says, Account!Id
  <2> QED
    BY <2>4, <2>5
<1> QED
  BY <1>5, <1>6

\* NeverReadBack, of an account.
LEMMA AccountMetAgrees ==
  ASSUME Lawful, Type \in {"User", "Group"}, NEW h, Joined(h.account) \/ AccountMet(h.account),
         "groups" \in DOMAIN declared /\ Account!Observe(Type, declared, h).exists =>
           h.account.primary \notin declared.groups
  PROVE  LET seen == Account!Observe(Type, declared, h) IN
         /\ seen.exists <=> Present(declared)
         /\ seen.exists => Compare(Type, DesiredOr(declared, seen), seen) \subseteq seen.uncorrectable
         /\ AccountMet(h.account) => Decide(Type, declared, seen) = "none"
<1> DEFINE seen == Account!Observe(Type, declared, h)
<1>1. /\ seen.exists \in BOOLEAN /\ (seen.exists <=> h.account # Account!NoAccount)
      /\ seen.desired = <<>> /\ seen.unobservable = {}
      /\ seen.exists =>
              /\ seen.uncorrectable = {Account!Id(Type)}
              /\ DOMAIN seen.fields = AccountFields(Type)
              /\ seen.fields[Account!Id(Type)] = h.account.id
              /\ Type = "User" => /\ seen.fields["primaryGroup"] = h.account.primary
                                  /\ seen.fields["groups"] = h.account.groups \ {h.account.primary}
                                  /\ seen.fields["shell"] = h.account.shell
  BY AccountSeen
<1>2. "groups" \in DOMAIN declared /\ seen.exists => h.account.primary \notin declared.groups
  OBVIOUS
<1> HIDE DEF seen
<1>3. DesiredOr(declared, seen) = declared
  BY <1>1, NoDesired
<1>4. Present(declared) <=> seen.exists
  BY <1>1 DEF Joined, AccountMet, Present
<1>5. ASSUME seen.exists, NEW f \in Compare(Type, declared, seen)
      PROVE  f = Account!Id(Type) /\ ~AccountMet(h.account)
  <2>1. /\ f \in DOMAIN declared /\ f \notin seen.unobservable /\ Comparable(f, declared[f])
        /\ f \in DOMAIN seen.fields => seen.fields[f] # declared[f]
    BY <1>5, InCompare
  <2>2. f \in {"uid", "gid", "primaryGroup", "groups", "shell"}
    BY <2>1, FieldsOfAccounts DEF Comparable, NotComparable
  <2>3. CASE f \in {"uid", "gid"}
    <3>1. f = Account!Id(Type) /\ f \in AccountFields(Type)
      BY <2>1, <2>3, FieldsOfAccounts DEF Account!Id, AccountFields
    <3> QED
      BY <1>1, <1>4, <1>5, <2>1, <2>3, <3>1 DEF AccountMet, Says
  <2>4. CASE f \in {"primaryGroup", "groups", "shell"}
    <3>1. Type = "User"
      BY <2>1, <2>4, FieldsOfAccounts
    <3>2. f \in AccountFields(Type)
      BY <2>4, <3>1 DEF AccountFields
    <3>3. CASE f = "groups"
      <4>1. h.account.primary \notin declared.groups
        BY <1>2, <1>5, <2>1, <3>3
      <4>2. h.account.groups \cup {h.account.primary} = declared.groups \cup {h.account.primary}
        BY <1>4, <1>5, <2>1, <3>3 DEF Joined, AccountMet, Says
      <4>3. h.account.groups \ {h.account.primary} = declared.groups
        BY <4>1, <4>2
      <4> QED
        BY <1>1, <1>5, <2>1, <3>1, <3>2, <3>3, <4>3
    <3>4. CASE f # "groups"
      BY <1>1, <1>4, <1>5, <2>1, <2>4, <3>1, <3>2, <3>4 DEF Joined, AccountMet, Says
    <3> QED
      BY <3>3, <3>4
  <2> QED
    BY <2>2, <2>3, <2>4
<1>6. seen.exists => Compare(Type, DesiredOr(declared, seen), seen) \subseteq seen.uncorrectable
  BY <1>1, <1>3, <1>5
<1>7. AccountMet(h.account) /\ seen.exists => Compare(Type, DesiredOr(declared, seen), seen) = {}
  BY <1>3, <1>5
<1>8. AccountMet(h.account) => Decide(Type, declared, seen) = "none"
  BY <1>1, <1>4, <1>7 DEF Decide, Present
<1> QED
  BY <1>4, <1>6, <1>8 DEF seen

(* What is declared of a service, always.                                   *)
LEMMA FieldsOfServices ==
  ASSUME Lawful, Type = "Service"
  PROVE  /\ DOMAIN declared = {"state", "enabled"}
         /\ declared["state"] \in {"running", "stopped"} /\ declared["enabled"] \in {"true", "false"}
         /\ Present(declared)
<1>1. Legal(Type, declared)
  BY LawfulIsLegal
<1>2. Declaration!Fields[Type] = {"state", "enabled"} /\ Declaration!Required(Type) = {"state", "enabled"}
  BY DEF Declaration!Fields, Declaration!Required
<1> QED
  BY <1>1, <1>2 DEF Legal, StoodFor, LegalValue, Present, Declared

(* What Observe reports of a unit.                                          *)
LEMMA UnitSeen ==
  ASSUME NEW type, NEW d, NEW h
  PROVE  LET seen == Service!Observe(type, d, h) IN
         /\ seen.exists \in BOOLEAN /\ (seen.exists <=> Service!Exists(h.unit))
         /\ seen.desired = <<>> /\ seen.uncorrectable = {}
         /\ seen.exists =>
              /\ seen.unobservable = IF Service!EnablementKnown(h.unit) THEN {} ELSE {"enabled"}
              /\ "state" \in DOMAIN seen.fields
              /\ seen.fields["state"] = IF Service!Running(h.unit) THEN "running" ELSE "stopped"
              /\ Service!EnablementKnown(h.unit) =>
                   /\ "enabled" \in DOMAIN seen.fields
                   /\ seen.fields["enabled"] = IF Service!Enabled(h.unit) THEN "true" ELSE "false"
<1> DEFINE unit == h.unit
           known == Service!EnablementKnown(unit)
           names == {"state"} \cup (IF known THEN {"enabled"} ELSE {})
           fields == [f \in names |-> IF f = "state" THEN IF Service!Running(unit) THEN "running" ELSE "stopped"
                                      ELSE IF Service!Enabled(unit) THEN "true" ELSE "false"]
           hidden == IF known THEN {} ELSE {"enabled"}
           seen == Service!Observe(type, d, h)
<1>1. seen = IF ~Service!Exists(unit) THEN Service!NotThere
             ELSE [Service!There(fields) EXCEPT !.unobservable = hidden]
  BY DEF Service!Observe
<1>2. /\ "state" \in DOMAIN fields /\ fields["state"] = IF Service!Running(unit) THEN "running" ELSE "stopped"
      /\ known => /\ "enabled" \in DOMAIN fields 
                   /\ fields["enabled"] = IF Service!Enabled(unit) THEN "true" ELSE "false"
  OBVIOUS
<1> HIDE DEF fields, hidden
<1>3. CASE ~Service!Exists(unit)
  BY <1>1, <1>3 DEF Service!NotThere
<1>4. CASE Service!Exists(unit)
  <2>1. seen = [exists |-> TRUE, fields |-> fields, desired |-> <<>>, unobservable |-> hidden,
             uncorrectable |-> {}]
    BY <1>1, <1>4 DEF Service!NotThere, Service!There
  <2> HIDE DEF seen
  <2>2. /\ seen.exists = TRUE /\ seen.fields = fields /\ seen.desired = <<>> /\ seen.unobservable = hidden
        /\ seen.uncorrectable = {}
    BY <2>1
  <2> QED
    BY <1>2, <1>4, <2>2 DEF hidden, seen
<1> QED
  BY <1>3, <1>4

(* Nothing is to be done about a unit exactly when it is as declared.       *)
LEMMA UnitAgrees ==
  ASSUME Lawful, Type = "Service", NEW h
  PROVE  Decide(Type, declared, Service!Observe(Type, declared, h)) = "none" <=> UnitMet(h.unit)
<1> DEFINE seen == Service!Observe(Type, declared, h)
           running == IF Service!Running(h.unit) THEN "running" ELSE "stopped"
           enabled == IF Service!Enabled(h.unit) THEN "true" ELSE "false"
<1>1. /\ seen.exists \in BOOLEAN /\ (seen.exists <=> Service!Exists(h.unit))
      /\ seen.desired = <<>>
      /\ seen.exists =>
              /\ seen.unobservable = IF Service!EnablementKnown(h.unit) THEN {} ELSE {"enabled"}
              /\ "state" \in DOMAIN seen.fields /\ seen.fields["state"] = running
              /\ Service!EnablementKnown(h.unit) =>
                   "enabled" \in DOMAIN seen.fields /\ seen.fields["enabled"] = enabled
  BY UnitSeen
<1> HIDE DEF seen
<1>2. DesiredOr(declared, seen) = declared
  BY <1>1, NoDesired
<1>3. Decide(Type, declared, seen) = "none" <=> seen.exists /\ Compare(Type, declared, seen) = {}
  BY <1>1, <1>2, FieldsOfServices DEF Decide, Present
<1>4. \A f : f \in Compare(Type, declared, seen) <=>
               /\ f \in {"state", "enabled"} /\ f \notin seen.unobservable
               /\ f \in DOMAIN seen.fields => seen.fields[f] # declared[f]
  BY InCompare, FieldsOfServices DEF Identity, Paths, Comparable, NotComparable
<1>5. seen.exists => (Compare(Type, declared, seen) = {} <=>
        /\ running = declared["state"]
        /\ Service!EnablementKnown(h.unit) => enabled = declared["enabled"])
  <2> HIDE DEF running, enabled
  <2> QED
    BY <1>1, <1>4
<1>6. running = declared["state"] <=> (h.unit.active = "active") = (declared["state"] = "running")
  BY FieldsOfServices DEF Service!Running
<1>7. Service!EnablementKnown(h.unit) =>
        (enabled = declared["enabled"] <=> (h.unit.file = "disabled") = (declared["enabled"] = "false"))
  BY FieldsOfServices DEF Service!EnablementKnown, Service!Enabled
<1> QED
  BY <1>1, <1>3, <1>5, <1>6, <1>7 DEF seen, UnitMet

(* What may be declared of a kernel parameter.                              *)
LEMMA FieldsOfParameters ==
  ASSUME Lawful, Type = "Sysctl"
  PROVE  /\ {"value"} \subseteq DOMAIN declared /\ DOMAIN declared \subseteq {"state", "value"}
         /\ IsText(declared.value) /\ declared.value.value # Sysctl!Unset.value
         /\ "state" \in DOMAIN declared => declared["state"] \in {"present", "absent"}
<1>1. Legal(Type, declared)
  BY LawfulIsLegal
<1>2. Declaration!Fields[Type] = {"state"} \cup {"value"} /\ Declaration!Required(Type) = {"value"}
  BY DEF Declaration!Fields, Declaration!Required, Declaration!Presence
<1> QED
  BY <1>1, <1>2 DEF Legal, StoodFor, LegalValue

(* What Observe reports of a kernel parameter, and what it is compared with.*)
LEMMA ParameterSeen ==
  ASSUME NEW type, NEW d, NEW h
  PROVE  LET seen == Sysctl!Observe(type, d, h) IN
         /\ seen.exists \in BOOLEAN /\ (seen.exists <=> h.stored # Sysctl!Unset)
         /\ seen.unobservable = IF h.running = Sysctl!Unset THEN {"value"} ELSE {}
         /\ Present(d) => DesiredOr(d, seen) = [value |-> d.value, persisted |-> "true"]
         /\ DOMAIN seen.fields = {"value", "persisted"}
         /\ seen.fields["value"] = Sysctl!Normalise(h.running)
         /\ seen.exists =>
              seen.fields["persisted"] = IF Sysctl!Normalise(h.stored) = d.value THEN "true" ELSE "false"
<1> DEFINE seen == Sysctl!Observe(type, d, h)
           managed == h.stored # Sysctl!Unset
           persisted == IF managed /\ Sysctl!Normalise(h.stored) = d.value THEN "true" ELSE "false"
           fields == [value |-> Sysctl!Normalise(h.running), persisted |-> persisted]
           hidden == IF h.running = Sysctl!Unset THEN {"value"} ELSE {}
           desired == IF Present(d) THEN [value |-> d.value, persisted |-> "true"] ELSE <<>>
<1>0. Sysctl!Present(d) = Present(d)
  BY DEF Sysctl!Present, Present, Sysctl!Declared, Declared
<1>1. seen = [[[Sysctl!There(fields) EXCEPT !.exists = managed] EXCEPT !.unobservable = hidden]
             EXCEPT !.desired = desired]
  BY <1>0 DEF Sysctl!Observe
<1>2. DOMAIN fields = {"value", "persisted"} /\ fields["value"] = Sysctl!Normalise(h.running)
      /\ fields["persisted"] = persisted
  OBVIOUS
<1>3. Present(d) => desired = [value |-> d.value, persisted |-> "true"] /\ DOMAIN desired # {}
  OBVIOUS
<1> HIDE DEF fields, hidden, desired, managed
<1>4. seen = [exists |-> managed, fields |-> fields, desired |-> desired, unobservable |-> hidden, uncorrectable |-> {}]
  BY <1>1 DEF Sysctl!NotThere, Sysctl!There
<1> HIDE DEF seen, persisted
<1>5. seen.exists = managed /\ seen.fields = fields /\ seen.desired = desired /\ seen.unobservable = hidden
  BY <1>4
<1>6. Present(d) => DesiredOr(d, seen) = [value |-> d.value, persisted |-> "true"]
  BY <1>3, <1>5 DEF DesiredOr
<1>7. seen.exists \in BOOLEAN /\ (seen.exists <=> h.stored # Sysctl!Unset)
  BY <1>5 DEF managed
<1>8. seen.exists => seen.fields["persisted"] = IF Sysctl!Normalise(h.stored) = d.value THEN "true" ELSE "false"
  BY <1>2, <1>5 DEF persisted, managed
<1> QED
  BY <1>2, <1>5, <1>6, <1>7, <1>8 DEF seen, hidden

(* A parameter nothing is to be done about is set and stored as declared,   *)
(* and the other way round for a value without spaces.                      *)
LEMMA ParameterAgrees ==
  ASSUME Lawful, Type = "Sysctl", NEW h, Shaped(Type, h)
  PROVE  /\ Decide(Type, declared, Sysctl!Observe(Type, declared, h)) = "none" => ParameterMet(h)
         /\ ParameterMet(h) /\ declared.value.tidy =>
              Decide(Type, declared, Sysctl!Observe(Type, declared, h)) = "none"
<1> DEFINE seen == Sysctl!Observe(Type, declared, h)
           desired == [value |-> declared.value, persisted |-> "true"]
<1>1. /\ seen.exists \in BOOLEAN /\ (seen.exists <=> h.stored # Sysctl!Unset)
      /\ seen.unobservable = IF h.running = Sysctl!Unset THEN {"value"} ELSE {}
      /\ Present(declared) => DesiredOr(declared, seen) = desired
      /\ DOMAIN seen.fields = {"value", "persisted"}
      /\ seen.fields["value"] = Sysctl!Normalise(h.running)
      /\ seen.exists =>
           seen.fields["persisted"] = IF Sysctl!Normalise(h.stored) = declared.value THEN "true" ELSE "false"
  BY ParameterSeen
<1> HIDE DEF seen
<1>2. /\ IsText(h.running) /\ h.running.tidy /\ IsText(h.stored)
      /\ IsText(declared.value) /\ declared.value.value # Sysctl!Unset.value
  BY FieldsOfParameters DEF Shaped
<1>3. Decide(Type, declared, seen) = "none" <=>
        IF Present(declared) THEN seen.exists /\ Compare(Type, desired, seen) = {} ELSE ~seen.exists
  BY <1>1 DEF Decide, Present
<1>4. \A f : f \in Compare(Type, desired, seen) <=>
               /\ f \in {"value", "persisted"} /\ f \notin seen.unobservable
               /\ seen.fields[f] # desired[f]
  <2>1. DOMAIN desired = {"value", "persisted"}
    OBVIOUS
  <2> HIDE DEF desired
  <2> QED
    BY <1>1, <2>1, InCompare DEF Identity, Paths, Comparable, NotComparable
<1>5. seen.exists => (Compare(Type, desired, seen) = {} <=>
        /\ h.running = Sysctl!Unset \/ Sysctl!Normalise(h.running) = declared.value
        /\ Sysctl!Normalise(h.stored) = declared.value)
  BY <1>1, <1>4
<1>6. Sysctl!Normalise(h.running) = h.running
  BY <1>2 DEF IsText, Sysctl!Normalise, Sysctl!Text
<1>7. declared.value.tidy => Sysctl!Normalise(declared.value) = declared.value
  BY <1>2 DEF IsText, Sysctl!Normalise, Sysctl!Text
<1>8. Sysctl!Normalise(h.stored) = declared.value => Sysctl!Normalise(declared.value) = declared.value
  <2> SUFFICES ASSUME Sysctl!Normalise(h.stored) = declared.value
               PROVE  Sysctl!Normalise(declared.value) = declared.value
    OBVIOUS
  <2>1. declared.value = [value |-> h.stored.value, tidy |-> TRUE]
    BY DEF Sysctl!Normalise, Sysctl!Text
  <2>2. declared.value.value = h.stored.value
    BY <2>1
  <2> QED
    BY <2>1, <2>2 DEF Sysctl!Normalise, Sysctl!Text
<1>9. Sysctl!Normalise(h.stored) = Sysctl!Normalise(declared.value) => h.stored # Sysctl!Unset
  BY <1>2 DEF Sysctl!Normalise, Sysctl!Text, Sysctl!Unset
<1>10. CASE ~Present(declared)
  BY <1>1, <1>3, <1>10 DEF seen, ParameterMet
<1>11. CASE Present(declared)
  <2>1. Decide(Type, declared, seen) = "none" => ParameterMet(h)
    BY <1>3, <1>5, <1>6, <1>8, <1>11 DEF ParameterMet
  <2>2. ParameterMet(h) /\ declared.value.tidy => Decide(Type, declared, seen) = "none"
    BY <1>1, <1>3, <1>5, <1>6, <1>7, <1>9, <1>11 DEF ParameterMet
  <2> QED
    BY <2>1, <2>2 DEF seen
<1> QED
  BY <1>10, <1>11

(* What may be declared of a package.                                       *)
LEMMA FieldsOfPackages ==
  ASSUME Lawful, Type = "Package"
  PROVE  /\ {"state"} \subseteq DOMAIN declared /\ DOMAIN declared \subseteq {"state", "version"}
         /\ declared["state"] \in {"present", "absent"}
         /\ "version" \in DOMAIN declared => declared.version \in Nat
<1>1. Legal(Type, declared)
  BY LawfulIsLegal
<1>2. Declaration!Fields[Type] = {"state"} \cup {"version"} /\ Declaration!Required(Type) = {"state"}
  BY DEF Declaration!Fields, Declaration!Required, Declaration!Presence
<1> QED
  BY <1>1, <1>2 DEF Legal, StoodFor, LegalValue

(* Nothing is to be done about a package exactly when it is installed as    *)
(* declared.                                                                *)
LEMMA PackageAgrees ==
  ASSUME Lawful, Type = "Package", NEW h
  PROVE  Decide(Type, declared, Package!Observe(Type, declared, h)) = "none" <=> PackageMet(h)
<1> DEFINE seen == Package!Observe(Type, declared, h)
           fields == [version |-> h.version]
<1>1. /\ seen.exists \in BOOLEAN /\ (seen.exists <=> h.status = "installed")
      /\ seen.desired = <<>> /\ seen.unobservable = {}
      /\ seen.exists => seen.fields = fields
  <2>1. CASE h.status # "installed"
    BY <2>1 DEF Package!Observe, Package!Installed, Package!NotThere
  <2>2. CASE h.status = "installed"
    <3> HIDE DEF fields
    <3>1. seen = [exists |-> TRUE, fields |-> fields, desired |-> <<>>, unobservable |-> {}, uncorrectable |-> {}]
      BY <2>2 DEF Package!Observe, Package!Installed, Package!NotThere, Package!There, fields
    <3> HIDE DEF seen
    <3> QED
      BY <2>2, <3>1
  <2> QED
    BY <2>1, <2>2
<1> HIDE DEF seen
<1>2. DesiredOr(declared, seen) = declared
  BY <1>1, NoDesired
<1>3. Decide(Type, declared, seen) = "none" <=>
        IF Present(declared) THEN seen.exists /\ Compare(Type, declared, seen) = {} ELSE ~seen.exists
  BY <1>1, <1>2 DEF Decide, Present
<1>4. \A f : f \in Compare(Type, declared, seen) <=>
               /\ f = "version" /\ f \in DOMAIN declared
               /\ f \in DOMAIN seen.fields => seen.fields[f] # declared[f]
  BY <1>1, InCompare, FieldsOfPackages DEF Identity, Paths, Comparable, NotComparable
<1>5. seen.exists => (Compare(Type, declared, seen) = {} <=> Says("version", h.version))
  BY <1>1, <1>4 DEF Says
<1>6. Decide(Type, declared, seen) = "none" <=> PackageMet(h)
  BY <1>1, <1>3, <1>5 DEF PackageMet, Present
<1> QED
  BY <1>6 DEF seen

SourceFields == {"state", "id", "url", "signingKey", "unsigned", "enabled", "priority", "suite", "components"}

(* What may be declared of a package source.                                *)
LEMMA FieldsOfSources ==
  ASSUME Lawful, Type = "Repository"
  PROVE  /\ DOMAIN declared \subseteq SourceFields
         /\ Present(declared) => "url" \in DOMAIN declared
         /\ "state" \in DOMAIN declared => declared["state"] \in {"present", "absent"}
         /\ "url" \in DOMAIN declared => declared.url # ""
         /\ "signingKey" \in DOMAIN declared => declared.signingKey # ""
         /\ "priority" \in DOMAIN declared => declared.priority # ""
         /\ "enabled" \in DOMAIN declared => declared.enabled \in {"true", "false"}
         /\ "components" \in DOMAIN declared => Listed(declared.components)
<1>1. Legal(Type, declared) /\ \A f \in DOMAIN declared : LegalValue(Type, f, declared[f])
  BY LawfulIsLegal
<1>2. /\ Declaration!Fields[Type] = SourceFields
      /\ Declaration!RequiredWhenPresent(Type) = {"url"}
  BY DEF Declaration!Fields, Declaration!RequiredWhenPresent, Declaration!Presence, SourceFields
<1>3. DOMAIN declared \subseteq SourceFields /\ (Present(declared) => "url" \in DOMAIN declared)
  BY <1>1, <1>2 DEF Legal, StoodFor
<1>4. /\ "state" \in DOMAIN declared => LegalValue(Type, "state", declared["state"])
      /\ "url" \in DOMAIN declared => LegalValue(Type, "url", declared["url"])
      /\ "signingKey" \in DOMAIN declared => LegalValue(Type, "signingKey", declared["signingKey"])
      /\ "priority" \in DOMAIN declared => LegalValue(Type, "priority", declared["priority"])
      /\ "enabled" \in DOMAIN declared => LegalValue(Type, "enabled", declared["enabled"])
      /\ "components" \in DOMAIN declared => LegalValue(Type, "components", declared["components"])
  BY <1>1
<1> QED
  BY <1>3, <1>4 DEF LegalValue

\* Two lists of at most two, of the same components, are the same once sorted.
LEMMA SortedTheSame ==
  ASSUME NEW r, NEW s, Listed(r), Listed(s), Range(r) = Range(s), Source!SortedPair(r) = r
  PROVE  Source!SortedPair(s) = r /\ (r # <<>> => s # <<>>)
<1>r. r \in Seq(Nat) /\ Len(r) <= 2 /\ (Len(r) = 2 => r[1] # r[2])
  BY DEF Listed
<1>s. s \in Seq(Nat) /\ Len(s) <= 2 /\ (Len(s) = 2 => s[1] # s[2])
  BY DEF Listed
<1>1. Len(r) \in Nat /\ Len(s) \in Nat
  BY <1>r, <1>s
<1>c. (Len(r) = 0 \/ Len(r) = 1 \/ Len(r) = 2) /\ (Len(s) = 0 \/ Len(s) = 1 \/ Len(s) = 2)
  <2> DEFINE m == Len(r)
             n == Len(s)
  <2>1. m \in Nat /\ n \in Nat /\ m <= 2 /\ n <= 2
    BY <1>r, <1>s, <1>1
  <2> HIDE DEF m, n
  <2>2. (m = 0 \/ m = 1 \/ m = 2) /\ (n = 0 \/ n = 1 \/ n = 2)
    BY <2>1
  <2> QED
    BY <2>2 DEF m, n
<1>2. /\ \A i \in 1..Len(r) : r[i] \in Nat /\ \E j \in 1..Len(s) : r[i] = s[j]
      /\ \A j \in 1..Len(s) : s[j] \in Nat /\ \E i \in 1..Len(r) : s[j] = r[i]
  <2>1. /\ Range(r) = {r[i] : i \in 1..Len(r)}
        /\ Range(s) = {s[j] : j \in 1..Len(s)}
    BY <1>r, <1>s, <1>1 DEF Range
  <2>2. \A i \in 1..Len(r) : r[i] \in {s[j] : j \in 1..Len(s)}
    BY <2>1
  <2>3. \A j \in 1..Len(s) : s[j] \in {r[i] : i \in 1..Len(r)}
    BY <2>1
  <2>4. \A i \in 1..Len(r) : r[i] \in Nat
    BY <1>r, <1>s, <1>1
  <2>5. \A j \in 1..Len(s) : s[j] \in Nat
    BY <1>r, <1>s, <1>1
  <2> QED
    BY <2>2, <2>3, <2>4, <2>5
<1>3. CASE Len(r) = 0
  <2>1. Len(s) = 0
    BY <1>r, <1>s, <1>1, <1>2, <1>3
  <2>2. r = <<>> /\ s = <<>>
    BY <1>r, <1>s, <1>1, <1>3, <2>1
  <2> QED
    BY <2>2 DEF Source!SortedPair
<1>4. CASE Len(r) = 1
  <2>1. Len(s) = 1 /\ s[1] = r[1]
    <3>1. /\ \E j \in 1..Len(s) : r[1] = s[j]
          /\ \A j \in 1..Len(s) : s[j] = r[1]
      BY <1>2, <1>4
    <3>2. CASE Len(s) = 0
      BY <3>1, <3>2
    <3>3. CASE Len(s) = 1
      BY <3>1, <3>3
    <3>4. CASE Len(s) = 2
      BY <1>s, <3>1, <3>4
    <3> QED
      BY <1>c, <3>2, <3>3, <3>4
  <2>2. s = r /\ s # <<>>
    BY <1>r, <1>s, <1>1, <1>4, <2>1
  <2>3. Source!SortedPair(s) = s
    BY <2>1 DEF Source!SortedPair
  <2> QED
    BY <2>2, <2>3
<1>5. CASE Len(r) = 2
  <2>1. r[1] <= r[2] /\ r = <<r[1], r[2]>>
    <3>1. r = <<r[1], r[2]>>
      BY <1>r, <1>s, <1>1, <1>5
    <3>2. r[1] > r[2] => FALSE
      <4> SUFFICES ASSUME r[1] > r[2] PROVE FALSE
        OBVIOUS
      <4>1. r = <<r[2], r[1]>>
        BY <1>5 DEF Source!SortedPair
      <4>2. r[1] = r[2]
        BY <4>1
      <4> QED
        BY <1>r, <1>s, <1>1, <1>5, <4>2
    <3> QED
      BY <1>r, <1>s, <1>1, <1>2, <1>5, <3>1, <3>2
  <2>2. Len(s) = 2 /\ ((s[1] = r[1] /\ s[2] = r[2]) \/ (s[1] = r[2] /\ s[2] = r[1]))
    BY <1>r, <1>s, <1>1, <1>2, <1>5
  <2>3. s # <<>>
    BY <2>2
  <2>4. CASE s[1] = r[1] /\ s[2] = r[2]
    <3>1. s = r
      BY <1>r, <1>s, <1>1, <1>5, <2>2, <2>4
    <3> QED
      BY <2>3, <3>1
  <2>5. CASE s[1] = r[2] /\ s[2] = r[1]
    <3>1. s[1] > s[2]
      BY <1>r, <1>s, <1>1, <1>2, <1>5, <2>1, <2>2, <2>5
    <3>2. Source!SortedPair(s) = <<s[2], s[1]>>
      BY <2>2, <3>1 DEF Source!SortedPair
    <3> QED
      BY <2>1, <2>3, <2>5, <3>2
  <2> QED
    BY <2>2, <2>4, <2>5
<1> QED
  BY <1>c, <1>3, <1>4, <1>5

(* Sorting keeps the components.                                            *)
LEMMA SortingKeeps ==
  ASSUME NEW s, Listed(s)
  PROVE  Range(Source!SortedPair(s)) = Range(s)
<1>1. CASE Len(s) = 2 /\ s[1] > s[2]
  <2>1. s = <<s[1], s[2]>>
    BY <1>1 DEF Listed
  <2>2. Source!SortedPair(s) = <<s[2], s[1]>>
    BY <1>1 DEF Source!SortedPair
  <2>3. \A a, b : Range(<<a, b>>) = {a, b}
    BY DEF Range
  <2>4. Range(<<s[2], s[1]>>) = {s[2], s[1]} /\ Range(<<s[1], s[2]>>) = {s[1], s[2]}
    BY <2>3
  <2> QED
    BY <2>1, <2>2, <2>4
<1>2. CASE ~(Len(s) = 2 /\ s[1] > s[2])
  BY <1>2 DEF Source!SortedPair
<1> QED
  BY <1>1, <1>2

(* What a declaration is restated as before it is compared.                 *)
LEMMA RestatedIs ==
  ASSUME NEW d, Present(d)
  PROVE  /\ DOMAIN Source!Restated(d) = DOMAIN d \cup {"enabled"}
         /\ \A f \in DOMAIN d : Source!Restated(d)[f] = d[f]
         /\ Source!Restated(d)["enabled"] = Declared(d, "enabled", "true")
<1>1. Source!Present(d)
  BY DEF Source!Present, Present, Source!Declared, Declared
<1>2. CASE "enabled" \in DOMAIN d
  BY <1>1, <1>2 DEF Source!Restated, Declared
<1>3. CASE "enabled" \notin DOMAIN d
  <2>1. Source!Restated(d) = [f \in DOMAIN d \cup {"enabled"} |-> IF f \in DOMAIN d THEN d[f] ELSE "true"]
    BY <1>1, <1>3 DEF Source!Restated, Source!Declared
  <2> QED
    BY <1>3, <2>1 DEF Declared
<1> QED
  BY <1>2, <1>3

(* What Observe reports of a package source.                                *)
LEMMA SourceSeen ==
  ASSUME NEW type, NEW d, NEW h
  PROVE  LET seen == Source!Observe(type, d, h) IN
         /\ seen.exists \in BOOLEAN /\ (seen.exists <=> h.source # Source!NoSource)
         /\ seen.desired = Source!Restated(d) /\ seen.unobservable = {}
         /\ seen.exists =>
              /\ {"url", "enabled", "signingKey"} \subseteq DOMAIN seen.fields
              /\ seen.fields["url"] = h.source.url /\ seen.fields["enabled"] = h.source.enabled
              /\ seen.fields["signingKey"] = h.key
              /\ "priority" \in DOMAIN seen.fields <=> h.manager # "apt" /\ h.source.priority # ""
              /\ "priority" \in DOMAIN seen.fields => seen.fields["priority"] = h.source.priority
              /\ "components" \in DOMAIN seen.fields <=> h.manager = "apt" /\ h.source.components # <<>>
              /\ "components" \in DOMAIN seen.fields =>
                   seen.fields["components"] = Source!SortedPair(h.source.components)
<1> DEFINE source == h.source
           read == IF h.manager = "apt" THEN Source!ReadByApt(source) ELSE Source!ReadByDnf(source)
           fields == [f \in DOMAIN read \cup {"signingKey"} |-> IF f = "signingKey" THEN h.key ELSE read[f]]
           restated == Source!Restated(d)
           seen == Source!Observe(type, d, h)
<1>1. seen =
        [(IF source = Source!NoSource THEN Source!NotThere ELSE Source!There(fields)) EXCEPT !.desired = restated]
  BY DEF Source!Observe
<1>2. /\ {"url", "enabled"} \subseteq DOMAIN read
      /\ read["url"] = source.url /\ read["enabled"] = source.enabled
      /\ "priority" \in DOMAIN read <=> h.manager # "apt" /\ source.priority # ""
      /\ "priority" \in DOMAIN read => read["priority"] = source.priority
      /\ "components" \in DOMAIN read <=> h.manager = "apt" /\ source.components # <<>>
      /\ "components" \in DOMAIN read => read["components"] = Source!SortedPair(source.components)
  <2>0. /\ Source!NoSource["suite"] = "" /\ Source!NoSource["components"] = <<>> /\ Source!NoSource["priority"] = ""
    BY DEF Source!NoSource
  <2> HIDE DEF source
  <2>1. CASE h.manager = "apt"
    <3> DEFINE names == Source!Stated(source, {"suite", "components"})
    <3>1. read = [f \in names |-> IF f = "components" THEN Source!SortedPair(source.components) ELSE source[f]]
      BY <2>1 DEF Source!ReadByApt
    <3>2. /\ {"url", "enabled"} \subseteq names /\ "priority" \notin names
          /\ "components" \in names <=> source.components # <<>>
      BY <2>0 DEF Source!Stated
    <3> HIDE DEF names, read
    <3> QED
      BY <2>1, <3>1, <3>2
  <2>2. CASE h.manager # "apt"
    <3> DEFINE names == Source!Stated(source, {"priority"})
    <3>1. read = [f \in names |-> source[f]]
      BY <2>2 DEF Source!ReadByDnf
    <3>2. /\ {"url", "enabled"} \subseteq names /\ "components" \notin names
          /\ "priority" \in names <=> source.priority # ""
      BY <2>0 DEF Source!Stated
    <3> HIDE DEF names, read
    <3> QED
      BY <2>2, <3>1, <3>2
  <2> QED
    BY <2>1, <2>2
<1> HIDE DEF read
<1>3. /\ DOMAIN fields = DOMAIN read \cup {"signingKey"}
      /\ fields["signingKey"] = h.key
      /\ \A f \in DOMAIN read : f # "signingKey" => fields[f] = read[f]
  OBVIOUS
<1> HIDE DEF fields, restated
<1>4. CASE source = Source!NoSource
  <2>1. seen = [exists |-> FALSE, fields |-> <<>>, desired |-> restated, unobservable |-> {}, uncorrectable |-> {}]
    BY <1>1, <1>4 DEF Source!NotThere
  <2> HIDE DEF seen
  <2>2. seen.exists = FALSE /\ seen.desired = restated /\ seen.unobservable = {}
    BY <2>1
  <2> QED
    BY <1>4, <2>2 DEF seen, restated
<1>5. CASE source # Source!NoSource
  <2>1. seen = [exists |-> TRUE, fields |-> fields, desired |-> restated, unobservable |-> {}, uncorrectable |-> {}]
    BY <1>1, <1>5 DEF Source!NotThere, Source!There
  <2> HIDE DEF seen
  <2>2. seen.exists = TRUE /\ seen.fields = fields /\ seen.desired = restated /\ seen.unobservable = {}
    BY <2>1
  <2>3. /\ {"url", "enabled", "signingKey"} \subseteq DOMAIN fields
        /\ fields["url"] = source.url /\ fields["enabled"] = source.enabled
        /\ fields["signingKey"] = h.key
        /\ "priority" \in DOMAIN fields <=> h.manager # "apt" /\ source.priority # ""
        /\ "priority" \in DOMAIN fields => fields["priority"] = source.priority
        /\ "components" \in DOMAIN fields <=> h.manager = "apt" /\ source.components # <<>>
        /\ "components" \in DOMAIN fields => fields["components"] = Source!SortedPair(source.components)
    BY <1>2, <1>3
  <2> QED
    BY <1>5, <2>2, <2>3 DEF seen, restated
<1> QED
  BY <1>4, <1>5

(* A package source is compared with the restated declaration.              *)
LEMMA SourceDesired ==
  ASSUME NEW d, NEW seen, seen.desired = Source!Restated(d), Present(d)
  PROVE  DesiredOr(d, seen) = Source!Restated(d)
BY RestatedIs DEF DesiredOr

(* A source nothing is to be done about holds what is declared of it, except*)
(* for what is never compared.                                              *)
LEMMA SourceAgrees ==
  ASSUME Lawful, Type = "Repository", NEW h, Shaped(Type, h),
         Decide(Type, declared, Source!Observe(Type, declared, h)) = "none"
  PROVE  \/ SourceMet(h)
         \/ /\ Present(declared) /\ h.source # Source!NoSource
            /\ ~Says("suite", h.source.suite) \/ ("signingKey" \in DOMAIN declared /\ ~h.source.signed)
<1> DEFINE seen == Source!Observe(Type, declared, h)
           desired == Source!Restated(declared)
<1>1. /\ seen.exists \in BOOLEAN /\ (seen.exists <=> h.source # Source!NoSource)
      /\ seen.desired = desired /\ seen.unobservable = {}
      /\ seen.exists =>
           /\ seen.fields["url"] = h.source.url /\ seen.fields["enabled"] = h.source.enabled
           /\ seen.fields["signingKey"] = h.key
           /\ "priority" \in DOMAIN seen.fields => seen.fields["priority"] = h.source.priority
           /\ "components" \in DOMAIN seen.fields =>
                seen.fields["components"] = Source!SortedPair(h.source.components)
  BY SourceSeen
<1>2. Decide(Type, declared, seen) = "none"
  OBVIOUS
<1> HIDE DEF seen
<1>3. CASE ~Present(declared)
  BY <1>1, <1>2, <1>3 DEF Decide, Present, SourceMet
<1>4. CASE Present(declared)
  <2>1. DesiredOr(declared, seen) = desired
    BY <1>1, <1>4, SourceDesired
  <2>2. seen.exists /\ Compare(Type, desired, seen) = {}
    BY <1>1, <1>2, <1>4, <2>1 DEF Decide, Present
  <2>3. /\ DOMAIN desired = DOMAIN declared \cup {"enabled"}
        /\ \A f \in DOMAIN declared : desired[f] = declared[f]
        /\ desired["enabled"] = Declared(declared, "enabled", "true")
    BY <1>4, RestatedIs
  <2> HIDE DEF desired
  <2>4. \A f \in {"url", "enabled", "signingKey", "priority", "components"} \cap DOMAIN desired :
          f \in DOMAIN seen.fields /\ seen.fields[f] = desired[f]
    <3>1. ASSUME NEW f \in {"url", "enabled", "signingKey", "priority", "components"} \cap DOMAIN desired
          PROVE  f \notin Identity(Type) /\ f \notin seen.unobservable /\ Comparable(f, desired[f])
      BY <1>1 DEF Identity, Paths, Comparable, NotComparable
    <3>2. \A f : f \notin Compare(Type, desired, seen)
      BY <2>2
    <3> QED
      BY <3>1, <3>2, InCompare
  <2>5. Says("url", h.source.url)
    BY <1>1, <2>2, <2>3, <2>4 DEF Says
  <2>6. Says("priority", h.source.priority)
    BY <1>1, <2>2, <2>3, <2>4 DEF Says
  <2>7. Says("signingKey", h.key)
    BY <1>1, <2>2, <2>3, <2>4 DEF Says
  <2>8. h.source.enabled = Declared(declared, "enabled", "true")
    BY <1>1, <2>2, <2>3, <2>4
  <2>9. "components" \in DOMAIN declared => Range(declared.components) = Range(h.source.components)
    <3>1. Listed(h.source.components)
      BY DEF Shaped, IsSource
    <3>2. "components" \in DOMAIN declared => declared["components"] = Source!SortedPair(h.source.components)
      BY <1>1, <2>2, <2>3, <2>4
    <3> QED
      BY <3>1, <3>2, SortingKeeps
  <2> QED
    BY <1>1, <1>4, <2>2, <2>5, <2>6, <2>7, <2>8, <2>9 DEF SourceMet, Says
<1> QED
  BY <1>3, <1>4

(* A source that holds what is declared of it has nothing to be done about  *)
(* it.                                                                      *)
LEMMA SourceMetAgrees ==
  ASSUME Lawful, Type = "Repository", NEW h, Shaped(Type, h), SourceMet(h), ~Source!Refused(declared, h),
         "components" \in DOMAIN declared =>
           declared.components # <<>> /\ Source!SortedPair(declared.components) = declared.components
  PROVE  Decide(Type, declared, Source!Observe(Type, declared, h)) = "none"
<1> DEFINE seen == Source!Observe(Type, declared, h)
           desired == Source!Restated(declared)
<1>1. /\ seen.exists \in BOOLEAN /\ (seen.exists <=> h.source # Source!NoSource)
      /\ seen.desired = desired /\ seen.unobservable = {}
      /\ seen.exists =>
           /\ {"url", "enabled", "signingKey"} \subseteq DOMAIN seen.fields
           /\ seen.fields["url"] = h.source.url /\ seen.fields["enabled"] = h.source.enabled
           /\ seen.fields["signingKey"] = h.key
           /\ "priority" \in DOMAIN seen.fields <=> h.manager # "apt" /\ h.source.priority # ""
           /\ "priority" \in DOMAIN seen.fields => seen.fields["priority"] = h.source.priority
           /\ "components" \in DOMAIN seen.fields <=> h.manager = "apt" /\ h.source.components # <<>>
           /\ "components" \in DOMAIN seen.fields =>
                seen.fields["components"] = Source!SortedPair(h.source.components)
  BY SourceSeen
<1> HIDE DEF seen
<1>3. CASE ~Present(declared)
  <2>1. Decide(Type, declared, seen) = "none"
    BY <1>1, <1>3 DEF Decide, Present, SourceMet
  <2> QED
    BY <2>1 DEF seen
<1>4. CASE Present(declared)
  <2>1. DesiredOr(declared, seen) = desired
    BY <1>1, <1>4, SourceDesired
  <2>2. seen.exists
    BY <1>1, <1>4 DEF SourceMet
  <2>3. /\ DOMAIN desired = DOMAIN declared \cup {"enabled"}
        /\ \A f \in DOMAIN declared : desired[f] = declared[f]
        /\ desired["enabled"] = Declared(declared, "enabled", "true")
    BY <1>4, RestatedIs
  <2> HIDE DEF desired
  <2>4. ASSUME NEW f \in Compare(Type, desired, seen) PROVE FALSE
    <3>1. /\ f \in DOMAIN desired /\ f \notin Identity(Type) /\ Comparable(f, desired[f])
          /\ f \in DOMAIN seen.fields => seen.fields[f] # desired[f]
      BY <2>4, InCompare
    <3>2. f # "state"
      <4>1. "state" \in DOMAIN declared => declared["state"] \in {"present", "absent"}
        BY FieldsOfSources
      <4> QED
        BY <2>3, <3>1, <4>1 DEF Comparable
    <3>3. f \in {"url", "enabled", "signingKey", "priority", "components"}
      BY <2>3, <3>1, <3>2, FieldsOfSources DEF SourceFields, Identity, Paths, Comparable, NotComparable
    <3>4. CASE f = "enabled"
      BY <1>1, <1>4, <2>2, <2>3, <3>1, <3>4 DEF SourceMet
    <3>5. CASE f = "url"
      BY <1>1, <1>4, <2>2, <2>3, <3>1, <3>5 DEF SourceMet, Says
    <3>6. CASE f = "signingKey"
      BY <1>1, <1>4, <2>2, <2>3, <3>1, <3>6 DEF SourceMet, Says
    <3>7. CASE f = "priority"
      <4>1. f \in DOMAIN declared /\ declared["priority"] # "" /\ declared["priority"] = h.source.priority
        BY <1>4, <2>3, <3>1, <3>7, FieldsOfSources DEF SourceMet, Says
      <4>2. h.manager # "apt"
        BY <3>7, <4>1 DEF Source!Refused, Source!RefusedByApt, Source!Declared
      <4> QED
        BY <1>1, <2>2, <2>3, <3>1, <3>7, <4>1, <4>2
    <3>8. CASE f = "components"
      <4>1. /\ f \in DOMAIN declared /\ Listed(declared.components) /\ declared.components # <<>>
            /\ Source!SortedPair(declared.components) = declared.components
            /\ Range(declared.components) = Range(h.source.components)
        BY <1>4, <2>3, <3>1, <3>8, FieldsOfSources DEF SourceMet
      <4>2. h.manager = "apt"
        BY <3>8, <4>1 DEF Source!Refused, Source!RefusedByDnf, Source!Declared
      <4>3. Listed(h.source.components)
        BY DEF Shaped, IsSource
      <4>4. Source!SortedPair(h.source.components) = declared.components /\ h.source.components # <<>>
        BY <4>1, <4>3, SortedTheSame
      <4> QED
        BY <1>1, <2>2, <2>3, <3>1, <3>8, <4>1, <4>2, <4>4
    <3> QED
      BY <3>3, <3>4, <3>5, <3>6, <3>7, <3>8
  <2>5. Compare(Type, desired, seen) = {}
    BY <2>4
  <2>6. Decide(Type, declared, seen) = "none"
    BY <1>1, <1>4, <2>1, <2>2, <2>5 DEF Decide, Present
  <2> QED
    BY <2>6 DEF seen
<1> QED
  BY <1>3, <1>4

-----------------------------------------------------------------------------
(* The same for whichever provider serves the type.                         *)

(* Every resource is served by one of the six providers.                    *)
LEMMA Kinds ==
  ASSUME Lawful
  PROVE  \/ Type \in Paths \/ Type \in {"User", "Group"} \/ Type = "Service" \/ Type = "Sysctl"
         \/ Type = "Package" \/ Type = "Repository"
BY LawfulIsLegal, TypesAre DEF Paths

(* Host, for a path.                                                        *)
LEMMA OfPaths ==
  ASSUME Type \in Paths, NEW h, NEW act, NEW trig, NEW call
  PROVE  /\ Observe(h) = File!Observe(Type, declared, h)
         /\ Calls(h, act, trig) = File!Calls(Type, declared, h, act, trig)
         /\ Effect(h, call) = File!Effect(Type, declared, h, call)
         /\ Cleanup(h) = File!Cleanup(h)
         /\ Triggers = {"none"} /\ ~Refused
         /\ Met <=> PathMet(host.node)
BY DEF Observe, Calls, Effect, Cleanup, Triggers, Refused, Met, Paths

(* Host, for an account.                                                    *)
LEMMA OfAccounts ==
  ASSUME Type \in {"User", "Group"}, NEW h, NEW act, NEW trig, NEW call
  PROVE  /\ Observe(h) = Account!Observe(Type, declared, h)
         /\ Calls(h, act, trig) = Account!Calls(Type, declared, h, act, trig)
         /\ Effect(h, call) = Account!Effect(Type, declared, h, call)
         /\ Cleanup(h) = h
         /\ Triggers = {"none"} /\ ~Refused
         /\ Met <=> AccountMet(host.account)
BY DEF Observe, Calls, Effect, Cleanup, Triggers, Refused, Met, Paths

(* Host, for a service.                                                     *)
LEMMA OfServices ==
  ASSUME Type = "Service", NEW h, NEW act, NEW trig, NEW call
  PROVE  /\ Observe(h) = Service!Observe(Type, declared, h)
         /\ Calls(h, act, trig) = Service!Calls(Type, declared, h, act, trig)
         /\ Effect(h, call) = Service!Effect(Type, declared, h, call)
         /\ Cleanup(h) = h
         /\ Triggers = {"none", "restart", "reload"} /\ ~Refused
         /\ Met <=> UnitMet(host.unit)
BY DEF Observe, Calls, Effect, Cleanup, Triggers, Refused, Met, Paths

(* Host, for a kernel parameter.                                            *)
LEMMA OfParameters ==
  ASSUME Type = "Sysctl", NEW h, NEW act, NEW trig, NEW call
  PROVE  /\ Observe(h) = Sysctl!Observe(Type, declared, h)
         /\ Calls(h, act, trig) = Sysctl!Calls(Type, declared, h, act, trig)
         /\ Effect(h, call) = Sysctl!Effect(Type, declared, h, call)
         /\ Cleanup(h) = h
         /\ Triggers = {"none"} /\ ~Refused
         /\ Met <=> ParameterMet(host)
BY DEF Observe, Calls, Effect, Cleanup, Triggers, Refused, Met, Paths

(* Host, for a package.                                                     *)
LEMMA OfPackages ==
  ASSUME Type = "Package", NEW h, NEW act, NEW trig, NEW call
  PROVE  /\ Observe(h) = Package!Observe(Type, declared, h)
         /\ Calls(h, act, trig) = Package!Calls(Type, declared, h, act, trig)
         /\ Effect(h, call) = Package!Effect(Type, declared, h, call)
         /\ Cleanup(h) = h
         /\ Triggers = {"none"} /\ ~Refused
         /\ Met <=> PackageMet(host)
BY DEF Observe, Calls, Effect, Cleanup, Triggers, Refused, Met, Paths

(* Host, for a package source.                                              *)
LEMMA OfSources ==
  ASSUME Type = "Repository", NEW h, NEW act, NEW trig, NEW call
  PROVE  /\ Observe(h) = Source!Observe(Type, declared, h)
         /\ Calls(h, act, trig) = Source!Calls(Type, declared, h, act, trig)
         /\ Effect(h, call) = Source!Effect(Type, declared, h, call)
         /\ Cleanup(h) = h
         /\ Triggers = {"none"} /\ (Refused <=> Source!Refused(declared, host))
         /\ Met <=> SourceMet(host)
BY DEF Observe, Calls, Effect, Cleanup, Triggers, Refused, Met, Paths

-----------------------------------------------------------------------------

(* Whatever is observed is there or not.                                    *)
LEMMA SeenOrNot ==
  ASSUME Lawful, NEW h
  PROVE  Observe(h).exists \in BOOLEAN
<1>1. CASE Type \in Paths
  <2>1. File!Observe(Type, declared, h).exists \in BOOLEAN
    BY PathSeen
  <2>2. Observe(h) = File!Observe(Type, declared, h)
    BY <1>1, OfPaths
  <2> QED
    BY <2>1, <2>2
<1>2. CASE Type \in {"User", "Group"}
  <2>1. Account!Observe(Type, declared, h).exists \in BOOLEAN
    BY <1>2, AccountSeen
  <2>2. Observe(h) = Account!Observe(Type, declared, h)
    BY <1>2, OfAccounts
  <2> QED
    BY <2>1, <2>2
<1>3. CASE Type = "Service"
  <2>1. Service!Observe(Type, declared, h).exists \in BOOLEAN
    BY UnitSeen
  <2>2. Observe(h) = Service!Observe(Type, declared, h)
    BY <1>3, OfServices
  <2> QED
    BY <2>1, <2>2
<1>4. CASE Type = "Sysctl"
  <2>1. Sysctl!Observe(Type, declared, h).exists \in BOOLEAN
    BY ParameterSeen
  <2>2. Observe(h) = Sysctl!Observe(Type, declared, h)
    BY <1>4, OfParameters
  <2> QED
    BY <2>1, <2>2
<1>5. CASE Type = "Package"
  <2>1. Package!Observe(Type, declared, h).exists \in BOOLEAN
    BY DEF Package!Observe, Package!Installed, Package!There, Package!NotThere
  <2>2. Observe(h) = Package!Observe(Type, declared, h)
    BY <1>5, OfPackages
  <2> QED
    BY <2>1, <2>2
<1>6. CASE Type = "Repository"
  <2>1. Source!Observe(Type, declared, h).exists \in BOOLEAN
    BY SourceSeen
  <2>2. Observe(h) = Source!Observe(Type, declared, h)
    BY <1>6, OfSources
  <2> QED
    BY <2>1, <2>2
<1> QED
  BY <1>1, <1>2, <1>3, <1>4, <1>5, <1>6, Kinds

\* A target with nothing left to do holds what is declared, as far as it is compared.
LEMMA AgreedIsMet ==
  ASSUME Lawful, Shaped(Type, host), Decide(Type, declared, Observe(host)) = "none"
  PROVE  Met \/ NeverCompared
<1>1. CASE Type \in Paths
  BY <1>1, OfPaths, PathAgrees
<1>2. CASE Type \in {"User", "Group"}
  BY <1>2, OfAccounts, AccountAgrees
<1>3. CASE Type = "Service"
  BY <1>3, OfServices, UnitAgrees
<1>4. CASE Type = "Sysctl"
  BY <1>4, OfParameters, ParameterAgrees
<1>5. CASE Type = "Package"
  BY <1>5, OfPackages, PackageAgrees
<1>6. CASE Type = "Repository"
  BY <1>6, OfSources, SourceAgrees DEF NeverCompared
<1> QED
  BY <1>1, <1>2, <1>3, <1>4, <1>5, <1>6, Kinds

\* A target that holds what is declared has nothing left to do.
LEMMA MetAgrees ==
  ASSUME Lawful, Shaped(Type, host), ~Refused, Met, ~NeverReadBack
  PROVE  Decide(Type, declared, Observe(host)) = "none"
<1>1. CASE Type \in Paths
  BY <1>1, OfPaths, PathMetAgrees, UnreadableIs
<1>2. CASE Type \in {"User", "Group"}
  <2>1. "groups" \in DOMAIN declared /\ Account!Observe(Type, declared, host).exists =>
           host.account.primary \notin declared.groups
    BY DEF NeverReadBack
  <2>2. Decide(Type, declared, Account!Observe(Type, declared, host)) = "none"
    BY <1>2, <2>1, OfAccounts, AccountMetAgrees
  <2> QED
    BY <1>2, <2>2, OfAccounts
<1>3. CASE Type = "Service"
  BY <1>3, OfServices, UnitAgrees
<1>4. CASE Type = "Sysctl"
  BY <1>4, OfParameters, ParameterAgrees DEF NeverReadBack
<1>5. CASE Type = "Package"
  BY <1>5, OfPackages, PackageAgrees
<1>6. CASE Type = "Repository"
  <2>1. "components" \in DOMAIN declared =>
           declared.components # <<>> /\ Source!SortedPair(declared.components) = declared.components
    BY DEF NeverReadBack
  <2> QED
    BY <1>6, <2>1, OfSources, SourceMetAgrees
<1> QED
  BY <1>1, <1>2, <1>3, <1>4, <1>5, <1>6, Kinds

\* What Apply has brought all the way has nothing left for Verify to object to.
LEMMA BroughtIsVerified ==
  ASSUME Lawful, Shaped(Type, host), OnTheWay(host, <<>>), ~NeverReadBack
  PROVE  Verify(Type, declared, Observe(host)) # "failed"
<1>1. CASE Type \in {"User", "Group"}
  <2> DEFINE seen == Account!Observe(Type, declared, host)
  <2>1. "groups" \in DOMAIN declared /\ seen.exists => host.account.primary \notin declared.groups
    BY DEF NeverReadBack
  <2>2. Joined(host.account)
    BY <1>1 DEF OnTheWay, AccountOnTheWay
  <2>3. /\ seen.exists <=> Present(declared)
        /\ seen.exists => Compare(Type, DesiredOr(declared, seen), seen) \subseteq seen.uncorrectable
    BY <1>1, <2>1, <2>2, AccountMetAgrees
  <2>4. seen.exists \in BOOLEAN /\ Observe(host) = seen
    BY <1>1, SeenOrNot, OfAccounts
  <2> HIDE DEF seen
  <2>5. Verify(Type, declared, seen) # "failed"
    BY <2>3, <2>4 DEF Verify, Present
  <2> QED
    BY <2>4, <2>5
<1>2. CASE Type \notin {"User", "Group"}
  <2>1. Decide(Type, declared, Observe(host)) = "none"
    <3>1. Met /\ ~Refused
      <4>1. CASE Type \in Paths
        <5>1. PathMet(host.node) \/ Unreadable
          BY <4>1 DEF OnTheWay, Paths, FileOnTheWay, DirectoryOnTheWay, SymlinkOnTheWay
        <5> QED
          BY <4>1, <5>1, OfPaths, UnreadableIs
      <4>3. CASE Type = "Service"
        BY <4>3, OfServices DEF OnTheWay, UnitOnTheWay, UnitMet, Switched, Enabled, Service!Running,
             Enabling, Switching
      <4>4. CASE Type = "Sysctl"
        BY <4>4, OfParameters DEF OnTheWay, ParameterOnTheWay
      <4>5. CASE Type = "Package"
        BY <4>5, OfPackages DEF OnTheWay, PackageOnTheWay
      <4>6. CASE Type = "Repository"
        BY <4>6, OfSources DEF OnTheWay, SourceOnTheWay
      <4> QED
        BY <1>2, <4>1, <4>3, <4>4, <4>5, <4>6, Kinds
    <3> QED
      BY <3>1, MetAgrees
  <2> DEFINE seen == Observe(host)
  <2>2. seen.exists \in BOOLEAN
    BY SeenOrNot
  <2>3. Decide(Type, declared, seen) = "none"
    BY <2>1
  <2> HIDE DEF seen
  <2>4. Verify(Type, declared, seen) # "failed"
    BY <2>2, <2>3 DEF Decide, Verify, Present
  <2> QED
    BY <2>4 DEF seen
<1> QED
  BY <1>1, <1>2

-----------------------------------------------------------------------------
(* What the calls leave of a path.                                          *)

PathShape(h) == h = [node |-> h.node, staged |-> h.staged] /\ IsNode(h.node) /\ IsNode(h.staged)

(* What is left of the calls for a file after each of them.                 *)
LEMMA FileTails ==
  /\ Head(<<"unlink">>) = "unlink" /\ Tail(<<"unlink">>) = <<>>
  /\ Head(<<"refuse">>) = "refuse" /\ Tail(<<"refuse">>) = <<>>
  /\ Head(<<"rename">>) = "rename" /\ Tail(<<"rename">>) = <<>>
  /\ Head(FillIt) = "fill" /\ Tail(FillIt) = <<"rename">>
  /\ Head(OpenIt) = "chmod" /\ Tail(OpenIt) = FillIt
  /\ Head(HandOver) = "chown" /\ Tail(HandOver) = OpenIt
  /\ Head(<<"create", "chmod", "fill", "rename">>) = "create"
  /\ Tail(<<"create", "chmod", "fill", "rename">>) = OpenIt
  /\ Head(<<"create", "chown", "chmod", "fill", "rename">>) = "create"
  /\ Tail(<<"create", "chown", "chmod", "fill", "rename">>) = HandOver
BY DEF FillIt, OpenIt, HandOver

(* The sequences of calls for a file are all different.                     *)
LEMMA FileOrder ==
  /\ <<"refuse">> \notin {<<>>, <<"unlink">>, <<"rename">>, FillIt, OpenIt, HandOver,
                          <<"create", "chmod", "fill", "rename">>, <<"create", "chown", "chmod", "fill", "rename">>}
  /\ <<"unlink">> # <<>> /\ <<"rename">> # <<>> /\ <<"rename">> # <<"unlink">>
  /\ FillIt \notin {<<>>, <<"unlink">>, <<"rename">>}
  /\ OpenIt \notin {<<>>, <<"unlink">>, <<"rename">>, FillIt}
  /\ HandOver \notin {<<>>, <<"unlink">>, <<"rename">>, FillIt, OpenIt}
  /\ <<"create", "chmod", "fill", "rename">> \notin {<<>>, <<"unlink">>, <<"rename">>, FillIt, OpenIt, HandOver}
  /\ <<"create", "chown", "chmod", "fill", "rename">> \notin
       {<<>>, <<"unlink">>, <<"rename">>, FillIt, OpenIt, HandOver, <<"create", "chmod", "fill", "rename">>}
BY DEF FillIt, OpenIt, HandOver

(* What staging and placing a node leave.                                   *)
LEMMA StagedOrPlaced ==
  ASSUME NEW g, PathShape(g), NEW node, IsNode(node), NEW h
  PROVE  /\ h \in File!Stage(g, node) => h.node = g.node /\ h.staged = node /\ PathShape(h)
         /\ h \in File!Place(g, node) => h.node = node /\ h.staged = g.staged /\ PathShape(h)
<1>1. g = [node |-> g.node, staged |-> g.staged] /\ IsNode(g.node) /\ IsNode(g.staged)
  BY DEF PathShape
<1>2. ASSUME h \in File!Stage(g, node) PROVE h.node = g.node /\ h.staged = node /\ PathShape(h)
  <2>1. h = [node |-> g.node, staged |-> node]
    BY <1>1, <1>2 DEF File!Stage
  <2> QED
    BY <1>1, <2>1 DEF PathShape
<1>3. ASSUME h \in File!Place(g, node) PROVE h.node = node /\ h.staged = g.staged /\ PathShape(h)
  <2>1. h = [node |-> node, staged |-> g.staged]
    BY <1>1, <1>3 DEF File!Place
  <2> QED
    BY <1>1, <2>1 DEF PathShape
<1> QED
  BY <1>2, <1>3

(* What the fields of a node are.                                           *)
LEMMA Nodes ==
  /\ \A k, o, m, d : IsNode(File!Node(k, o, m, d)) /\ File!Node(k, o, m, d).kind = k
                     /\ File!Node(k, o, m, d).owner = o /\ File!Node(k, o, m, d).mode = m
                     /\ File!Node(k, o, m, d).data = d
  /\ IsNode(File!Nothing) /\ File!Nothing.kind = "nothing"
<1>1. \A k, o, m, d : IsNode(File!Node(k, o, m, d)) /\ File!Node(k, o, m, d).kind = k
        /\ File!Node(k, o, m, d).owner = o /\ File!Node(k, o, m, d).mode = m /\ File!Node(k, o, m, d).data = d
  BY DEF IsNode, File!Node
<1>2. IsNode(File!Nothing) /\ File!Nothing.kind = "nothing"
  BY DEF IsNode, File!Node, File!Nothing
<1> QED
  BY <1>1, <1>2

(* A node with one field changed.                                           *)
LEMMA Changed ==
  ASSUME NEW n, NEW x, IsNode(n)
  PROVE  /\ [n EXCEPT !.owner = x] = File!Node(n.kind, x, n.mode, n.data)
         /\ [n EXCEPT !.mode = x] = File!Node(n.kind, n.owner, x, n.data)
         /\ [n EXCEPT !.data = x] = File!Node(n.kind, n.owner, n.mode, x)
BY DEF IsNode, File!Node

(* What each call for a file leaves, but the last.                          *)
LEMMA FileEffect ==
  ASSUME Type = "File", NEW g, PathShape(g), NEW call, NEW h \in File!Effect(Type, declared, g, call)
  PROVE  /\ call # "refuse"
         /\ call = "create" => h.node = g.node /\ h.staged.kind = "File" /\ PathShape(h)
         /\ call = "chown" => h.node = g.node /\ PathShape(h) /\ h.staged.owner = declared.owner
                              /\ h.staged.kind = g.staged.kind
         /\ call = "chmod" => h.node = g.node /\ PathShape(h) /\ h.staged.mode = File!Mode(Type, declared)
                              /\ h.staged.kind = g.staged.kind /\ h.staged.owner = g.staged.owner
         /\ call = "fill" => h.node = g.node /\ PathShape(h)
                             /\ h.staged.data = Declared(declared, "content", g.staged.data)
                             /\ h.staged.kind = g.staged.kind /\ h.staged.owner = g.staged.owner
                             /\ h.staged.mode = g.staged.mode
<1>g. IsNode(g.staged) /\ IsNode(g.node)
  BY DEF PathShape
<1>1. call # "refuse"
  BY DEF File!Effect
<1>2. ASSUME call = "create" PROVE h.node = g.node /\ h.staged.kind = "File" /\ PathShape(h)
  <2> DEFINE node == File!Node("File", "root", File!Octal(0, 6, 0, 0), File!Kept(g))
  <2>1. h \in File!Stage(g, node)
    BY <1>2 DEF File!Effect
  <2>2. IsNode(node) /\ node.kind = "File"
    BY Nodes
  <2> HIDE DEF node
  <2> QED
    BY <2>1, <2>2, StagedOrPlaced
<1>3. ASSUME call = "chown"
      PROVE  h.node = g.node /\ PathShape(h) /\ h.staged.owner = declared.owner /\ h.staged.kind = g.staged.kind
  <2> DEFINE node == [g.staged EXCEPT !.owner = declared.owner]
  <2>1. h \in File!Stage(g, node)
    BY <1>3 DEF File!Effect
  <2>2. IsNode(node) /\ node.owner = declared.owner /\ node.kind = g.staged.kind
    <3>1. node = File!Node(g.staged.kind, declared.owner, g.staged.mode, g.staged.data)
      BY <1>g, Changed
    <3> HIDE DEF node
    <3> QED
      BY <3>1, Nodes
  <2> HIDE DEF node
  <2> QED
    BY <2>1, <2>2, StagedOrPlaced
<1>4. ASSUME call = "chmod"
      PROVE  /\ h.node = g.node /\ PathShape(h) /\ h.staged.mode = File!Mode(Type, declared)
             /\ h.staged.kind = g.staged.kind /\ h.staged.owner = g.staged.owner
  <2> DEFINE node == [g.staged EXCEPT !.mode = File!Mode(Type, declared)]
  <2>1. h \in File!Stage(g, node)
    BY <1>4 DEF File!Effect
  <2>2. /\ IsNode(node) /\ node.mode = File!Mode(Type, declared)
        /\ node.kind = g.staged.kind /\ node.owner = g.staged.owner
    <3>1. node = File!Node(g.staged.kind, g.staged.owner, File!Mode(Type, declared), g.staged.data)
      BY <1>g, Changed
    <3> HIDE DEF node
    <3> QED
      BY <3>1, Nodes
  <2> HIDE DEF node
  <2> QED
    BY <2>1, <2>2, StagedOrPlaced
<1>5. ASSUME call = "fill"
      PROVE  /\ h.node = g.node /\ PathShape(h) /\ h.staged.data = Declared(declared, "content", g.staged.data)
             /\ h.staged.kind = g.staged.kind /\ h.staged.owner = g.staged.owner /\ h.staged.mode = g.staged.mode
  <2> DEFINE data == Declared(declared, "content", g.staged.data)
             node == [g.staged EXCEPT !.data = data]
  <2>1. h \in File!Stage(g, node)
    BY <1>5 DEF File!Effect, File!Declared, Declared
  <2>2. /\ IsNode(node) /\ node.data = data /\ node.kind = g.staged.kind /\ node.owner = g.staged.owner
        /\ node.mode = g.staged.mode
    <3> HIDE DEF data
    <3>1. node = File!Node(g.staged.kind, g.staged.owner, g.staged.mode, data)
      BY <1>g, Changed
    <3> HIDE DEF node
    <3> QED
      BY <3>1, Nodes
  <2> HIDE DEF node
  <2> QED
    BY <2>1, <2>2, StagedOrPlaced
<1> QED
  BY <1>1, <1>2, <1>3, <1>4, <1>5

\* Renamed into place, or removed: one step of the file system either way.
LEMMA RenameEffect ==
  ASSUME Type \in {"File", "Symlink"}, NEW g, PathShape(g), NEW h \in File!Effect(Type, declared, g, "rename")
  PROVE  h.node = g.staged /\ h.staged = File!Nothing /\ PathShape(h)
<1>1. h = File!At(g.staged)
  BY DEF File!Effect, File!Rename
<1> QED
  BY <1>1, Nodes DEF File!At, PathShape

(* Unlinking leaves nothing of the declared kind.                           *)
LEMMA UnlinkEffect ==
  ASSUME Type \in Paths, NEW g, PathShape(g), NEW h \in File!Effect(Type, declared, g, "unlink")
  PROVE  /\ h.node.kind # Type /\ h.staged = g.staged /\ PathShape(h)
         /\ h.node = g.node \/ h.node = File!Nothing
<1>1. h \in File!Unlink(Type, g)
  BY DEF File!Effect
<1>2. CASE g.node.kind = "nothing"
  BY <1>1, <1>2 DEF File!Unlink, Paths
<1>3. CASE g.node.kind # "nothing"
  <2>1. h \in File!Place(g, File!Nothing)
    BY <1>1, <1>3 DEF File!Unlink
  <2> QED
    BY <2>1, StagedOrPlaced, Nodes DEF Paths
<1> QED
  BY <1>2, <1>3

CreateIt == <<"create", "chmod", "fill", "rename">>
CreateFor == <<"create", "chown", "chmod", "fill", "rename">>

(* A call for a file brings it one call further, and only the rename changes*)
(* what is at the path.                                                     *)
LEMMA FileStep ==
  ASSUME Lawful, Type = "File", NEW g, PathShape(g), NEW left, left # <<>>, PathPending(left),
         NEW h \in File!Effect(Type, declared, g, Head(left))
  PROVE  /\ PathPending(Tail(left)) /\ PathShape(h)
         /\ FileOnTheWay(g, left) => FileOnTheWay(h, Tail(left))
         /\ left = <<"unlink">> => h.staged = g.staged
         /\ left = <<"rename">> => h.staged = File!Nothing
         /\ left \notin {<<"unlink">>, <<"rename">>} => Tail(left) \in {<<"rename">>, FillIt, OpenIt, HandOver}
<1> USE DEF CreateIt, CreateFor
<1>1. left \in {<<"unlink">>, <<"refuse">>, <<"rename">>, FillIt, OpenIt, HandOver, CreateIt, CreateFor}
  BY DEF PathPending
<1>p. \A l \in {<<>>, <<"rename">>, FillIt, OpenIt, HandOver} : PathPending(l)
  BY DEF PathPending
<1>2. CASE left \in {<<"refuse">>}
  BY <1>2, FileTails, FileEffect
<1>3. CASE left = <<"unlink">>
  <2>1. h.node.kind # Type /\ h.staged = g.staged /\ PathShape(h)
    BY <1>3, FileTails, UnlinkEffect DEF Paths
  <2>2. FileOnTheWay(g, left) => PathMet(h.node)
    BY <1>3, <2>1, FileOrder DEF FileOnTheWay, PathMet
  <2> QED
    BY <1>p, <1>3, <2>1, <2>2, FileTails, FileOrder DEF FileOnTheWay
<1>4. CASE left = <<"rename">>
  <2>1. h.node = g.staged /\ h.staged = File!Nothing /\ PathShape(h)
    BY <1>4, FileTails, RenameEffect
  <2>2. FileOnTheWay(g, left) => PathMet(h.node) \/ Unreadable
    <3>1. ASSUME FileOnTheWay(g, left), ~Unreadable PROVE PathMet(h.node)
      <4>1. /\ Present(declared) /\ g.staged.kind = "File" /\ Says("owner", g.staged.owner)
            /\ "mode" \in DOMAIN declared => g.staged.mode = File!Perm(declared.mode)
            /\ Says("content", g.staged.data)
        BY <1>4, <3>1, FileOrder DEF FileOnTheWay
      <4>2. "mode" \in DOMAIN declared => declared.mode.bits = g.staged.mode
        <5> SUFFICES ASSUME "mode" \in DOMAIN declared PROVE declared.mode.bits = g.staged.mode
          OBVIOUS
        <5>1. declared.mode = File!ModeText(g.staged.mode)
          BY <3>1, <4>1 DEF Unreadable
        <5> QED
          BY <5>1 DEF File!ModeText
      <4>3. Says("target", h.node.data)
        BY FieldsOfPaths DEF Paths, Says
      <4> QED
        BY <2>1, <4>1, <4>2, <4>3 DEF PathMet, SaysMode
    <3> QED
      BY <3>1
  <2> QED
    BY <1>p, <1>4, <2>1, <2>2, FileTails, FileOrder DEF FileOnTheWay
<1>5. CASE left = FillIt
  <2>1. /\ h.node = g.node /\ PathShape(h) /\ h.staged.data = Declared(declared, "content", g.staged.data)
        /\ h.staged.kind = g.staged.kind /\ h.staged.owner = g.staged.owner /\ h.staged.mode = g.staged.mode
    BY <1>5, FileTails, FileEffect
  <2>2. Says("content", h.staged.data)
    BY <2>1 DEF Says, Declared
  <2>3. FileOnTheWay(g, left) => FileOnTheWay(h, <<"rename">>)
    BY <1>5, <2>1, <2>2, FileOrder DEF FileOnTheWay
  <2> QED
    BY <1>p, <1>5, <2>1, <2>3, FileTails, FileOrder
<1>6. CASE left = OpenIt
  <2>1. /\ h.node = g.node /\ PathShape(h) /\ h.staged.mode = File!Mode(Type, declared)
        /\ h.staged.kind = g.staged.kind /\ h.staged.owner = g.staged.owner
    BY <1>6, FileTails, FileEffect
  <2>2. "mode" \in DOMAIN declared => h.staged.mode = File!Perm(declared.mode)
    BY <2>1 DEF File!Mode
  <2>3. FileOnTheWay(g, left) => FileOnTheWay(h, FillIt)
    BY <1>6, <2>1, <2>2, FileOrder DEF FileOnTheWay
  <2> QED
    BY <1>p, <1>6, <2>1, <2>3, FileTails, FileOrder
<1>7. CASE left = HandOver
  <2>1. h.node = g.node /\ PathShape(h) /\ h.staged.owner = declared.owner /\ h.staged.kind = g.staged.kind
    BY <1>7, FileTails, FileEffect
  <2>2. FileOnTheWay(g, left) => FileOnTheWay(h, OpenIt)
    BY <1>7, <2>1, FileOrder DEF FileOnTheWay, Says
  <2> QED
    BY <1>p, <1>7, <2>1, <2>2, FileTails, FileOrder
<1>8. CASE left = CreateIt
  <2>1. h.node = g.node /\ PathShape(h) /\ h.staged.kind = "File"
    BY <1>8, FileTails, FileEffect
  <2>2. FileOnTheWay(g, left) => FileOnTheWay(h, OpenIt)
    BY <1>8, <2>1, FileOrder DEF FileOnTheWay, Says
  <2> QED
    BY <1>p, <1>8, <2>1, <2>2, FileTails, FileOrder
<1>9. CASE left = CreateFor
  <2>1. h.node = g.node /\ PathShape(h) /\ h.staged.kind = "File"
    BY <1>9, FileTails, FileEffect
  <2>2. FileOnTheWay(g, left) => FileOnTheWay(h, HandOver)
    BY <1>9, <2>1, FileOrder DEF FileOnTheWay
  <2> QED
    BY <1>p, <1>9, <2>1, <2>2, FileTails, FileOrder
<1> QED
  BY <1>1, <1>2, <1>3, <1>4, <1>5, <1>6, <1>7, <1>8, <1>9

(* The calls for a file start from what is there.                           *)
LEMMA FileBegin ==
  ASSUME Lawful, Type = "File", NEW g, NEW act, NEW trig
  PROVE  LET left == File!Calls(Type, declared, g, act, trig) IN
         /\ PathPending(left)
         /\ g.node = before.node /\ (act = "remove" <=> ~Present(declared)) => FileOnTheWay(g, left)
         /\ left \notin {<<>>, <<"rename">>, FillIt, OpenIt, HandOver}
<1> DEFINE left == File!Calls(Type, declared, g, act, trig)
<1>p. \A l \in {<<"unlink">>, <<"refuse">>, CreateIt, CreateFor} : PathPending(l)
  BY DEF PathPending, CreateIt, CreateFor
<1>o. /\ {<<"unlink">>, <<"refuse">>, CreateIt, CreateFor} \cap {<<>>, <<"rename">>, FillIt, OpenIt, HandOver} = {}
      /\ CreateIt # CreateFor /\ <<"unlink">> \notin {CreateIt, CreateFor}
      /\ <<"refuse">> \notin {<<"unlink">>, CreateIt, CreateFor}
  BY FileOrder DEF CreateIt, CreateFor
<1>1. CASE act = "remove"
  <2>1. left = <<"unlink">>
    BY <1>1 DEF File!Calls
  <2> HIDE DEF left
  <2>2. g.node = before.node /\ ~Present(declared) => FileOnTheWay(g, left)
    BY <1>o, <2>1 DEF FileOnTheWay, CreateIt, CreateFor
  <2> QED
    BY <1>1, <1>p, <1>o, <2>1, <2>2 DEF left
<1>2. CASE act # "remove" /\ "secretRef" \in DOMAIN declared
  <2>1. left = <<"refuse">>
    BY <1>2 DEF File!Calls, File!FileCalls
  <2> HIDE DEF left
  <2>2. g.node = before.node /\ Present(declared) => FileOnTheWay(g, left)
    BY <1>o, <2>1 DEF FileOnTheWay, CreateIt, CreateFor
  <2> QED
    BY <1>2, <1>p, <1>o, <2>1, <2>2 DEF left
<1>3. CASE act # "remove" /\ "secretRef" \notin DOMAIN declared /\ "owner" \in DOMAIN declared
  <2>1. left = CreateFor
    BY <1>3 DEF File!Calls, File!FileCalls, CreateFor
  <2> HIDE DEF left
  <2>2. g.node = before.node /\ Present(declared) => FileOnTheWay(g, left)
    BY <1>3, <1>o, <2>1 DEF FileOnTheWay, CreateIt
  <2> QED
    BY <1>3, <1>p, <1>o, <2>1, <2>2 DEF left
<1>4. CASE act # "remove" /\ "secretRef" \notin DOMAIN declared /\ "owner" \notin DOMAIN declared
  <2>1. left = CreateIt
    BY <1>4 DEF File!Calls, File!FileCalls, CreateIt
  <2> HIDE DEF left
  <2>2. g.node = before.node /\ Present(declared) => FileOnTheWay(g, left)
    BY <1>4, <1>o, <2>1 DEF FileOnTheWay, CreateFor
  <2> QED
    BY <1>4, <1>p, <1>o, <2>1, <2>2 DEF left
<1> QED
  BY <1>1, <1>2, <1>3, <1>4

-----------------------------------------------------------------------------

LinkIt == <<"symlink", "rename">>

(* The calls for a link.                                                    *)
LEMMA LinkOrder ==
  /\ Head(LinkIt) = "symlink" /\ Tail(LinkIt) = <<"rename">>
  /\ LinkIt \notin {<<>>, <<"unlink">>, <<"rename">>}
BY DEF LinkIt

(* A call for a link brings it one call further.                            *)
LEMMA SymlinkStep ==
  ASSUME Lawful, Type = "Symlink", NEW g, PathShape(g), NEW left, left # <<>>, PathPending(left),
         NEW h \in File!Effect(Type, declared, g, Head(left))
  PROVE  /\ PathPending(Tail(left)) /\ PathShape(h)
         /\ SymlinkOnTheWay(g, left) => SymlinkOnTheWay(h, Tail(left))
         /\ left = <<"unlink">> => h.staged = g.staged
         /\ left = <<"rename">> => h.staged = File!Nothing
         /\ left \notin {<<"unlink">>, <<"rename">>} => Tail(left) = <<"rename">>
<1>1. left \in {<<"unlink">>, <<"rename">>, LinkIt}
  BY DEF PathPending, LinkIt
<1>p. \A l \in {<<>>, <<"rename">>} : PathPending(l)
  BY DEF PathPending
<1>2. CASE left = <<"unlink">>
  <2>1. h.node.kind # Type /\ h.staged = g.staged /\ PathShape(h)
    BY <1>2, FileTails, UnlinkEffect DEF Paths
  <2>2. SymlinkOnTheWay(g, left) => PathMet(h.node)
    BY <1>2, <2>1, FileOrder DEF SymlinkOnTheWay, PathMet
  <2> QED
    BY <1>p, <1>2, <2>1, <2>2, FileTails, FileOrder DEF SymlinkOnTheWay
<1>3. CASE left = <<"rename">>
  <2>1. h.node = g.staged /\ h.staged = File!Nothing /\ PathShape(h)
    BY <1>3, FileTails, RenameEffect
  <2>2. SymlinkOnTheWay(g, left) => PathMet(h.node) \/ Unreadable
    <3>1. ASSUME SymlinkOnTheWay(g, left), ~Unreadable PROVE PathMet(h.node)
      <4>1. Present(declared) /\ g.staged = File!Node("Symlink", "root", File!Octal(0, 7, 7, 7), declared.target)
        BY <1>3, <3>1, FileOrder DEF SymlinkOnTheWay
      <4>2. g.staged.kind = Type /\ g.staged.owner = "root" /\ g.staged.data = declared.target
        BY <4>1, Nodes
      <4>3. "mode" \notin DOMAIN declared /\ "content" \notin DOMAIN declared
        BY FieldsOfPaths DEF Paths
      <4> QED
        BY <2>1, <3>1, <4>1, <4>2, <4>3 DEF PathMet, Says, SaysMode, Unreadable
    <3> QED
      BY <3>1
  <2> QED
    BY <1>p, <1>3, <2>1, <2>2, FileTails, FileOrder DEF SymlinkOnTheWay
<1>4. CASE left = LinkIt
  <2> DEFINE node == File!Node("Symlink", "root", File!Octal(0, 7, 7, 7), declared.target)
  <2>1. h \in File!Stage(g, node)
    BY <1>4, LinkOrder DEF File!Effect
  <2>2. IsNode(node)
    BY Nodes
  <2> HIDE DEF node
  <2>3. h.node = g.node /\ h.staged = node /\ PathShape(h)
    BY <2>1, <2>2, StagedOrPlaced
  <2>4. SymlinkOnTheWay(g, left) => SymlinkOnTheWay(h, <<"rename">>)
    BY <1>4, <2>3, FileOrder, LinkOrder DEF SymlinkOnTheWay, node
  <2> QED
    BY <1>p, <1>4, <2>3, <2>4, LinkOrder
<1> QED
  BY <1>1, <1>2, <1>3, <1>4

(* The calls for a link start from what is there.                           *)
LEMMA SymlinkBegin ==
  ASSUME Lawful, Type = "Symlink", NEW g, NEW act, NEW trig
  PROVE  LET left == File!Calls(Type, declared, g, act, trig) IN
         /\ PathPending(left)
         /\ g.node = before.node /\ (act = "remove" <=> ~Present(declared)) => SymlinkOnTheWay(g, left)
<1> DEFINE left == File!Calls(Type, declared, g, act, trig)
<1>p. \A l \in {<<"unlink">>, LinkIt} : PathPending(l)
  BY DEF PathPending, LinkIt
<1>1. CASE act = "remove"
  <2>1. left = <<"unlink">>
    BY <1>1 DEF File!Calls
  <2> HIDE DEF left
  <2>2. g.node = before.node /\ ~Present(declared) => SymlinkOnTheWay(g, left)
    BY FileOrder, <2>1 DEF SymlinkOnTheWay
  <2> QED
    BY <1>1, <1>p, <2>1, <2>2 DEF left
<1>2. CASE act # "remove"
  <2>1. left = LinkIt
    BY <1>2 DEF File!Calls, LinkIt
  <2> HIDE DEF left
  <2>2. g.node = before.node /\ Present(declared) => SymlinkOnTheWay(g, left)
    BY LinkOrder, <2>1 DEF SymlinkOnTheWay
  <2> QED
    BY <1>2, <1>p, <2>1, <2>2 DEF left
<1> QED
  BY <1>1, <1>2

OpenUp == <<"chmod">>
GiveAway == <<"chown", "chmod">>
MakeIt == <<"mkdir", "chmod">>
MakeFor == <<"mkdir", "chown", "chmod">>

(* What is left of the calls for a directory after each of them, all of them*)
(* different.                                                               *)
LEMMA DirectoryTails ==
  /\ Head(OpenUp) = "chmod" /\ Tail(OpenUp) = <<>>
  /\ Head(GiveAway) = "chown" /\ Tail(GiveAway) = OpenUp
  /\ Head(MakeIt) = "mkdir" /\ Tail(MakeIt) = OpenUp
  /\ Head(MakeFor) = "mkdir" /\ Tail(MakeFor) = GiveAway
  /\ OpenUp \notin {<<>>, <<"unlink">>}
  /\ GiveAway \notin {<<>>, <<"unlink">>, OpenUp}
  /\ MakeIt \notin {<<>>, <<"unlink">>, OpenUp, GiveAway}
  /\ MakeFor \notin {<<>>, <<"unlink">>, OpenUp, GiveAway, MakeIt}
BY DEF OpenUp, GiveAway, MakeIt, MakeFor

(* The sequences of calls for a directory, by name.                         *)
LEMMA DirectoryPending ==
  ASSUME Type = "Directory", NEW left
  PROVE  PathPending(left) <=> left \in {<<>>, <<"unlink">>, OpenUp, GiveAway, MakeIt, MakeFor}
BY DEF PathPending, OpenUp, GiveAway, MakeIt, MakeFor

(* How far a directory is, by those names.                                  *)
LEMMA DirectoryOnTheWayIs ==
  ASSUME NEW h, NEW left
  PROVE  DirectoryOnTheWay(h, left) <=>
           /\ left \in {<<"unlink">>, MakeIt, MakeFor} => h.node = before.node
           /\ left # <<>> => (left = <<"unlink">>) = ~Present(declared)
           /\ ~Present(declared) => before.node.kind = "Directory"
           /\ left = MakeIt => "owner" \notin DOMAIN declared
           /\ left \in {MakeFor, GiveAway} => "owner" \in DOMAIN declared
           /\ left \in {GiveAway, OpenUp} => h.node.kind = "Directory"
           /\ left = GiveAway /\ before.node.kind = "nothing" => h.node.mode = File!Octal(0, 7, 0, 0)
           /\ left = OpenUp \/ (left = <<>> /\ Present(declared)) => Says("owner", h.node.owner)
           /\ left = <<>> => PathMet(h.node) \/ Unreadable
BY DEF DirectoryOnTheWay, OpenUp, GiveAway, MakeIt, MakeFor

(* What each call for a directory leaves.                                   *)
LEMMA DirectoryEffect ==
  ASSUME Type = "Directory", NEW g, PathShape(g), NEW call \in {"chmod", "chown", "mkdir"},
         NEW h \in File!Effect(Type, declared, g, call)
  PROVE  /\ PathShape(h) /\ h.staged = g.staged
         /\ call = "chmod" /\ g.node.kind = "Directory" =>
              h.node.kind = "Directory" /\ h.node.owner = g.node.owner /\ h.node.mode = File!Mode(Type, declared)
         /\ call = "chown" /\ g.node.kind = "Directory" =>
              h.node.kind = "Directory" /\ h.node.owner = declared.owner
         /\ call = "mkdir" =>
              /\ h.node.kind = "Directory" /\ g.node.kind \in {"nothing", "Directory"}
              /\ g.node.kind = "nothing" => h.node.mode = File!Octal(0, 7, 0, 0)
<1>g. IsNode(g.node)
  BY DEF PathShape
<1>1. CASE call = "chmod"
  <2> DEFINE node == [g.node EXCEPT !.mode = File!Mode(Type, declared)]
  <2>1. h \in IF g.node.kind = Type THEN File!Place(g, node) ELSE {g}
    BY <1>1 DEF File!Effect
  <2>2. node = File!Node(g.node.kind, g.node.owner, File!Mode(Type, declared), g.node.data)
    BY <1>g, Changed
  <2> HIDE DEF node
  <2>3. /\ IsNode(node) /\ node.kind = g.node.kind /\ node.owner = g.node.owner
        /\ node.mode = File!Mode(Type, declared)
    BY <2>2, Nodes
  <2> QED
    BY <1>1, <2>1, <2>3, StagedOrPlaced
<1>2. CASE call = "chown"
  <2> DEFINE node == [g.node EXCEPT !.owner = declared.owner]
  <2>1. h \in IF g.node.kind = Type THEN File!Place(g, node) ELSE {g}
    BY <1>2 DEF File!Effect
  <2>2. node = File!Node(g.node.kind, declared.owner, g.node.mode, g.node.data)
    BY <1>g, Changed
  <2> HIDE DEF node
  <2>3. IsNode(node) /\ node.kind = g.node.kind /\ node.owner = declared.owner
    BY <2>2, Nodes
  <2> QED
    BY <1>2, <2>1, <2>3, StagedOrPlaced
<1>3. CASE call = "mkdir"
  <2> DEFINE node == File!Node("Directory", "root", File!Octal(0, 7, 0, 0), "empty")
  <2>1. h \in File!Mkdir(g)
    BY <1>3 DEF File!Effect
  <2>2. /\ g.node.kind \in {"nothing", "Directory"}
        /\ h \in IF g.node.kind = "nothing" THEN File!Place(g, node) ELSE {g}
    BY <2>1 DEF File!Mkdir
  <2>3. IsNode(node) /\ node.kind = "Directory" /\ node.mode = File!Octal(0, 7, 0, 0)
    BY Nodes
  <2> HIDE DEF node
  <2> QED
    BY <1>3, <2>2, <2>3, StagedOrPlaced
<1> QED
  BY <1>1, <1>2, <1>3

(* A call for a directory brings it one call further, and nothing is ever   *)
(* staged for it.                                                           *)
LEMMA DirectoryStep ==
  ASSUME Lawful, Type = "Directory", NEW g, PathShape(g), NEW left, left # <<>>, PathPending(left),
         NEW h \in File!Effect(Type, declared, g, Head(left))
  PROVE  /\ PathPending(Tail(left)) /\ PathShape(h)
         /\ DirectoryOnTheWay(g, left) => DirectoryOnTheWay(h, Tail(left))
         /\ h.staged = g.staged
<1>1. left \in {<<"unlink">>, OpenUp, GiveAway, MakeIt, MakeFor}
  BY DirectoryPending
<1>p. \A l \in {<<>>, OpenUp, GiveAway} : PathPending(l)
  BY DirectoryPending
<1>2. CASE left = <<"unlink">>
  <2>1. h.node.kind # Type /\ h.staged = g.staged /\ PathShape(h)
    BY <1>2, FileTails, UnlinkEffect DEF Paths
  <2>2. DirectoryOnTheWay(g, left) => DirectoryOnTheWay(h, <<>>)
    BY <1>2, <2>1, DirectoryTails, DirectoryOnTheWayIs, FileOrder DEF PathMet
  <2> QED
    BY <1>p, <1>2, <2>1, <2>2, FileTails
<1>3. CASE left = OpenUp
  <2>1. /\ PathShape(h) /\ h.staged = g.staged
        /\ g.node.kind = "Directory" =>
              h.node.kind = "Directory" /\ h.node.owner = g.node.owner /\ h.node.mode = File!Mode(Type, declared)
    BY <1>3, DirectoryTails, DirectoryEffect
  <2>2. ASSUME DirectoryOnTheWay(g, left) PROVE DirectoryOnTheWay(h, <<>>)
    <3>1. /\ Present(declared) /\ h.node.kind = Type /\ Says("owner", h.node.owner)
          /\ h.node.mode = File!Mode(Type, declared)
      BY <1>3, <2>1, <2>2, DirectoryTails, DirectoryOnTheWayIs
    <3>2. PathMet(h.node) \/ Unreadable
      <4> SUFFICES ASSUME ~Unreadable PROVE PathMet(h.node)
        OBVIOUS
      <4>1. "content" \notin DOMAIN declared /\ "target" \notin DOMAIN declared
        BY FieldsOfPaths DEF Paths
      <4>2. "mode" \in DOMAIN declared => declared.mode.bits = h.node.mode
        <5> SUFFICES ASSUME "mode" \in DOMAIN declared PROVE declared.mode.bits = h.node.mode
          OBVIOUS
        <5>1. declared.mode = File!ModeText(h.node.mode)
          BY <3>1 DEF Unreadable, File!Mode
        <5> QED
          BY <5>1 DEF File!ModeText
      <4> QED
        BY <3>1, <4>1, <4>2 DEF PathMet, Says, SaysMode
    <3> QED
      BY <3>1, <3>2, DirectoryTails, DirectoryOnTheWayIs
  <2> QED
    BY <1>p, <1>3, <2>1, <2>2, DirectoryTails
<1>4. CASE left = GiveAway
  <2>1. /\ PathShape(h) /\ h.staged = g.staged
        /\ g.node.kind = "Directory" => h.node.kind = "Directory" /\ h.node.owner = declared.owner
    BY <1>4, DirectoryTails, DirectoryEffect
  <2>2. DirectoryOnTheWay(g, left) => DirectoryOnTheWay(h, OpenUp)
    BY <1>4, <2>1, DirectoryTails, DirectoryOnTheWayIs DEF Says
  <2> QED
    BY <1>p, <1>4, <2>1, <2>2, DirectoryTails
<1>5. CASE left = MakeIt
  <2>1. PathShape(h) /\ h.staged = g.staged /\ h.node.kind = "Directory"
    BY <1>5, DirectoryTails, DirectoryEffect
  <2>2. DirectoryOnTheWay(g, left) => DirectoryOnTheWay(h, OpenUp)
    BY <1>5, <2>1, DirectoryTails, DirectoryOnTheWayIs DEF Says
  <2> QED
    BY <1>p, <1>5, <2>1, <2>2, DirectoryTails
<1>6. CASE left = MakeFor
  <2>1. /\ PathShape(h) /\ h.staged = g.staged /\ h.node.kind = "Directory"
        /\ g.node.kind = "nothing" => h.node.mode = File!Octal(0, 7, 0, 0)
    BY <1>6, DirectoryTails, DirectoryEffect
  <2>2. DirectoryOnTheWay(g, left) => DirectoryOnTheWay(h, GiveAway)
    BY <1>6, <2>1, DirectoryTails, DirectoryOnTheWayIs
  <2> QED
    BY <1>p, <1>6, <2>1, <2>2, DirectoryTails
<1> QED
  BY <1>1, <1>2, <1>3, <1>4, <1>5, <1>6

(* The calls for a directory start from what is there.                      *)
LEMMA DirectoryBegin ==
  ASSUME Lawful, Type = "Directory", NEW g, NEW act, NEW trig
  PROVE  LET left == File!Calls(Type, declared, g, act, trig) IN
         /\ PathPending(left)
         /\ g.node = before.node /\ (act = "remove" <=> ~Present(declared)) 
              /\ (act = "remove" => g.node.kind = "Directory") =>
              DirectoryOnTheWay(g, left)
<1> DEFINE left == File!Calls(Type, declared, g, act, trig)
<1>1. CASE act = "remove"
  <2>1. left = <<"unlink">>
    BY <1>1 DEF File!Calls
  <2> HIDE DEF left
  <2>2. g.node = before.node /\ ~Present(declared) /\ g.node.kind = "Directory" => DirectoryOnTheWay(g, left)
    BY <2>1, DirectoryTails, DirectoryOnTheWayIs
  <2> QED
    BY <1>1, <2>1, <2>2, DirectoryPending DEF left
<1>2. CASE act # "remove" /\ "owner" \in DOMAIN declared
  <2>1. left = MakeFor
    BY <1>2 DEF File!Calls, File!DirectoryCalls, MakeFor
  <2> HIDE DEF left
  <2>2. g.node = before.node /\ Present(declared) => DirectoryOnTheWay(g, left)
    BY <1>2, <2>1, DirectoryTails, DirectoryOnTheWayIs
  <2> QED
    BY <1>2, <2>1, <2>2, DirectoryPending DEF left
<1>3. CASE act # "remove" /\ "owner" \notin DOMAIN declared
  <2>1. left = MakeIt
    BY <1>3 DEF File!Calls, File!DirectoryCalls, MakeIt
  <2> HIDE DEF left
  <2>2. g.node = before.node /\ Present(declared) => DirectoryOnTheWay(g, left)
    BY <1>3, <2>1, DirectoryTails, DirectoryOnTheWayIs
  <2> QED
    BY <1>3, <2>1, <2>2, DirectoryPending DEF left
<1> QED
  BY <1>1, <1>2, <1>3

-----------------------------------------------------------------------------
(* What they leave of an account.                                           *)

(* An account takes one call.                                               *)
LEMMA AccountTails ==
  /\ Head(<<"add">>) = "add" /\ Head(<<"mod">>) = "mod" /\ Head(<<"del">>) = "del"
  /\ Tail(<<"add">>) = <<>> /\ Tail(<<"mod">>) = <<>> /\ Tail(<<"del">>) = <<>>
  /\ <<>> \notin {<<"add">>, <<"mod">>, <<"del">>} /\ <<"del">> \notin {<<"add">>, <<"mod">>}
OBVIOUS

AccountShape(h) == h = [account |-> h.account] /\ IsAccount(h.account)

(* An account with the declared options.                                    *)
LEMMA WithIs ==
  ASSUME NEW a, a = Account!Entry(a.id, a.primary, a.groups, a.shell), NEW d
  PROVE  LET w == Account!With(a, d, Account!Options(d)) IN
         /\ w = Account!Entry(w.id, w.primary, w.groups, w.shell)
         /\ w.id = a.id
         /\ w.primary = IF "primaryGroup" \in DOMAIN d THEN d.primaryGroup ELSE a.primary
         /\ w.groups = IF "groups" \in DOMAIN d THEN d.groups ELSE a.groups
         /\ w.shell = IF "shell" \in DOMAIN d THEN d.shell ELSE a.shell
<1> DEFINE p == IF "primaryGroup" \in DOMAIN d THEN d.primaryGroup ELSE a.primary
           g == IF "groups" \in DOMAIN d THEN d.groups ELSE a.groups
           s == IF "shell" \in DOMAIN d THEN d.shell ELSE a.shell
           w == Account!With(a, d, Account!Options(d))
<1>1. /\ "primaryGroup" \in Account!Options(d) <=> "primaryGroup" \in DOMAIN d
      /\ "groups" \in Account!Options(d) <=> "groups" \in DOMAIN d
      /\ "shell" \in Account!Options(d) <=> "shell" \in DOMAIN d
  BY DEF Account!Options
<1>2. w = [[[a EXCEPT !.primary = p] EXCEPT !.groups = g] EXCEPT !.shell = s]
  BY <1>1 DEF Account!With
<1> HIDE DEF p, g, s
<1>3. a = [id |-> a.id, primary |-> a.primary, groups |-> a.groups, shell |-> a.shell]
  BY DEF Account!Entry
<1>4. w = [id |-> a.id, primary |-> p, groups |-> g, shell |-> s]
  BY <1>2, <1>3
<1> HIDE DEF w
<1> QED
  BY <1>4 DEF p, g, s, w, Account!Entry

(* What each call for an account leaves.                                    *)
LEMMA AccountEffect ==
  ASSUME Lawful, Type \in {"User", "Group"}, NEW g, AccountShape(g), NEW call \in {"add", "mod", "del"},
         NEW h \in Account!Effect(Type, declared, g, call)
  PROVE  /\ AccountShape(h)
         /\ call = "del" => h.account = Account!NoAccount
         /\ call = "add" => g.account = Account!NoAccount
         /\ call # "del" => h.account # Account!NoAccount
         /\ call = "mod" =>
              /\ h.account.id = g.account.id
              /\ "groups" \notin DOMAIN declared => h.account.groups = g.account.groups
              /\ "shell" \notin DOMAIN declared => h.account.shell = g.account.shell
         /\ call # "del" =>
              /\ Says("primaryGroup", h.account.primary) /\ Says("shell", h.account.shell)
              /\ Says("groups", h.account.groups)
<1>p. "primaryGroup" \in DOMAIN declared => declared.primaryGroup # Account!NoAccount.primary
  BY FieldsOfAccounts
<1>g. g = [account |-> g.account] /\ IsAccount(g.account)
  BY DEF AccountShape
<1>s. ASSUME NEW a, h = [g EXCEPT !.account = a], IsAccount(a) PROVE AccountShape(h) /\ h.account = a
  <2>1. h = [account |-> a]
    BY <1>g, <1>s
  <2> QED
    BY <1>s, <2>1 DEF AccountShape
<1>n. IsAccount(Account!NoAccount)
  BY DEF IsAccount, Account!NoAccount, Account!Entry
<1>w. ASSUME NEW a, a = Account!Entry(a.id, a.primary, a.groups, a.shell), a.primary # Account!NoAccount.primary,
             h = [g EXCEPT !.account = Account!With(a, declared, Account!Options(declared))]
      PROVE  /\ AccountShape(h) /\ h.account # Account!NoAccount
             /\ h.account.id = a.id
             /\ "groups" \notin DOMAIN declared => h.account.groups = a.groups
             /\ "shell" \notin DOMAIN declared => h.account.shell = a.shell
             /\ Says("primaryGroup", h.account.primary) /\ Says("shell", h.account.shell)
             /\ Says("groups", h.account.groups)
  <2> DEFINE w == Account!With(a, declared, Account!Options(declared))
  <2>1. /\ w = Account!Entry(w.id, w.primary, w.groups, w.shell)
        /\ w.id = a.id
        /\ w.primary = IF "primaryGroup" \in DOMAIN declared THEN declared.primaryGroup ELSE a.primary
        /\ w.groups = IF "groups" \in DOMAIN declared THEN declared.groups ELSE a.groups
        /\ w.shell = IF "shell" \in DOMAIN declared THEN declared.shell ELSE a.shell
    BY <1>w, WithIs
  <2>2. h = [g EXCEPT !.account = w]
    BY <1>w
  <2> HIDE DEF w
  <2>3. w.primary # Account!NoAccount.primary
    BY <1>p, <1>w, <2>1
  <2>4. IsAccount(w) /\ w # Account!NoAccount
    BY <2>1, <2>3 DEF IsAccount
  <2>5. AccountShape(h) /\ h.account = w
    BY <1>s, <2>2, <2>4
  <2> QED
    BY <2>1, <2>4, <2>5 DEF Says
<1>1. CASE call = "del"
  <2>1. h = [g EXCEPT !.account = Account!NoAccount]
    BY <1>1 DEF Account!Effect
  <2> QED
    BY <1>1, <1>n, <1>s, <2>1
<1>2. CASE call = "mod"
  <2>1. /\ g.account # Account!NoAccount
        /\ h = [g EXCEPT !.account = Account!With(g.account, declared, Account!Options(declared))]
    BY <1>2 DEF Account!Effect, Account!ModArgs
  <2>2. /\ g.account = Account!Entry(g.account.id, g.account.primary, g.account.groups, g.account.shell)
        /\ g.account.primary # Account!NoAccount.primary
    BY <1>g, <2>1 DEF IsAccount
  <2> DEFINE a == g.account
  <2>3. /\ a = Account!Entry(a.id, a.primary, a.groups, a.shell) /\ a.primary # Account!NoAccount.primary
        /\ h = [g EXCEPT !.account = Account!With(a, declared, Account!Options(declared))]
    BY <2>1, <2>2
  <2> HIDE DEF a
  <2>4. /\ AccountShape(h) /\ h.account # Account!NoAccount
        /\ h.account.id = a.id
        /\ "groups" \notin DOMAIN declared => h.account.groups = a.groups
        /\ "shell" \notin DOMAIN declared => h.account.shell = a.shell
        /\ Says("primaryGroup", h.account.primary) /\ Says("shell", h.account.shell)
        /\ Says("groups", h.account.groups)
    BY <1>w, <2>3
  <2> QED
    BY <1>2, <2>4 DEF a
<1>3. CASE call = "add"
  <2> DEFINE a == Account!Entry(Account!Declared(declared, Account!Id(Type), Account!Allocated),
                                IF Type = "User" THEN "own" ELSE "", {}, "")
  <2>1. /\ g.account = Account!NoAccount
        /\ h = [g EXCEPT !.account = Account!With(a, declared, Account!Options(declared))]
    BY <1>3 DEF Account!Effect
  <2>2. a = Account!Entry(a.id, a.primary, a.groups, a.shell) /\ a.primary \in {"own", ""}
    <3> DEFINE id == Account!Declared(declared, Account!Id(Type), Account!Allocated)
               own == IF Type = "User" THEN "own" ELSE ""
    <3>1. a = Account!Entry(id, own, {}, "") /\ own \in {"own", ""}
      OBVIOUS
    <3> HIDE DEF a, id, own
    <3> QED
      BY <3>1 DEF Account!Entry
  <2>3. a.primary # Account!NoAccount.primary
    BY <2>2 DEF Account!NoAccount
  <2> HIDE DEF a
  <2>4. /\ AccountShape(h) /\ h.account # Account!NoAccount
        /\ Says("primaryGroup", h.account.primary) /\ Says("shell", h.account.shell)
        /\ Says("groups", h.account.groups)
    BY <1>w, <2>1, <2>2, <2>3
  <2> QED
    BY <1>3, <2>1, <2>4
<1> QED
  BY <1>1, <1>2, <1>3

(* The call for an account brings it all the way.                           *)
LEMMA AccountStep ==
  ASSUME Lawful, Type \in {"User", "Group"}, NEW g, AccountShape(g), NEW left \in {<<"add">>, <<"mod">>, <<"del">>},
         NEW h \in Account!Effect(Type, declared, g, Head(left))
  PROVE  /\ Tail(left) = <<>> /\ AccountShape(h)
         /\ AccountOnTheWay(g, left) => AccountOnTheWay(h, Tail(left))
<1>1. CASE left = <<"del">>
  <2>1. AccountShape(h) /\ h.account = Account!NoAccount
    BY <1>1, AccountTails, AccountEffect
  <2> QED
    BY <1>1, <2>1, AccountTails DEF AccountOnTheWay, Joined, KeepsItsId
<1>2. CASE left = <<"add">>
  <2>1. /\ AccountShape(h) /\ h.account # Account!NoAccount /\ g.account = Account!NoAccount
        /\ Says("primaryGroup", h.account.primary) /\ Says("shell", h.account.shell)
        /\ Says("groups", h.account.groups)
    BY <1>2, AccountTails, AccountEffect
  <2> QED
    BY <1>2, <2>1, AccountTails DEF AccountOnTheWay, Joined, KeepsItsId
<1>3. CASE left = <<"mod">>
  <2>1. /\ AccountShape(h) /\ h.account # Account!NoAccount
        /\ Says("primaryGroup", h.account.primary) /\ Says("shell", h.account.shell)
        /\ Says("groups", h.account.groups)
        /\ h.account.id = g.account.id
        /\ "groups" \notin DOMAIN declared => h.account.groups = g.account.groups
        /\ "shell" \notin DOMAIN declared => h.account.shell = g.account.shell
    BY <1>3, AccountTails, AccountEffect
  <2> QED
    BY <1>3, <2>1, AccountTails DEF AccountOnTheWay, Joined, KeepsItsId
<1> QED
  BY <1>1, <1>2, <1>3

(* The call for an account starts from what is there.                       *)
LEMMA AccountBegin ==
  ASSUME Lawful, Type \in {"User", "Group"}, NEW g, NEW act \in {"create", "update", "remove"}, NEW trig
  PROVE  LET left == Account!Calls(Type, declared, g, act, trig) IN
         /\ left \in {<<>>, <<"add">>, <<"mod">>, <<"del">>}
         /\ g.account = before.account /\ (act = "remove" <=> ~Present(declared))
              /\ (act = "update" => g.account # Account!NoAccount) => AccountOnTheWay(g, left)
<1> DEFINE left == Account!Calls(Type, declared, g, act, trig)
<1>1. left = IF act = "remove" THEN <<"del">> ELSE IF act = "create" THEN <<"add">>
             ELSE IF Type = "User" /\ Account!Options(declared) # {} THEN <<"mod">> ELSE <<>>
  BY DEF Account!Calls
<1> HIDE DEF left
<1>2. left \in {<<>>, <<"add">>, <<"mod">>, <<"del">>}
  BY <1>1
<1>3. ASSUME g.account = before.account, act = "remove" <=> ~Present(declared),
             act = "update" => g.account # Account!NoAccount
      PROVE  AccountOnTheWay(g, left)
  <2>1. CASE left # <<>>
    BY <1>1, <1>3, <2>1, AccountTails DEF AccountOnTheWay
  <2>2. CASE left = <<>>
    <3>1. Present(declared) /\ g.account # Account!NoAccount /\ (Type = "Group" \/ Account!Options(declared) = {})
      BY <1>1, <1>3, <2>2, AccountTails
    <3>2. {"primaryGroup", "groups", "shell"} \cap DOMAIN declared = {}
      BY <3>1, FieldsOfAccounts DEF Account!Options
    <3> QED
      BY <1>3, <2>2, <3>1, <3>2 DEF AccountOnTheWay, Joined, KeepsItsId, Says
  <2> QED
    BY <2>1, <2>2
<1> QED
  BY <1>2, <1>3 DEF left

-----------------------------------------------------------------------------
(* What they leave of a unit.                                               *)

(* Two calls, one after the other.                                          *)
LEMMA OneAfterAnother ==
  ASSUME NEW a, NEW b
  PROVE  <<a>> \o <<b>> = <<a, b>>
<1> DEFINE S == {a, b}
           l == <<a>> \o <<b>>
           r == <<a, b>>
<1>1. <<a>> \in Seq(S) /\ <<b>> \in Seq(S) /\ l \in Seq(S) /\ r \in Seq(S)
  OBVIOUS
<1>2. Len(l) = 2 /\ Len(r) = 2 /\ l[1] = a /\ l[2] = b /\ r[1] = a /\ r[2] = b
  BY <1>1
<1> HIDE DEF l, r, S
<1>3. \A i \in 1..Len(l) : l[i] = r[i]
  BY <1>1, <1>2
<1>4. l = r
  BY <1>1, <1>2, <1>3, SeqEqual
<1> QED
  BY <1>4 DEF l, r

(* What is left of one or two calls.                                        *)
LEMMA UnitTails ==
  ASSUME NEW c, NEW e
  PROVE  /\ Head(<<c>>) = c /\ Tail(<<c>>) = <<>> /\ Head(<<e, c>>) = e /\ Tail(<<e, c>>) = <<c>>
         /\ <<c>> # <<>> /\ <<e, c>> # <<>>
         /\ \A x : <<e, c>> # <<x>>
         /\ \A x : <<c>> = <<x>> <=> c = x
         /\ \A x, y : <<e, c>> = <<x, y>> <=> e = x /\ c = y
         /\ <<>> \o <<c>> = <<c>> /\ <<c>> \o <<>> = <<c>> /\ <<>> \o <<>> = <<>>
<1>1. /\ Head(<<c>>) = c /\ Tail(<<c>>) = <<>> /\ Head(<<e, c>>) = e /\ Tail(<<e, c>>) = <<c>>
      /\ <<c>> # <<>> /\ <<e, c>> # <<>>
  OBVIOUS
<1>2. \A x : <<e, c>> # <<x>>
  OBVIOUS
<1>3. \A x : <<c>> = <<x>> <=> c = x
  OBVIOUS
<1>4. \A x, y : <<e, c>> = <<x, y>> <=> e = x /\ c = y
  OBVIOUS
<1>5. <<>> \o <<c>> = <<c>> /\ <<c>> \o <<>> = <<c>> /\ <<>> \o <<>> = <<>>
  <2>1. <<c>> \in Seq({c}) /\ <<>> \in Seq({c})
    OBVIOUS
  <2> QED
    BY <2>1
<1> QED
  BY <1>1, <1>2, <1>3, <1>4, <1>5

UnitShape(h) == h = [unit |-> Service!Unit(h.unit.load, h.unit.active, h.unit.file)]

(* What each call for a unit leaves.                                        *)
LEMMA UnitEffect ==
  ASSUME NEW g, UnitShape(g), NEW d, NEW call, NEW h \in Service!Effect("Service", d, g, call)
  PROVE  /\ call # "refuse"
         /\ call \in Enabling =>
              /\ UnitShape(h) /\ h.unit.load = g.unit.load /\ h.unit.active = g.unit.active
              /\ g.unit.file # "static" => h.unit.file = IF call = "enable" THEN "enabled" ELSE "disabled"
         /\ call \in Switching =>
              /\ UnitShape(h) /\ h.unit.load = g.unit.load /\ h.unit.file = g.unit.file
              /\ Service!Running(h.unit) <=> call # "stop"
<1>g. g = [unit |-> [load |-> g.unit.load, active |-> g.unit.active, file |-> g.unit.file]]
  BY DEF UnitShape, Service!Unit
<1>u. g.unit = [load |-> g.unit.load, active |-> g.unit.active, file |-> g.unit.file]
  BY <1>g
<1>s. ASSUME NEW l, NEW a, NEW f, h = [g EXCEPT !.unit = [load |-> l, active |-> a, file |-> f]]
      PROVE  UnitShape(h) /\ h.unit.load = l /\ h.unit.active = a /\ h.unit.file = f
  <2>1. h = [unit |-> [load |-> l, active |-> a, file |-> f]]
    BY <1>g, <1>s
  <2> QED
    BY <2>1 DEF UnitShape, Service!Unit
<1>1. call # "refuse"
  BY DEF Service!Effect
<1>2. CASE call \in Enabling
  <2> DEFINE f == IF call = "enable" THEN "enabled" ELSE "disabled"
  <2>1. \/ g.unit.file = "static" /\ h = [g EXCEPT !.unit = g.unit]
        \/ g.unit.file # "static" /\ h = [g EXCEPT !.unit = [g.unit EXCEPT !.file = f]]
    BY <1>2 DEF Service!Effect, Enabling
  <2>2. [g.unit EXCEPT !.file = f] = [load |-> g.unit.load, active |-> g.unit.active, file |-> f]
    BY <1>u
  <2> HIDE DEF f
  <2>3. CASE g.unit.file = "static"
    <3>1. h = [g EXCEPT !.unit = [load |-> g.unit.load, active |-> g.unit.active, file |-> g.unit.file]]
      BY <1>u, <2>1, <2>3
    <3> QED
      BY <1>1, <1>2, <1>s, <2>3, <3>1 DEF Enabling, Switching
  <2>4. CASE g.unit.file # "static"
    <3>1. h = [g EXCEPT !.unit = [load |-> g.unit.load, active |-> g.unit.active, file |-> f]]
      BY <2>1, <2>2, <2>4
    <3>2. UnitShape(h) /\ h.unit.load = g.unit.load /\ h.unit.active = g.unit.active /\ h.unit.file = f
      BY <1>s, <3>1
    <3> QED
      BY <1>1, <1>2, <3>2 DEF f, Enabling, Switching
  <2> QED
    BY <2>3, <2>4
<1>3. CASE call \in {"start", "restart", "stop"}
  <2> DEFINE a == IF call = "stop" THEN "inactive" ELSE "active"
  <2>1. h = [g EXCEPT !.unit = [g.unit EXCEPT !.active = a]]
    BY <1>3 DEF Service!Effect
  <2>2. [g.unit EXCEPT !.active = a] = [load |-> g.unit.load, active |-> a, file |-> g.unit.file]
    BY <1>u
  <2> HIDE DEF a
  <2>3. UnitShape(h) /\ h.unit.load = g.unit.load /\ h.unit.active = a /\ h.unit.file = g.unit.file
    BY <1>s, <2>1, <2>2
  <2> QED
    BY <1>1, <1>3, <2>3 DEF a, Enabling, Switching, Service!Running
<1>4. CASE call = "reload"
  <2>1. Service!Running(g.unit) /\ h = [g EXCEPT !.unit = g.unit]
    BY <1>4 DEF Service!Effect
  <2>2. h = [g EXCEPT !.unit = [load |-> g.unit.load, active |-> g.unit.active, file |-> g.unit.file]]
    BY <1>u, <2>1
  <2>3. UnitShape(h) /\ h.unit.load = g.unit.load /\ h.unit.active = g.unit.active /\ h.unit.file = g.unit.file
    BY <1>s, <2>2
  <2> QED
    BY <1>1, <1>4, <2>1, <2>3 DEF Enabling, Switching, Service!Running
<1> QED
  BY <1>1, <1>2, <1>3, <1>4 DEF Enabling, Switching

(* A call for a unit brings it one call further.                            *)
LEMMA UnitStep ==
  ASSUME Lawful, Type = "Service", NEW g, UnitShape(g), NEW left, left # <<>>, UnitPending(left),
         NEW h \in Service!Effect(Type, declared, g, Head(left))
  PROVE  UnitPending(Tail(left)) /\ UnitShape(h) /\ (UnitOnTheWay(g, left) => UnitOnTheWay(h, Tail(left)))
<1>f. declared.state \in {"running", "stopped"} /\ declared.enabled \in {"true", "false"}
  BY FieldsOfServices
<1>c. \/ left \in {<<"refuse">>, <<"enable">>, <<"disable">>}
      \/ \E c \in Switching : Asked(c) /\ (left = <<c>> \/ \E e \in Enabling : left = <<e, c>>)
  BY DEF UnitPending
<1>d. \A e \in Enabling, c \in Switching : e # c
  BY DEF Enabling, Switching
<1>1. CASE left = <<"refuse">>
  BY <1>1, UnitTails, UnitEffect
<1>2. ASSUME NEW e \in Enabling, left = <<e>>
      PROVE  UnitPending(Tail(left)) /\ UnitShape(h) /\ (UnitOnTheWay(g, left) => UnitOnTheWay(h, Tail(left)))
  <2>1. Head(left) = e /\ Tail(left) = <<>>
    BY <1>2, UnitTails
  <2>2. /\ UnitShape(h) /\ h.unit.load = g.unit.load /\ h.unit.active = g.unit.active
        /\ g.unit.file # "static" => h.unit.file = IF e = "enable" THEN "enabled" ELSE "disabled"
    BY <1>2, <2>1, UnitEffect
  <2>3. ASSUME UnitOnTheWay(g, left) PROVE UnitOnTheWay(h, <<>>)
    <3>1. left # <<"refuse">>
      BY <1>2, UnitTails DEF Enabling
    <3>2. /\ Service!Exists(g.unit) /\ Service!EnablementKnown(g.unit)
          /\ e = IF declared.enabled = "true" THEN "enable" ELSE "disable"
      BY <1>2, <2>1, <2>3, <3>1 DEF UnitOnTheWay
    <3>3. Switched(g.unit)
      <4>1. \A c \in Switching : left # <<c>> /\ \A x \in Enabling : left # <<x, c>>
        BY <1>2, <1>d, UnitTails
      <4> QED
        BY <2>3, <3>1, <4>1 DEF UnitOnTheWay
    <3>4. Enabled(h.unit)
      BY <1>f, <2>2, <3>2 DEF Enabled, Service!EnablementKnown
    <3>5. Service!Exists(h.unit) /\ Switched(h.unit)
      BY <2>2, <3>2, <3>3 DEF Service!Exists, Switched, Service!Running
    <3> QED
      BY <3>4, <3>5 DEF UnitOnTheWay
  <2> QED
    BY <2>1, <2>2, <2>3 DEF UnitPending
<1>3. ASSUME NEW c \in Switching, left = <<c>>
      PROVE UnitPending(Tail(left)) /\ UnitShape(h) /\ (UnitOnTheWay(g, left) => UnitOnTheWay(h, Tail(left)))
  <2>1. Head(left) = c /\ Tail(left) = <<>>
    BY <1>3, UnitTails
  <2>2. /\ UnitShape(h) /\ h.unit.load = g.unit.load /\ h.unit.file = g.unit.file
        /\ Service!Running(h.unit) <=> c # "stop"
    BY <1>3, <2>1, UnitEffect
  <2>3. ASSUME UnitOnTheWay(g, left) PROVE UnitOnTheWay(h, <<>>)
    <3>1. left # <<"refuse">>
      BY <1>3, UnitTails DEF Switching
    <3>2. Service!Exists(g.unit) /\ Enabled(g.unit)
      BY <1>3, <1>d, <2>1, <2>3, <3>1 DEF UnitOnTheWay
    <3>3. c = "stop" <=> declared.state = "stopped"
      <4>1. left \notin {<<>>, <<"enable">>, <<"disable">>} /\ \A x : left = <<x>> => x = c
        BY <1>3, UnitTails DEF Switching
      <4>2. \A x, e : left # <<e, x>>
        BY <1>3, UnitTails
      <4> QED
        BY <2>3, <3>1, <4>1, <4>2 DEF UnitOnTheWay
    <3>4. Service!Exists(h.unit) /\ Enabled(h.unit)
      BY <2>2, <3>2 DEF Service!Exists, Enabled, Service!EnablementKnown
    <3>5. Switched(h.unit)
      BY <1>f, <2>2, <3>3 DEF Switched, Service!Running
    <3> QED
      BY <3>4, <3>5 DEF UnitOnTheWay
  <2> QED
    BY <2>1, <2>2, <2>3 DEF UnitPending
<1>4. ASSUME NEW c \in Switching, NEW e \in Enabling, Asked(c), left = <<e, c>>
      PROVE UnitPending(Tail(left)) /\ UnitShape(h) /\ (UnitOnTheWay(g, left) => UnitOnTheWay(h, Tail(left)))
  <2>1. Head(left) = e /\ Tail(left) = <<c>>
    BY <1>4, UnitTails
  <2>2. /\ UnitShape(h) /\ h.unit.load = g.unit.load /\ h.unit.active = g.unit.active
        /\ g.unit.file # "static" => h.unit.file = IF e = "enable" THEN "enabled" ELSE "disabled"
    BY <1>4, <2>1, UnitEffect
  <2>3. ASSUME UnitOnTheWay(g, left) PROVE UnitOnTheWay(h, <<c>>)
    <3>1. left # <<"refuse">> /\ left # <<>>
      BY <1>4, UnitTails
    <3>2. /\ Service!Exists(g.unit) /\ Service!EnablementKnown(g.unit)
          /\ e = IF declared.enabled = "true" THEN "enable" ELSE "disable"
      BY <1>4, <2>1, <2>3, <3>1 DEF UnitOnTheWay
    <3>3. c = "stop" <=> declared.state = "stopped"
      <4>1. left \notin {<<>>, <<"enable">>, <<"disable">>} /\ \A x : left # <<x>>
        BY <1>4, UnitTails
      <4>2. \A x, y : left = <<y, x>> => x = c
        BY <1>4, UnitTails
      <4> QED
        BY <2>3, <3>1, <4>1, <4>2 DEF UnitOnTheWay
    <3>4. Enabled(h.unit)
      BY <1>f, <2>2, <3>2 DEF Enabled, Service!EnablementKnown
    <3>5. Service!Exists(h.unit)
      BY <2>2, <3>2 DEF Service!Exists
    <3>6. Head(<<c>>) \notin Enabling
      BY <1>d, UnitTails
    <3> QED
      BY <3>3, <3>4, <3>5, <3>6 DEF UnitOnTheWay
  <2> QED
    BY <1>4, <2>1, <2>2, <2>3 DEF UnitPending
<1> QED
  BY <1>c, <1>1, <1>2, <1>3, <1>4 DEF Enabling

(* The calls for a unit start from what is there, and nothing runs or stops *)
(* unasked.                                                                 *)
LEMMA UnitBegin ==
  ASSUME Lawful, Type = "Service", NEW g, NEW act \in {"create", "update", "remove"}, act # "remove",
         trigger \in {"none", "restart", "reload"}, alone => g = before
  PROVE  LET left == Service!Calls(Type, declared, g, act, trigger) IN
         UnitPending(left) /\ UnitOnTheWay(g, left)
<1> DEFINE set == Service!SetEnabled(declared, g.unit)
           switch == Service!SetRunning(declared, g.unit, trigger)
           left == Service!Calls(Type, declared, g, act, trigger)
<1>f. /\ declared.state \in {"running", "stopped"} /\ declared.enabled \in {"true", "false"}
      /\ "enabled" \in DOMAIN declared
  BY FieldsOfServices
<1>1. left = IF Service!Exists(g.unit) THEN set \o switch ELSE <<"refuse">>
  BY DEF Service!Calls
<1>2. \/ set = <<>> /\ Enabled(g.unit)
      \/ \E e \in Enabling : /\ set = <<e>> /\ Service!EnablementKnown(g.unit)
                             /\ e = IF declared.enabled = "true" THEN "enable" ELSE "disable"
  BY <1>f DEF Service!SetEnabled, Enabled, Enabling, Service!EnablementKnown, Service!Enabled
<1>3. \/ switch = <<>> /\ Switched(g.unit)
      \/ \E c \in Switching : switch = <<c>> /\ Asked(c) /\ (c = "stop" <=> declared.state = "stopped")
  BY <1>f DEF Service!SetRunning, Switched, Switching, Asked, Service!Running
<1> HIDE DEF set, switch, left
<1>4. CASE ~Service!Exists(g.unit)
  BY <1>1, <1>4 DEF UnitPending, UnitOnTheWay, left
<1>5. CASE Service!Exists(g.unit)
  <2>1. CASE set = <<>> /\ Enabled(g.unit) /\ switch = <<>> /\ Switched(g.unit)
    <3>1. left = <<>>
      BY <1>1, <1>5, <2>1, UnitTails
    <3> QED
      BY <1>5, <2>1, <3>1 DEF UnitPending, UnitOnTheWay, left
  <2>2. ASSUME set = <<>>, Enabled(g.unit), NEW c \in Switching, switch = <<c>>, Asked(c),
               c = "stop" <=> declared.state = "stopped"
        PROVE  UnitPending(left) /\ UnitOnTheWay(g, left)
    <3>1. left = <<c>>
      BY <1>1, <1>5, <2>2, UnitTails
    <3>2. Head(left) \notin Enabling
      BY <3>1, UnitTails DEF Enabling, Switching
    <3> QED
      BY <1>5, <2>2, <3>1, <3>2 DEF UnitPending, UnitOnTheWay
  <2>3. ASSUME NEW e \in Enabling, set = <<e>>, Service!EnablementKnown(g.unit),
               e = IF declared.enabled = "true" THEN "enable" ELSE "disable", switch = <<>>, Switched(g.unit)
        PROVE  UnitPending(left) /\ UnitOnTheWay(g, left)
    <3>1. left = <<e>>
      BY <1>1, <1>5, <2>3, UnitTails
    <3>2. Head(left) = e /\ left # <<>> /\ left \in {<<"enable">>, <<"disable">>}
      BY <2>3, <3>1, UnitTails
    <3> QED
      BY <1>5, <2>3, <3>2 DEF UnitPending, UnitOnTheWay
  <2>4. ASSUME NEW e \in Enabling, set = <<e>>, Service!EnablementKnown(g.unit),
               e = IF declared.enabled = "true" THEN "enable" ELSE "disable",
               NEW c \in Switching, switch = <<c>>, Asked(c), c = "stop" <=> declared.state = "stopped"
        PROVE  UnitPending(left) /\ UnitOnTheWay(g, left)
    <3>1. left = <<e, c>>
      BY <1>1, <1>5, <2>4, OneAfterAnother
    <3>2. Head(left) = e /\ left # <<>>
      BY <3>1, UnitTails
    <3> QED
      BY <1>5, <2>4, <3>1, <3>2 DEF UnitPending, UnitOnTheWay
  <2> QED
    BY <1>2, <1>3, <2>1, <2>2, <2>3, <2>4 DEF left
<1> QED
  BY <1>4, <1>5

-----------------------------------------------------------------------------
(* What they leave of a kernel parameter and of a package.                  *)

ParameterShape(h) ==
  h = Sysctl!Parameter(h.running, h.stored) /\ IsText(h.running) /\ h.running.tidy /\ IsText(h.stored)

Write == <<"write", "persist">>
Unlist == <<"unlist", "unkey">>
Trust == <<"key", "source">>

(* What is left of the calls for a parameter and for a source, all of them  *)
(* different.                                                               *)
LEMMA OtherTails ==
  /\ Head(Write) = "write" /\ Tail(Write) = <<"persist">>
  /\ Head(Unlist) = "unlist" /\ Tail(Unlist) = <<"unkey">>
  /\ Head(Trust) = "key" /\ Tail(Trust) = <<"source">>
  /\ Write \notin {<<>>, <<"persist">>, <<"unpersist">>}
  /\ Unlist \notin {<<>>, <<"unkey">>, <<"source">>}
  /\ Trust \notin {<<>>, <<"unkey">>, <<"source">>, Unlist}
BY DEF Write, Unlist, Trust

(* A call for a kernel parameter brings it one call further.                *)
LEMMA ParameterStep ==
  ASSUME Lawful, Type = "Sysctl", NEW g, ParameterShape(g), NEW left \in {Write, <<"persist">>, <<"unpersist">>},
         NEW h \in Sysctl!Effect(Type, declared, g, Head(left))
  PROVE  /\ Tail(left) \in {<<>>, <<"persist">>} /\ ParameterShape(h)
         /\ ParameterOnTheWay(g, left) => ParameterOnTheWay(h, Tail(left))
<1>g. /\ g = [running |-> g.running, stored |-> g.stored]
      /\ IsText(g.running) /\ g.running.tidy /\ IsText(g.stored) /\ IsText(declared.value)
  BY FieldsOfParameters DEF ParameterShape, Sysctl!Parameter
<1>n. IsText(Sysctl!Normalise(declared.value)) /\ Sysctl!Normalise(declared.value).tidy
  BY DEF IsText, Sysctl!Normalise, Sysctl!Text
<1>u. IsText(Sysctl!Unset)
  BY DEF IsText, Sysctl!Unset, Sysctl!Text
<1>1. CASE left = Write
  <2> DEFINE value == Sysctl!Normalise(declared.value)
  <2>1. h = [g EXCEPT !.running = value]
    BY <1>1, OtherTails DEF Sysctl!Effect
  <2>2. IsText(value) /\ value.tidy
    BY <1>n
  <2> HIDE DEF value
  <2>3. h = [running |-> value, stored |-> g.stored]
    BY <1>g, <2>1
  <2>4. ParameterShape(h) /\ h.running = value
    BY <1>g, <2>2, <2>3 DEF ParameterShape, Sysctl!Parameter
  <2>5. ParameterOnTheWay(g, left) => ParameterOnTheWay(h, <<"persist">>)
    BY <1>1, <2>4, OtherTails, UnitTails DEF ParameterOnTheWay, value
  <2> QED
    BY <1>1, <2>4, <2>5, OtherTails
<1>2. CASE left = <<"persist">>
  <2>0. Head(left) = "persist" /\ Tail(left) = <<>> /\ left # <<>> /\ left # <<"unpersist">>
    BY <1>2, UnitTails
  <2>1. h = [g EXCEPT !.stored = declared.value]
    BY <2>0 DEF Sysctl!Effect
  <2>2. h = [running |-> g.running, stored |-> declared.value]
    BY <1>g, <2>1
  <2>4. ParameterShape(h) /\ h.running = g.running /\ h.stored = declared.value
    BY <1>g, <2>2 DEF ParameterShape, Sysctl!Parameter
  <2>5. ParameterOnTheWay(g, left) => ParameterOnTheWay(h, <<>>)
    BY <1>2, <2>0, <2>4 DEF ParameterOnTheWay, ParameterMet
  <2> QED
    BY <2>0, <2>4, <2>5
<1>3. CASE left = <<"unpersist">>
  <2>0. Head(left) = "unpersist" /\ Tail(left) = <<>> /\ left # <<>>
    BY <1>3, UnitTails
  <2>1. h = [g EXCEPT !.stored = Sysctl!Unset]
    BY <2>0 DEF Sysctl!Effect
  <2>2. h = [running |-> g.running, stored |-> Sysctl!Unset]
    BY <1>g, <2>1
  <2>4. ParameterShape(h) /\ h.stored = Sysctl!Unset
    BY <1>g, <1>u, <2>2 DEF ParameterShape, Sysctl!Parameter
  <2>5. ParameterOnTheWay(g, left) => ParameterOnTheWay(h, <<>>)
    BY <1>3, <2>0, <2>4 DEF ParameterOnTheWay, ParameterMet
  <2> QED
    BY <2>0, <2>4, <2>5
<1> QED
  BY <1>1, <1>2, <1>3

(* The calls for a kernel parameter.                                        *)
LEMMA ParameterBegin ==
  ASSUME Lawful, Type = "Sysctl", NEW g, NEW act, NEW trig
  PROVE  LET left == Sysctl!Calls(Type, declared, g, act, trig) IN
         /\ left \in {Write, <<"unpersist">>}
         /\ (act = "remove" <=> ~Present(declared)) => ParameterOnTheWay(g, left)
<1>1. Sysctl!Calls(Type, declared, g, act, trig) = IF act = "remove" THEN <<"unpersist">> ELSE Write
  BY DEF Sysctl!Calls, Sysctl!SetCalls, Write
<1>2. <<"unpersist">> \notin {<<>>, <<"persist">>, Write} /\ Write \notin {<<>>, <<"persist">>}
  BY OtherTails
<1> QED
  BY <1>1, <1>2 DEF ParameterOnTheWay

-----------------------------------------------------------------------------

PackageShape(h) == h = Package!Package(h.manager, h.status, h.version) /\ h.version \in Nat

PackageCalls == {<<"erase">>, <<"upgrade">>, <<"install">>, <<"downgrade">>}

(* There is a newest version on offer.                                      *)
LEMMA NewestIsOffered == Package!Newest \in Nat
BY VersionsAssumption DEF Package!Newest

(* The call for a package brings it all the way.                            *)
LEMMA PackageStep ==
  ASSUME Lawful, Type = "Package", NEW g, PackageShape(g), NEW left \in PackageCalls,
         NEW h \in Package!Effect(Type, declared, g, Head(left))
  PROVE  /\ Tail(left) = <<>> /\ PackageShape(h)
         /\ PackageOnTheWay(g, left) => PackageOnTheWay(h, Tail(left))
<1>0. PICK c \in {"erase", "upgrade", "install", "downgrade"} : left = <<c>>
  BY DEF PackageCalls
<1>1. Head(left) = c /\ Tail(left) = <<>> /\ left # <<>> /\ (\A x : left = <<x>> <=> c = x)
  BY <1>0, UnitTails
<1>n. \A v \in Versions : v \in Nat
  BY VersionsAssumption
<1>f. "version" \in DOMAIN declared => declared.version \in Nat
  BY FieldsOfPackages
<1>p. \A m, s, v : LET p == Package!Package(m, s, v) IN p.manager = m /\ p.status = s /\ p.version = v
  BY DEF Package!Package
<1>q. PackageOnTheWay(g, left) =>
        /\ c = "erase" <=> ~Present(declared)
        /\ c = "upgrade" => "version" \notin DOMAIN declared
        /\ c = "install" => g.manager # "dnf" \/ ~Package!Backwards(declared, g)
  BY <1>1 DEF PackageOnTheWay, Present
<1>e. PackageMet(h) => PackageOnTheWay(h, <<>>)
  BY UnitTails DEF PackageOnTheWay
<1>2. CASE c = "erase"
  <2>1. h = IF g.status = "installed" THEN Package!Package(g.manager, "config-files", 0) ELSE g
    BY <1>1, <1>2 DEF Package!Effect, Package!Installed
  <2>2. PackageShape(h) /\ h.status # "installed"
    BY <1>p, <2>1 DEF PackageShape
  <2>3. ~Present(declared) => PackageMet(h)
    BY <2>2 DEF PackageMet, Present
  <2> QED
    BY <1>1, <1>2, <1>q, <1>e, <2>2, <2>3
<1>3. CASE c = "upgrade"
  <2>1. h = Package!Package(g.manager, "installed", Package!Newest)
    BY <1>1, <1>3 DEF Package!Effect, Package!At
  <2>2. PackageShape(h) /\ h.status = "installed"
    BY <1>p, <2>1, NewestIsOffered DEF PackageShape
  <2>3. Present(declared) /\ "version" \notin DOMAIN declared => PackageMet(h)
    BY <2>2 DEF PackageMet, Says, Present
  <2> QED
    BY <1>1, <1>3, <1>q, <1>e, <2>2, <2>3
<1>4. CASE c = "install"
  <2>1. /\ declared.version \in Versions
        /\ h = IF g.manager = "dnf" /\ Package!Backwards(declared, g) THEN g
               ELSE Package!Package(g.manager, "installed", declared.version)
    BY <1>1, <1>4 DEF Package!Effect, Package!At
  <2>2. PackageShape(h)
    BY <1>n, <1>p, <2>1 DEF PackageShape
  <2>3. g.manager # "dnf" \/ ~Package!Backwards(declared, g) =>
          h.status = "installed" /\ h.version = declared.version
    BY <1>p, <2>1
  <2>4. Present(declared) /\ (g.manager # "dnf" \/ ~Package!Backwards(declared, g)) => PackageMet(h)
    BY <2>3 DEF PackageMet, Says, Present
  <2> QED
    BY <1>1, <1>4, <1>q, <1>e, <2>2, <2>4
<1>5. CASE c = "downgrade"
  <2>1. /\ declared.version \in Versions
        /\ h = Package!Package(g.manager, "installed", declared.version)
    BY <1>1, <1>5 DEF Package!Effect, Package!At
  <2>2. PackageShape(h) /\ h.status = "installed" /\ h.version = declared.version
    BY <1>n, <1>p, <2>1 DEF PackageShape
  <2>3. Present(declared) => PackageMet(h)
    BY <2>2 DEF PackageMet, Says, Present
  <2> QED
    BY <1>1, <1>5, <1>q, <1>e, <2>2, <2>3
<1> QED
  BY <1>2, <1>3, <1>4, <1>5

(* The call for a package starts from what is installed.                    *)
LEMMA PackageBegin ==
  ASSUME Lawful, Type = "Package", NEW g, PackageShape(g), NEW act, NEW trig
  PROVE  LET left == Package!Calls(Type, declared, g, act, trig) IN
         /\ left \in PackageCalls \cup {<<>>}
         /\ (act = "remove" <=> ~Present(declared)) => PackageOnTheWay(g, left)
<1> DEFINE left == Package!Calls(Type, declared, g, act, trig)
           verb == Package!Verb(declared.version, g)
<1>1. left = IF act = "remove" THEN <<"erase">> ELSE IF "version" \notin DOMAIN declared THEN <<"upgrade">>
             ELSE IF verb = "leave" THEN <<>> ELSE <<verb>>
  BY DEF Package!Calls
<1>f. ("version" \in DOMAIN declared => declared.version \in Nat) /\ g.version \in Nat
  BY FieldsOfPackages DEF PackageShape
<1>2. /\ verb \in {"install", "leave", "downgrade"}
      /\ verb = "leave" => g.status = "installed" /\ declared.version = g.version
      /\ "version" \in DOMAIN declared /\ verb = "install" => g.manager # "dnf" \/ ~Package!Backwards(declared, g)
  BY <1>f DEF Package!Verb, Package!Installed, Package!Backwards
<1> HIDE DEF left, verb
<1>3. left \in PackageCalls \cup {<<>>}
  BY <1>1, <1>2 DEF PackageCalls
<1>t. <<>> \notin PackageCalls /\ (\A x, y : <<x>> = <<y>> <=> x = y)
  BY UnitTails DEF PackageCalls
<1>4. ASSUME act = "remove" <=> ~Present(declared) PROVE PackageOnTheWay(g, left)
  <2>1. CASE act = "remove"
    <3>1. left = <<"erase">>
      BY <1>1, <2>1
    <3> QED
      BY <1>4, <1>t, <2>1, <3>1, UnitTails DEF PackageOnTheWay
  <2>2. CASE act # "remove" /\ "version" \notin DOMAIN declared
    <3>1. left = <<"upgrade">>
      BY <1>1, <2>2
    <3> QED
      BY <1>4, <1>t, <2>2, <3>1, UnitTails DEF PackageOnTheWay
  <2>3. CASE act # "remove" /\ "version" \in DOMAIN declared /\ verb = "leave"
    <3>1. left = <<>>
      BY <1>1, <2>3
    <3> QED
      BY <1>2, <1>4, <2>3, <3>1, UnitTails DEF PackageOnTheWay, PackageMet, Says, Present
  <2>4. CASE act # "remove" /\ "version" \in DOMAIN declared /\ verb # "leave"
    <3>1. left = <<verb>>
      BY <1>1, <2>4
    <3>2. left # <<>> /\ (\A x : left = <<x>> <=> x = verb)
      BY <1>t, <3>1, UnitTails
    <3> QED
      BY <1>2, <1>4, <2>4, <3>2 DEF PackageOnTheWay
  <2> QED
    BY <2>1, <2>2, <2>3, <2>4
<1> QED
  BY <1>3, <1>4 DEF left

-----------------------------------------------------------------------------
(* What they leave of a package source.                                     *)

SourceShape(h) == h = Source!Repository(h.manager, h.source, h.key) /\ IsSource(h.source)

(* What is written of a source is a source.                                 *)
LEMMA Sections ==
  ASSUME Lawful, Type = "Repository"
  PROVE  /\ IsSource(Source!Stanza(declared)) /\ IsSource(Source!Section(declared)) /\ IsSource(Source!NoSource)
<1>1. "components" \in DOMAIN declared => Listed(declared.components)
  BY FieldsOfSources
<1>2. Listed(<<>>)
  BY DEF Listed
<1>3. Listed(Source!Declared(declared, "components", <<>>))
  BY <1>1, <1>2 DEF Source!Declared
<1>4. IsSource(Source!Stanza(declared))
  <2> DEFINE s == Source!Stanza(declared)
             c == Source!Declared(declared, "components", <<>>)
  <2>1. s.components = c /\ s = [url |-> s.url, suite |-> s.suite, components |-> s.components,
          priority |-> s.priority, enabled |-> s.enabled, signed |-> s.signed]
    BY DEF Source!Stanza
  <2> HIDE DEF s
  <2> QED
    BY <1>3, <2>1 DEF IsSource, s
<1>5. IsSource(Source!Section(declared))
  <2> DEFINE s == Source!Section(declared)
  <2>1. s.components = <<>> /\ s = [url |-> s.url, suite |-> s.suite, components |-> s.components,
          priority |-> s.priority, enabled |-> s.enabled, signed |-> s.signed]
    BY DEF Source!Section
  <2> HIDE DEF s
  <2> QED
    BY <1>2, <2>1 DEF IsSource, s
<1>6. IsSource(Source!NoSource)
  BY <1>2 DEF IsSource, Source!NoSource
<1> QED
  BY <1>4, <1>5, <1>6

(* What is written of a source holds what is declared of it.                *)
LEMMA WrittenIsMet ==
  ASSUME Lawful, Type = "Repository", Present(declared), NEW h, ~Source!Refused(declared, h),
         Says("signingKey", h.key),
         h.source = IF h.manager = "apt" THEN Source!Stanza(declared) ELSE Source!Section(declared)
  PROVE  SourceMet(h)
<1>f. /\ "url" \in DOMAIN declared /\ declared.url # ""
      /\ "priority" \in DOMAIN declared => declared.priority # ""
  BY FieldsOfSources
<1>d. \A f, x : Source!Declared(declared, f, x) = Declared(declared, f, x)
  BY DEF Source!Declared, Declared
<1> DEFINE s == h.source
           suite == Declared(declared, "suite", "")
           components == Declared(declared, "components", <<>>)
           priority == Declared(declared, "priority", "")
           enabled == Declared(declared, "enabled", "true")
           signed == "signingKey" \in DOMAIN declared
<1>1. /\ s.url = declared.url /\ s.enabled = enabled /\ (s.signed <=> signed)
      /\ s.suite = suite /\ s.components = components /\ s.priority = priority
  <2>1. CASE h.manager = "apt"
    <3>1. priority = ""
      BY <1>d, <2>1 DEF Source!Refused, Source!RefusedByApt
    <3>2. s = [url |-> declared.url, suite |-> suite, components |-> components, priority |-> "",
               enabled |-> enabled, signed |-> signed]
      BY <1>d, <2>1 DEF Source!Stanza
    <3> HIDE DEF s, suite, components, priority, enabled, signed
    <3> QED
      BY <3>1, <3>2
  <2>2. CASE h.manager # "apt"
    <3>1. suite = "" /\ components = <<>>
      BY <1>d, <2>2 DEF Source!Refused, Source!RefusedByDnf
    <3>2. s = [url |-> declared.url, suite |-> "", components |-> <<>>, priority |-> priority,
               enabled |-> enabled, signed |-> signed]
      BY <1>d, <2>2 DEF Source!Section
    <3> HIDE DEF s, suite, components, priority, enabled, signed
    <3> QED
      BY <3>1, <3>2
  <2> QED
    BY <2>1, <2>2
<1> HIDE DEF s
<1>2. Says("suite", s.suite)
  BY <1>1 DEF Declared, Says
<1>3. Says("priority", s.priority)
  BY <1>1 DEF Declared, Says
<1>4. "components" \in DOMAIN declared => s.components = declared.components
  BY <1>1 DEF Declared
<1>5. s # Source!NoSource
  <2>1. Source!NoSource.url = ""
    BY DEF Source!NoSource
  <2>2. s.url # ""
    BY <1>f, <1>1
  <2> QED
    BY <2>1, <2>2
<1>6. "components" \in DOMAIN declared => Range(declared.components) = Range(s.components)
  BY <1>4
<1>7. Says("url", s.url) /\ ("signingKey" \in DOMAIN declared => s.signed)
  BY <1>1 DEF Says
<1> QED
  BY <1>1, <1>2, <1>3, <1>5, <1>6, <1>7 DEF s, SourceMet

(* A call for a package source brings it one call further.                  *)
LEMMA SourceStep ==
  ASSUME Lawful, Type = "Repository", NEW g, SourceShape(g),
         NEW left \in {Trust, <<"source">>, Unlist, <<"unkey">>},
         NEW h \in Source!Effect(Type, declared, g, Head(left))
  PROVE  /\ Tail(left) \in {<<>>, <<"source">>, <<"unkey">>} /\ SourceShape(h)
         /\ SourceOnTheWay(g, left) => SourceOnTheWay(h, Tail(left))
<1>g. g = [manager |-> g.manager, source |-> g.source, key |-> g.key] /\ IsSource(g.source)
  BY DEF SourceShape, Source!Repository
<1>s. ASSUME NEW s, NEW k, h = [manager |-> g.manager, source |-> s, key |-> k], IsSource(s)
      PROVE  /\ SourceShape(h) /\ h.manager = g.manager /\ h.source = s /\ h.key = k
             /\ Source!Refused(declared, h) = Source!Refused(declared, g)
  BY <1>s DEF SourceShape, Source!Repository, Source!Refused
<1>w. SourceOnTheWay(g, left) <=>
        /\ g.manager = before.manager /\ ~Source!Refused(declared, g)
        /\ left \in {Unlist, <<"unkey">>} => ~Present(declared)
        /\ left \in {Trust, <<"source">>} => Present(declared)
        /\ left = <<"unkey">> => g.source = Source!NoSource
        /\ left = <<"source">> => Says("signingKey", g.key)
        /\ left = <<>> => SourceMet(g)
  BY DEF SourceOnTheWay, Unlist, Trust
<1>1. CASE left = Trust
  <2>1. h = [g EXCEPT !.key = declared.signingKey]
    BY <1>1, OtherTails DEF Source!Effect
  <2>2. h = [manager |-> g.manager, source |-> g.source, key |-> declared.signingKey]
    BY <1>g, <2>1
  <2>3. /\ SourceShape(h) /\ h.manager = g.manager /\ h.source = g.source /\ h.key = declared.signingKey
        /\ Source!Refused(declared, h) = Source!Refused(declared, g)
    BY <1>g, <1>s, <2>2
  <2>4. SourceOnTheWay(g, left) => SourceOnTheWay(h, <<"source">>)
    <3>1. <<"source">> \notin {<<>>, <<"unkey">>, Unlist}
      BY UnitTails DEF Unlist
    <3> QED
      BY <1>1, <1>w, <2>3, <3>1 DEF SourceOnTheWay, Unlist, Says
  <2> QED
    BY <1>1, <2>3, <2>4, OtherTails
<1>2. CASE left = <<"source">>
  <2>0. Head(left) = "source" /\ Tail(left) = <<>> /\ left # <<>>
    BY <1>2, UnitTails
  <2> DEFINE s == IF g.manager = "apt" THEN Source!Stanza(declared) ELSE Source!Section(declared)
  <2>1. h = [g EXCEPT !.source = s]
    BY <2>0 DEF Source!Effect
  <2>2. IsSource(s)
    BY Sections
  <2> HIDE DEF s
  <2>3. h = [manager |-> g.manager, source |-> s, key |-> g.key]
    BY <1>g, <2>1
  <2>4. /\ SourceShape(h) /\ h.manager = g.manager /\ h.source = s /\ h.key = g.key
        /\ Source!Refused(declared, h) = Source!Refused(declared, g)
    BY <1>s, <2>2, <2>3
  <2>5. ASSUME SourceOnTheWay(g, left) PROVE SourceOnTheWay(h, <<>>)
    <3>1. /\ Present(declared) /\ Says("signingKey", h.key) /\ ~Source!Refused(declared, h)
          /\ h.manager = before.manager
      BY <1>2, <1>w, <2>4, <2>5
    <3>2. h.source = IF h.manager = "apt" THEN Source!Stanza(declared) ELSE Source!Section(declared)
      BY <2>4 DEF s
    <3>3. SourceMet(h)
      BY <3>1, <3>2, WrittenIsMet
    <3> QED
      BY <3>1, <3>3, UnitTails DEF SourceOnTheWay
  <2> QED
    BY <2>0, <2>4, <2>5
<1>3. CASE left = Unlist
  <2>1. h = [g EXCEPT !.source = Source!NoSource]
    BY <1>3, OtherTails DEF Source!Effect
  <2>2. h = [manager |-> g.manager, source |-> Source!NoSource, key |-> g.key]
    BY <1>g, <2>1
  <2>3. /\ SourceShape(h) /\ h.manager = g.manager /\ h.source = Source!NoSource /\ h.key = g.key
        /\ Source!Refused(declared, h) = Source!Refused(declared, g)
    BY <1>s, <2>2, Sections
  <2>4. SourceOnTheWay(g, left) => SourceOnTheWay(h, <<"unkey">>)
    <3>1. <<"unkey">> \notin {<<>>, <<"source">>, Trust}
      BY UnitTails DEF Trust
    <3> QED
      BY <1>3, <1>w, <2>3, <3>1 DEF SourceOnTheWay, Trust
  <2> QED
    BY <1>3, <2>3, <2>4, OtherTails
<1>4. CASE left = <<"unkey">>
  <2>0. Head(left) = "unkey" /\ Tail(left) = <<>> /\ left # <<>>
    BY <1>4, UnitTails
  <2>1. h = [g EXCEPT !.key = ""]
    BY <2>0 DEF Source!Effect
  <2>2. h = [manager |-> g.manager, source |-> g.source, key |-> ""]
    BY <1>g, <2>1
  <2>3. /\ SourceShape(h) /\ h.manager = g.manager /\ h.source = g.source
        /\ Source!Refused(declared, h) = Source!Refused(declared, g)
    BY <1>g, <1>s, <2>2
  <2>4. SourceOnTheWay(g, left) => SourceOnTheWay(h, <<>>)
    BY <1>4, <1>w, <2>3, UnitTails DEF SourceOnTheWay, SourceMet
  <2> QED
    BY <2>0, <2>3, <2>4
<1> QED
  BY <1>1, <1>2, <1>3, <1>4

(* The calls for a package source.                                          *)
LEMMA SourceBegin ==
  ASSUME Lawful, Type = "Repository", NEW g, NEW act, NEW trig
  PROVE  LET left == Source!Calls(Type, declared, g, act, trig) IN
         /\ left \in {Trust, <<"source">>, Unlist}
         /\ g.manager = before.manager /\ ~Source!Refused(declared, g) /\ (act = "remove" <=> ~Present(declared)) =>
              SourceOnTheWay(g, left)
<1> DEFINE left == Source!Calls(Type, declared, g, act, trig)
<1>1. left = IF act = "remove" THEN Unlist ELSE IF "signingKey" \in DOMAIN declared THEN Trust ELSE <<"source">>
  <2>1. <<"key">> \o <<"source">> = Trust /\ <<>> \o <<"source">> = <<"source">>
    BY OneAfterAnother, UnitTails DEF Trust
  <2> QED
    BY <2>1 DEF Source!Calls, Source!WriteCalls, Unlist
<1> HIDE DEF left
<1>2. ASSUME g.manager = before.manager, ~Source!Refused(declared, g), act = "remove" <=> ~Present(declared)
      PROVE  SourceOnTheWay(g, left)
  <2>1. /\ Unlist \notin {<<>>, <<"unkey">>, <<"source">>, Trust}
        /\ Trust \notin {<<>>, <<"unkey">>, <<"source">>, Unlist}
        /\ <<"source">> \notin {<<>>, <<"unkey">>, Unlist, Trust}
    BY OtherTails, UnitTails
  <2>2. SourceOnTheWay(g, left) <=>
          /\ g.manager = before.manager /\ ~Source!Refused(declared, g)
          /\ left \in {Unlist, <<"unkey">>} => ~Present(declared)
          /\ left \in {Trust, <<"source">>} => Present(declared)
          /\ left = <<"unkey">> => g.source = Source!NoSource
          /\ left = <<"source">> => Says("signingKey", g.key)
          /\ left = <<>> => SourceMet(g)
    BY DEF SourceOnTheWay, Unlist, Trust
  <2>3. "signingKey" \notin DOMAIN declared => Says("signingKey", g.key)
    BY DEF Says
  <2> QED
    BY <1>1, <1>2, <2>1, <2>2, <2>3
<1> QED
  BY <1>1, <1>2 DEF left

-----------------------------------------------------------------------------
(* The same for whichever provider serves the type.                         *)

NoneStaged(h, left) ==
  Type \in Paths /\ ~crashed /\ (left = <<>> \/ left[Len(left)] # "rename") => h.staged = File!Nothing

(* Which calls end in a rename.                                             *)
LEMMA Lasts ==
  /\ \A l \in {<<"rename">>, FillIt, OpenIt, HandOver, LinkIt} : l # <<>> /\ l[Len(l)] = "rename"
  /\ \A l \in {<<"unlink">>, OpenUp, GiveAway, MakeIt, MakeFor} : l # <<>> /\ l[Len(l)] # "rename"
BY DEF FillIt, OpenIt, HandOver, LinkIt, OpenUp, GiveAway, MakeIt, MakeFor

(* What a target looks like, by type.                                       *)
LEMMA Shapes ==
  ASSUME Lawful, NEW h
  PROVE  /\ Type \in Paths => (Shaped(Type, h) <=> PathShape(h))
         /\ Type \in {"User", "Group"} => (Shaped(Type, h) <=> AccountShape(h))
         /\ Type = "Service" => (Shaped(Type, h) <=> UnitShape(h))
         /\ Type = "Sysctl" => (Shaped(Type, h) <=> ParameterShape(h))
         /\ Type = "Package" => (Shaped(Type, h) <=> PackageShape(h))
         /\ Type = "Repository" => (Shaped(Type, h) <=> SourceShape(h))
BY DEF Shaped, Paths, PathShape, AccountShape, UnitShape, ParameterShape, PackageShape, SourceShape

(* How far a target is, by type.                                            *)
LEMMA OnTheWays ==
  ASSUME Lawful, NEW h, NEW left
  PROVE  /\ Type = "File" => (OnTheWay(h, left) <=> FileOnTheWay(h, left))
         /\ Type = "Directory" => (OnTheWay(h, left) <=> DirectoryOnTheWay(h, left))
         /\ Type = "Symlink" => (OnTheWay(h, left) <=> SymlinkOnTheWay(h, left))
         /\ Type \in {"User", "Group"} => (OnTheWay(h, left) <=> AccountOnTheWay(h, left))
         /\ Type = "Service" => (OnTheWay(h, left) <=> UnitOnTheWay(h, left))
         /\ Type = "Sysctl" => (OnTheWay(h, left) <=> ParameterOnTheWay(h, left))
         /\ Type = "Package" => (OnTheWay(h, left) <=> PackageOnTheWay(h, left))
         /\ Type = "Repository" => (OnTheWay(h, left) <=> SourceOnTheWay(h, left))
BY DEF OnTheWay

(* What is still to be called, by type.                                     *)
LEMMA Pendings ==
  ASSUME Lawful, NEW left
  PROVE  /\ Type \in Paths => (Pending(left) <=> PathPending(left))
         /\ Type \in {"User", "Group"} => (Pending(left) <=> left \in {<<>>, <<"add">>, <<"mod">>, <<"del">>})
         /\ Type = "Service" => (Pending(left) <=> UnitPending(left))
         /\ Type = "Sysctl" => (Pending(left) <=> left \in {<<>>, Write, <<"persist">>, <<"unpersist">>})
         /\ Type = "Package" => (Pending(left) <=> left \in {<<>>} \cup PackageCalls)
         /\ Type = "Repository" => (Pending(left) <=> left \in {<<>>, Trust, <<"source">>, Unlist, <<"unkey">>})
BY DEF Pending, Paths, Write, PackageCalls, Trust, Unlist

(* A call that succeeds brings a target nobody else touches one call further*)
(* on the way to what is declared, whichever provider makes it.             *)
LEMMA Stepping ==
  ASSUME Lawful, NEW g, Shaped(Type, g), NEW left, left # <<>>, Pending(left), NEW h \in Effect(g, Head(left))
  PROVE  /\ Pending(Tail(left)) /\ Shaped(Type, h)
         /\ OnTheWay(g, left) => OnTheWay(h, Tail(left))
         /\ NoneStaged(g, left) => NoneStaged(h, Tail(left))
<1>1. CASE Type = "File"
  <2>1. h \in File!Effect(Type, declared, g, Head(left)) /\ PathShape(g) /\ PathPending(left)
    BY <1>1, OfPaths, Shapes, Pendings DEF Paths
  <2>2. /\ PathPending(Tail(left)) /\ PathShape(h)
        /\ FileOnTheWay(g, left) => FileOnTheWay(h, Tail(left))
        /\ left = <<"unlink">> => h.staged = g.staged
        /\ left = <<"rename">> => h.staged = File!Nothing
        /\ left \notin {<<"unlink">>, <<"rename">>} => Tail(left) \in {<<"rename">>, FillIt, OpenIt, HandOver}
    BY <1>1, <2>1, FileStep
  <2>3. NoneStaged(g, left) => NoneStaged(h, Tail(left))
    BY <2>2, Lasts DEF NoneStaged
  <2> QED
    BY <1>1, <2>2, <2>3, Shapes, Pendings, OnTheWays DEF Paths
<1>2. CASE Type = "Symlink"
  <2>1. h \in File!Effect(Type, declared, g, Head(left)) /\ PathShape(g) /\ PathPending(left)
    BY <1>2, OfPaths, Shapes, Pendings DEF Paths
  <2>2. /\ PathPending(Tail(left)) /\ PathShape(h)
        /\ SymlinkOnTheWay(g, left) => SymlinkOnTheWay(h, Tail(left))
        /\ left = <<"unlink">> => h.staged = g.staged
        /\ left = <<"rename">> => h.staged = File!Nothing
        /\ left \notin {<<"unlink">>, <<"rename">>} => Tail(left) = <<"rename">>
    BY <1>2, <2>1, SymlinkStep
  <2>3. NoneStaged(g, left) => NoneStaged(h, Tail(left))
    BY <2>2, Lasts DEF NoneStaged
  <2> QED
    BY <1>2, <2>2, <2>3, Shapes, Pendings, OnTheWays DEF Paths
<1>3. CASE Type = "Directory"
  <2>1. h \in File!Effect(Type, declared, g, Head(left)) /\ PathShape(g) /\ PathPending(left)
    BY <1>3, OfPaths, Shapes, Pendings DEF Paths
  <2>2. /\ PathPending(Tail(left)) /\ PathShape(h)
        /\ DirectoryOnTheWay(g, left) => DirectoryOnTheWay(h, Tail(left))
        /\ h.staged = g.staged
    BY <1>3, <2>1, DirectoryStep
  <2>3. left \in {<<"unlink">>, OpenUp, GiveAway, MakeIt, MakeFor}
    BY <1>3, <2>1, DirectoryPending
  <2>4. NoneStaged(g, left) => NoneStaged(h, Tail(left))
    BY <2>2, <2>3, Lasts DEF NoneStaged
  <2> QED
    BY <1>3, <2>2, <2>4, Shapes, Pendings, OnTheWays DEF Paths
<1>s. Type \notin Paths => NoneStaged(h, Tail(left))
  BY DEF NoneStaged
<1>4. CASE Type \in {"User", "Group"}
  <2>1. /\ h \in Account!Effect(Type, declared, g, Head(left)) /\ AccountShape(g)
        /\ left \in {<<"add">>, <<"mod">>, <<"del">>}
    BY <1>4, OfAccounts, Shapes, Pendings
  <2>2. Tail(left) = <<>> /\ AccountShape(h) /\ (AccountOnTheWay(g, left) => AccountOnTheWay(h, Tail(left)))
    BY <1>4, <2>1, AccountStep
  <2> QED
    BY <1>4, <1>s, <2>2, Shapes, Pendings, OnTheWays DEF Paths
<1>5. CASE Type = "Service"
  <2>1. h \in Service!Effect(Type, declared, g, Head(left)) /\ UnitShape(g) /\ UnitPending(left)
    BY <1>5, OfServices, Shapes, Pendings
  <2>2. UnitPending(Tail(left)) /\ UnitShape(h) /\ (UnitOnTheWay(g, left) => UnitOnTheWay(h, Tail(left)))
    BY <1>5, <2>1, UnitStep
  <2> QED
    BY <1>5, <1>s, <2>2, Shapes, Pendings, OnTheWays DEF Paths
<1>6. CASE Type = "Sysctl"
  <2>1. /\ h \in Sysctl!Effect(Type, declared, g, Head(left)) /\ ParameterShape(g)
        /\ left \in {Write, <<"persist">>, <<"unpersist">>}
    BY <1>6, OfParameters, Shapes, Pendings
  <2>2. /\ Tail(left) \in {<<>>, <<"persist">>} /\ ParameterShape(h)
        /\ ParameterOnTheWay(g, left) => ParameterOnTheWay(h, Tail(left))
    BY <1>6, <2>1, ParameterStep
  <2> QED
    BY <1>6, <1>s, <2>2, Shapes, Pendings, OnTheWays DEF Paths
<1>7. CASE Type = "Package"
  <2>1. h \in Package!Effect(Type, declared, g, Head(left)) /\ PackageShape(g) /\ left \in PackageCalls
    BY <1>7, OfPackages, Shapes, Pendings
  <2>2. Tail(left) = <<>> /\ PackageShape(h) /\ (PackageOnTheWay(g, left) => PackageOnTheWay(h, Tail(left)))
    BY <1>7, <2>1, PackageStep
  <2> QED
    BY <1>7, <1>s, <2>2, Shapes, Pendings, OnTheWays DEF Paths
<1>8. CASE Type = "Repository"
  <2>1. /\ h \in Source!Effect(Type, declared, g, Head(left)) /\ SourceShape(g)
        /\ left \in {Trust, <<"source">>, Unlist, <<"unkey">>}
    BY <1>8, OfSources, Shapes, Pendings
  <2>2. /\ Tail(left) \in {<<>>, <<"source">>, <<"unkey">>} /\ SourceShape(h)
        /\ SourceOnTheWay(g, left) => SourceOnTheWay(h, Tail(left))
    BY <1>8, <2>1, SourceStep
  <2> QED
    BY <1>8, <1>s, <2>2, Shapes, Pendings, OnTheWays DEF Paths
<1> QED
  BY <1>1, <1>2, <1>3, <1>4, <1>5, <1>6, <1>7, <1>8, Kinds DEF Paths

(* What the decided action says of the target it was decided for.           *)
LEMMA PlanMeans ==
  ASSUME Lawful, PlanStandsFor(Observe(before)), trigger \in Triggers
  PROVE  /\ action \in {"create", "update", "remove"}
         /\ action = "remove" => Observe(before).exists /\ ~Present(declared)
         /\ Type # "Service" =>
              /\ action = "remove" <=> ~Present(declared)
              /\ action = "update" => Observe(before).exists
<1> DEFINE seen == Observe(before)
<1>1. seen.exists \in BOOLEAN
  BY SeenOrNot
<1>2. \/ Decide(Type, declared, seen) # "none" /\ action = Decide(Type, declared, seen)
      \/ trigger # "none" /\ action = "update"
  BY DEF PlanStandsFor
<1>3. Type # "Service" => trigger = "none"
  BY DEF Triggers
<1> HIDE DEF seen
<1>4. /\ Decide(Type, declared, seen) \in {"create", "remove", "update", "none"}
      /\ Decide(Type, declared, seen) = "remove" => ~Present(declared) /\ seen.exists
      /\ Decide(Type, declared, seen) = "create" => Present(declared)
      /\ Decide(Type, declared, seen) = "update" => Present(declared) /\ seen.exists
  BY <1>1 DEF Decide, Present
<1> QED
  BY <1>2, <1>3, <1>4 DEF seen

(* The calls Apply sets out with start from what it finds, and from what was*)
(* planned when nobody has touched it since.                                *)
LEMMA Beginning ==
  ASSUME Lawful, Shaped(Type, host), PlanStandsFor(Observe(before)), trigger \in Triggers, alone => host = before
  PROVE  LET left == Calls(host, action, trigger) IN
         Pending(left) /\ (alone => OnTheWay(host, left))
<1>a. /\ action \in {"create", "update", "remove"}
      /\ action = "remove" => Observe(before).exists /\ ~Present(declared)
      /\ Type # "Service" =>
           /\ action = "remove" <=> ~Present(declared)
           /\ action = "update" => Observe(before).exists
  BY PlanMeans
<1> DEFINE left == Calls(host, action, trigger)
<1>1. CASE Type = "File"
  <2>1. left = File!Calls(Type, declared, host, action, trigger)
    BY <1>1, OfPaths DEF Paths
  <2>2. alone => host.node = before.node /\ (action = "remove" <=> ~Present(declared))
    BY <1>1, <1>a
  <2>3. PathPending(left) /\ (alone => FileOnTheWay(host, left))
    BY <1>1, <2>1, <2>2, FileBegin
  <2> HIDE DEF left
  <2> QED
    BY <1>1, <2>3, Pendings, OnTheWays DEF left, Paths
<1>2. CASE Type = "Symlink"
  BY <1>2, <1>a, OfPaths, SymlinkBegin, Pendings, OnTheWays DEF Paths
<1>3. CASE Type = "Directory"
  <2>1. alone /\ action = "remove" => host.node.kind = "Directory"
    <3>1. File!Observe(Type, declared, before).exists <=> before.node.kind = Type
      BY PathSeen
    <3>2. Observe(before) = File!Observe(Type, declared, before)
      BY <1>3, OfPaths DEF Paths
    <3> QED
      BY <1>3, <1>a, <3>1, <3>2
  <2> QED
    BY <1>3, <1>a, <2>1, OfPaths, DirectoryBegin, Pendings, OnTheWays DEF Paths
<1>4. CASE Type \in {"User", "Group"}
  <2>1. alone /\ action = "update" => host.account # Account!NoAccount
    <3>1. Account!Observe(Type, declared, before).exists <=> before.account # Account!NoAccount
      BY <1>4, AccountSeen
    <3>2. Observe(before) = Account!Observe(Type, declared, before)
      BY <1>4, OfAccounts
    <3> QED
      BY <1>4, <1>a, <3>1, <3>2
  <2>2. left = Account!Calls(Type, declared, host, action, trigger)
    BY <1>4, OfAccounts
  <2>3. alone => host.account = before.account /\ (action = "remove" <=> ~Present(declared))
    BY <1>4, <1>a
  <2>4. left \in {<<>>, <<"add">>, <<"mod">>, <<"del">>} /\ (alone => AccountOnTheWay(host, left))
    BY <1>4, <1>a, <2>1, <2>2, <2>3, AccountBegin
  <2> HIDE DEF left
  <2> QED
    BY <1>4, <2>4, Pendings, OnTheWays DEF left
<1>5. CASE Type = "Service"
  <2>1. action # "remove"
    BY <1>5, <1>a, FieldsOfServices
  <2>2. trigger \in {"none", "restart", "reload"}
    BY <1>5 DEF Triggers
  <2>3. left = Service!Calls(Type, declared, host, action, trigger)
    BY <1>5, OfServices
  <2>4. UnitPending(left) /\ UnitOnTheWay(host, left)
    BY <1>5, <1>a, <2>1, <2>2, <2>3, UnitBegin
  <2> HIDE DEF left
  <2> QED
    BY <1>5, <2>4, Pendings, OnTheWays DEF left
<1>6. CASE Type = "Sysctl"
  <2>1. left = Sysctl!Calls(Type, declared, host, action, trigger)
    BY <1>6, OfParameters
  <2>2. action = "remove" <=> ~Present(declared)
    BY <1>6, <1>a
  <2>3. left \in {Write, <<"unpersist">>} /\ ParameterOnTheWay(host, left)
    BY <1>6, <2>1, <2>2, ParameterBegin
  <2> HIDE DEF left
  <2> QED
    BY <1>6, <2>3, Pendings, OnTheWays DEF left
<1>7. CASE Type = "Package"
  <2>1. left = Package!Calls(Type, declared, host, action, trigger)
    BY <1>7, OfPackages
  <2>2. (action = "remove" <=> ~Present(declared)) /\ PackageShape(host)
    BY <1>7, <1>a, Shapes
  <2>3. left \in PackageCalls \cup {<<>>} /\ PackageOnTheWay(host, left)
    BY <1>7, <2>1, <2>2, PackageBegin
  <2> HIDE DEF left
  <2> QED
    BY <1>7, <2>3, Pendings, OnTheWays DEF left
<1>8. CASE Type = "Repository"
  <2>1. alone => ~Source!Refused(declared, host) /\ host.manager = before.manager
    BY <1>8 DEF PlanStandsFor
  <2>2. left = Source!Calls(Type, declared, host, action, trigger)
    BY <1>8, OfSources
  <2>3. action = "remove" <=> ~Present(declared)
    BY <1>8, <1>a
  <2>4. left \in {Trust, <<"source">>, Unlist} /\ (alone => SourceOnTheWay(host, left))
    BY <1>8, <2>1, <2>2, <2>3, SourceBegin
  <2> HIDE DEF left
  <2> QED
    BY <1>8, <2>4, Pendings, OnTheWays DEF left
<1> QED
  BY <1>1, <1>2, <1>3, <1>4, <1>5, <1>6, <1>7, <1>8, Kinds DEF Paths

-----------------------------------------------------------------------------
(* What a step leaves as it was.                                            *)

HalfDone(node) ==
  node # before.node =>
    CASE Type = "Directory" ->
           before.node.kind = "nothing" /\ node.mode # File!Octal(0, 7, 0, 0) => Says("owner", node.owner)
      [] OTHER -> Unreadable \/ PathMet(node)

(* A path on the way to what is declared is never half done.                *)
LEMMA OnTheWayIsWhole ==
  ASSUME Lawful, Type \in Paths, NEW h, NEW left, PathPending(left), OnTheWay(h, left)
  PROVE  HalfDone(h.node)
<1>1. CASE Type \in {"File", "Symlink"}
  <2>1. h.node = before.node \/ PathMet(h.node) \/ Unreadable
    BY <1>1 DEF OnTheWay, FileOnTheWay, SymlinkOnTheWay
  <2> QED
    BY <1>1, <2>1 DEF HalfDone
<1>2. CASE Type = "Directory"
  <2>1. left \in {<<>>, <<"unlink">>, OpenUp, GiveAway, MakeIt, MakeFor} /\ DirectoryOnTheWay(h, left)
    BY <1>2, DirectoryPending DEF OnTheWay
  <2>2. \/ h.node = before.node \/ before.node.kind # "nothing"
        \/ h.node.mode = File!Octal(0, 7, 0, 0) \/ Says("owner", h.node.owner)
    BY <2>1, DirectoryTails, DirectoryOnTheWayIs
  <2> QED
    BY <1>2, <2>2 DEF HalfDone
<1> QED
  BY <1>1, <1>2 DEF Paths

(* An account on the way to what is declared keeps its id.                  *)
LEMMA OnTheWayKeepsItsId ==
  ASSUME Type \in {"User", "Group"}, NEW h, NEW left, OnTheWay(h, left)
  PROVE  KeepsItsId(h.account)
BY DEF OnTheWay, AccountOnTheWay, KeepsItsId

-----------------------------------------------------------------------------

(* A behaviour stays in its world.                                          *)
LEMMA SameType ==
  ASSUME world' = world
  PROVE  Type' = Type
BY DEF Type

(* What is left as it was is observed as it was.                            *)
LEMMA SeenAgain ==
  ASSUME world' = world, declared' = declared
  PROVE  /\ host' = host => Observe(host)' = Observe(host)
         /\ before' = before => Observe(before)' = Observe(before)
         /\ Lawful => Lawful'
BY SameType DEF Observe, Lawful

(* What is pending stays pending until it is called.                        *)
LEMMA StillPending ==
  ASSUME world' = world, declared' = declared, before' = before, trigger' = trigger, alone' => alone,
         Pending(todo')
  PROVE  Pending(todo)'
<1>1. Type' = Type
  BY SameType
<1>2. \A c \in Switching : Asked(c) => Asked(c)'
  BY DEF Asked
<1>3. UnitPending(todo') => UnitPending(todo)'
  BY <1>2 DEF UnitPending, Switching, Enabling
<1>4. PathPending(todo') => PathPending(todo)'
  BY <1>1 DEF PathPending
<1> QED
  BY <1>1, <1>3, <1>4 DEF Pending

(* How far a target is depends on the target, its declaration and how it was*)
(* planned.                                                                 *)
LEMMA StillOnTheWay ==
  ASSUME world' = world, declared' = declared, before' = before, OnTheWay(host', todo')
  PROVE  OnTheWay(host, todo)'
<1>1. Type' = Type
  BY SameType
<1>2. Unreadable => Unreadable'
  BY <1>1 DEF Unreadable
<1>3. PathMet(host'.node) => PathMet(host.node)'
  BY <1>1 DEF PathMet, Says, SaysMode
<1>4. FileOnTheWay(host', todo') => FileOnTheWay(host, todo)'
  BY <1>2, <1>3 DEF FileOnTheWay, Says, FillIt, OpenIt, HandOver
<1>5. DirectoryOnTheWay(host', todo') => DirectoryOnTheWay(host, todo)'
  BY <1>2, <1>3 DEF DirectoryOnTheWay, Says
<1>6. SymlinkOnTheWay(host', todo') => SymlinkOnTheWay(host, todo)'
  BY <1>2, <1>3 DEF SymlinkOnTheWay
<1>7. AccountOnTheWay(host', todo') => AccountOnTheWay(host, todo)'
  BY DEF AccountOnTheWay, Joined, KeepsItsId, Says
<1>8. UnitOnTheWay(host', todo') => UnitOnTheWay(host, todo)'
  BY DEF UnitOnTheWay, Switched, Enabled, Enabling, Switching
<1>9. ParameterOnTheWay(host', todo') => ParameterOnTheWay(host, todo)'
  BY DEF ParameterOnTheWay, ParameterMet
<1>10. PackageOnTheWay(host', todo') => PackageOnTheWay(host, todo)'
  BY DEF PackageOnTheWay, PackageMet, Says
<1>11. SourceOnTheWay(host', todo') => SourceOnTheWay(host, todo)'
  BY DEF SourceOnTheWay, SourceMet, Says
<1> QED
  BY <1>1, <1>4, <1>5, <1>6, <1>7, <1>8, <1>9, <1>10, <1>11 DEF OnTheWay

(* A plan stands while what it was made for does.                           *)
LEMMA StillPlanned ==
  ASSUME world' = world, declared' = declared, before' = before, trigger' = trigger, action' = action,
         PlanStandsFor(Observe(before))
  PROVE  PlanStandsFor(Observe(before))'
<1>1. Observe(before)' = Observe(before) /\ Type' = Type
  BY SeenAgain, SameType
<1> QED
  BY <1>1 DEF PlanStandsFor

(* What targets look like depends on the world.                             *)
LEMMA StillShaped ==
  ASSUME world' = world
  PROVE  /\ Shaped(Type, host') => Shaped(Type, host)'
         /\ Shaped(Type, before') => Shaped(Type, before)'
         /\ trigger' \in Triggers => (trigger \in Triggers)'
BY SameType DEF Triggers

\* A path is promised to change as a whole, and an account to keep its id,
\* while nobody else is at them.
Whole(h) ==
  alone => /\ Type \in Paths => HalfDone(h.node)
           /\ Type \in {"User", "Group"} => KeepsItsId(h.account)

(* The two promises, as one.                                                *)
LEMMA WholeIs ==
  ASSUME Lawful
  PROVE  NothingHalfDone /\ AccountsKeepTheirIds => Whole(host)
<1>1. ASSUME Type \in Paths, NeverReadBack PROVE Unreadable
  BY <1>1, FieldsOfPaths DEF NeverReadBack, Unreadable, Paths
<1>2. NothingHalfDone => (alone /\ Type \in Paths => HalfDone(host.node))
  BY <1>1 DEF NothingHalfDone, HalfDone, Paths
<1>3. AccountsKeepTheirIds => (alone /\ Type \in {"User", "Group"} => KeepsItsId(host.account))
  BY DEF AccountsKeepTheirIds, KeepsItsId
<1> QED
  BY <1>2, <1>3 DEF Whole

(* The two promises hold of a target that is still whole.                   *)
LEMMA StillWhole ==
  ASSUME world' = world, declared' = declared, before' = before, alone' => alone, Whole(host')
  PROVE  NothingHalfDone' /\ AccountsKeepTheirIds'
<1>1. Type' = Type
  BY SameType
<1>2. Unreadable => NeverReadBack'
  BY <1>1 DEF NeverReadBack, Unreadable
<1>3. PathMet(host'.node) => PathMet(host.node)'
  BY <1>1 DEF PathMet, Says, SaysMode
<1>4. NothingHalfDone'
  BY <1>1, <1>2, <1>3 DEF NothingHalfDone, Whole, HalfDone, Says, Paths
<1>5. AccountsKeepTheirIds'
  BY <1>1 DEF AccountsKeepTheirIds, Whole, KeepsItsId
<1> QED
  BY <1>4, <1>5

-----------------------------------------------------------------------------
(* The invariant, action by action.                                         *)

\* What a target looks like before Apply has touched it, and after it has
\* given up.
LEMMA Found ==
  ASSUME Lawful
  PROVE  \A h \in Worlds[world].hosts : Shaped(Type, h) /\ (Type \in Paths => h.staged = File!Nothing)
BY WorldsAssumption DEF Lawful, Type, Findable

(* Cleaning up takes away what is staged and nothing else.                  *)
LEMMA CleanedUp ==
  ASSUME Lawful, NEW h, Shaped(Type, h)
  PROVE  /\ Shaped(Type, Cleanup(h))
         /\ Type \in Paths => Cleanup(h).staged = File!Nothing /\ Cleanup(h).node = h.node
         /\ Whole(h) => Whole(Cleanup(h))
<1>1. CASE Type \in Paths
  <2> DEFINE cleaned == Cleanup(h)
  <2>1. PathShape(h)
    BY <1>1, Shapes
  <2>2. h = [node |-> h.node, staged |-> h.staged] /\ cleaned = [h EXCEPT !.staged = File!Nothing]
    BY <1>1, <2>1, OfPaths DEF File!Cleanup, PathShape
  <2>3. cleaned = [node |-> h.node, staged |-> File!Nothing]
    BY <2>2
  <2> HIDE DEF cleaned
  <2>4. PathShape(cleaned) /\ cleaned.staged = File!Nothing /\ cleaned.node = h.node
    BY <2>1, <2>3, Nodes DEF PathShape
  <2>5. Shaped(Type, cleaned) /\ (Whole(h) => Whole(cleaned))
    BY <1>1, <2>4, Shapes DEF Whole, Paths
  <2> QED
    BY <2>4, <2>5 DEF cleaned
<1>2. CASE Type \notin Paths
  <2>1. Cleanup(h) = h
    BY <1>2 DEF Cleanup
  <2> QED
    BY <1>2, <2>1
<1> QED
  BY <1>1, <1>2

(* Others change what is at a path, never what Apply has staged beside it.  *)
LEMMA Meddled ==
  ASSUME Lawful, Shaped(Type, host), NEW h \in Worlds[world].hosts
  PROVE  LET met == IF Type \in Paths THEN [host EXCEPT !.node = h.node] ELSE h
         IN  Shaped(Type, met) /\ (Type \in Paths => met.staged = host.staged)
<1>1. Shaped(Type, h)
  BY Found
<1>2. CASE Type \in Paths
  <2> DEFINE met == [host EXCEPT !.node = h.node]
  <2>1. PathShape(h) /\ PathShape(host)
    BY <1>1, <1>2, Shapes
  <2>2. met = [node |-> h.node, staged |-> host.staged]
    BY <2>1 DEF PathShape
  <2> HIDE DEF met
  <2>3. PathShape(met) /\ met.staged = host.staged
    BY <2>1, <2>2 DEF PathShape
  <2> QED
    BY <1>2, <2>3, Shapes DEF met
<1> QED
  BY <1>1, <1>2

(* The invariant holds before the first pass.                               *)
LEMMA Beginnings ==
  Init => HostInv
<1> SUFFICES ASSUME Init PROVE HostInv
  OBVIOUS
<1>1. Lawful
  BY DEF Init, Lawful
<1>2. Shaped(Type, host) /\ (Type \in Paths => host.staged = File!Nothing)
  BY <1>1, Found DEF Init
<1>3. HostTyped
  BY <1>1, <1>2 DEF HostTyped, Init, Lawful, Triggers
<1>4. OnPlan /\ ConvergedAgrees /\ AppliedIsVerified
  BY DEF OnPlan, ConvergedAgrees, AppliedIsVerified, Init
<1>5. NothingStaged
  BY <1>2 DEF NothingStaged
<1>6. NothingHalfDone /\ AccountsKeepTheirIds
  BY DEF NothingHalfDone, AccountsKeepTheirIds, Init
<1> QED
  BY <1>3, <1>4, <1>5, <1>6 DEF HostInv

(* Planning starts afresh from what is there.                               *)
LEMMA PlanKeeps ==
  ASSUME HostInv, Plan
  PROVE  HostInv'
<1> DEFINE decided == Decide(Type, declared, Observe(host))
<1>1. Lawful /\ Lawful' /\ Type' = Type
  BY SameType, SeenAgain DEF HostInv, HostTyped, Lawful, Plan
<1>2. /\ world' = world /\ declared' = declared /\ host' = host /\ before' = host /\ todo' = todo
      /\ alone' = TRUE /\ fresh' = TRUE /\ crashed' = crashed /\ stage = "rest" /\ todo = <<>>
      /\ trigger' \in Triggers
      /\ action' = (IF decided = "none" /\ trigger' # "none" THEN "update" ELSE decided)
      /\ IF action' = "none" THEN stage' = "rest" /\ verdict' = "converged"
         ELSE stage' = "planned" /\ verdict' = "unknown"
  BY DEF Plan, HostInv, HostTyped
<1>3. Observe(host)' = Observe(host) /\ Observe(before)' = Observe(host)
  BY <1>1, <1>2 DEF Observe
<1> HIDE DEF decided
<1>4. HostTyped'
  BY <1>1, <1>2, StillShaped DEF HostInv, HostTyped
<1>5. stage' # "rest" => PlanStandsFor(Observe(before))'
  <2>1. Type = "Repository" => ~Source!Refused(declared, host)
    BY DEF Plan, Refused
  <2>2. \/ decided # "none" /\ action' = decided
        \/ decided = "none" /\ trigger' # "none" /\ action' = "update"
        \/ action' = "none"
    BY <1>2
  <2> QED
    BY <1>1, <1>2, <1>3, <2>1, <2>2 DEF PlanStandsFor, decided
<1>6. OnPlan'
  BY <1>2, <1>5 DEF OnPlan
<1>7. NothingStaged'
  BY <1>1, <1>2 DEF HostInv, NothingStaged
<1>8. ConvergedAgrees'
  BY <1>1, <1>2, <1>3 DEF ConvergedAgrees, decided
<1>9. AppliedIsVerified' /\ NothingHalfDone' /\ AccountsKeepTheirIds'
  BY <1>2 DEF AppliedIsVerified, NothingHalfDone, AccountsKeepTheirIds
<1> QED
  BY <1>4, <1>6, <1>7, <1>8, <1>9 DEF HostInv

\* A resource that comes to rest as it was promised to be.
LEMMA RestKeeps ==
  ASSUME HostInv, UNCHANGED <<world, declared, before>>, alone' => alone, alone' \in BOOLEAN,
         stage' = "rest", trigger' = "none", todo' = <<>>, fresh' \in BOOLEAN, crashed' \in BOOLEAN,
         Shaped(Type, host'), Whole(host'), host' = host \/ verdict' = "failed",
         Type \in Paths /\ ~crashed' => host'.staged = File!Nothing,
         verdict' = "converged" /\ fresh' => Decide(Type, declared, Observe(host)) = "none",
         verdict' = "untrue" => ~alone' \/ NeverReadBack
  PROVE  HostInv'
<1>1. Lawful /\ Lawful' /\ Type' = Type /\ (host' = host => Observe(host)' = Observe(host))
  BY SameType, SeenAgain DEF HostInv, HostTyped, Lawful
<1>2. HostTyped'
  <2>1. (trigger \in Triggers)'
    BY DEF Triggers
  <2> QED
    BY <1>1, <2>1, StillShaped DEF HostInv, HostTyped
<1>3. OnPlan'
  BY DEF OnPlan
<1>4. NothingStaged'
  BY <1>1 DEF NothingStaged
<1>5. ConvergedAgrees'
  BY <1>1 DEF ConvergedAgrees
<1>6. AppliedIsVerified'
  <2>1. host' = host /\ NeverReadBack => NeverReadBack'
    BY <1>1 DEF NeverReadBack
  <2> QED
    BY <2>1 DEF AppliedIsVerified
<1>7. NothingHalfDone' /\ AccountsKeepTheirIds'
  BY StillWhole
<1> QED
  BY <1>2, <1>3, <1>4, <1>5, <1>6, <1>7 DEF HostInv

(* What is refused is not touched.                                          *)
LEMMA RefuseKeeps ==
  ASSUME HostInv, Refuse
  PROVE  HostInv'
<1>1. Lawful /\ Whole(host) /\ Shaped(Type, host) /\ todo = <<>> /\ stage = "rest"
  BY WholeIs DEF HostInv, HostTyped, Lawful, Refuse
<1>2. Type \in Paths /\ ~crashed => host.staged = File!Nothing
  BY <1>1 DEF HostInv, NothingStaged
<1> QED
  BY <1>1, <1>2, RestKeeps DEF Refuse, Over, history, HostInv, HostTyped

(* Dying changes nothing, and explains what is left staged.                 *)
LEMMA CutOffKeeps ==
  ASSUME HostInv, CutOff
  PROVE  HostInv'
<1>1. Lawful /\ Whole(host) /\ Shaped(Type, host)
  BY WholeIs DEF HostInv, HostTyped, Lawful
<1> QED
  BY <1>1, RestKeeps DEF CutOff, Over, HostInv, HostTyped

(* Verification has nothing to object to.                                   *)
LEMMA VerifyKeeps ==
  ASSUME HostInv, VerifyApplied
  PROVE  HostInv'
<1> DEFINE seen == Observe(host)
           found == Verify(Type, declared, seen)
<1>1. /\ Lawful /\ Whole(host) /\ Shaped(Type, host) /\ todo = <<>> /\ stage = "applying"
      /\ alone => OnTheWay(host, <<>>)
  BY WholeIs DEF HostInv, HostTyped, Lawful, VerifyApplied, OnPlan
<1>2. Type \in Paths /\ ~crashed => host.staged = File!Nothing
  BY <1>1 DEF HostInv, NothingStaged
<1>3. found = "failed" => ~alone \/ NeverReadBack
  BY <1>1, BroughtIsVerified
<1>4. seen.exists \in BOOLEAN
  BY <1>1, SeenOrNot
<1>5. /\ found \in {"failed", "drifted", "converged"}
      /\ found = "converged" => Decide(Type, declared, seen) = "none"
  <2> HIDE DEF seen
  <2> QED
    BY <1>4 DEF Decide, Verify, Present
<1>6. verdict' = IF found = "failed" THEN "untrue" ELSE found
  BY DEF VerifyApplied, Over
<1> HIDE DEF found
<1>7. /\ verdict' = "converged" /\ fresh' => Decide(Type, declared, Observe(host)) = "none"
      /\ verdict' = "untrue" => ~alone' \/ NeverReadBack
  BY <1>3, <1>5, <1>6 DEF VerifyApplied
<1> QED
  BY <1>1, <1>2, <1>7, RestKeeps DEF VerifyApplied, Over, HostInv, HostTyped

(* A call that fails has done its work or not, and is cleaned up after.     *)
LEMMA FailureKeeps ==
  ASSUME HostInv, CallFails
  PROVE  HostInv'
<1>1. /\ Lawful /\ Whole(host) /\ Shaped(Type, host) /\ todo # <<>> /\ stage = "applying"
      /\ Pending(todo) /\ (alone => OnTheWay(host, todo))
  BY WholeIs DEF HostInv, HostTyped, Lawful, CallFails, OnPlan
<1>2. \E h \in Effect(host, Head(todo)) \cup {host} : host' = Cleanup(h)
  BY DEF CallFails
<1>3. PICK h \in Effect(host, Head(todo)) \cup {host} : host' = Cleanup(h)
  BY <1>2
<1>4. Shaped(Type, h) /\ Whole(h)
  <2>1. CASE h = host
    BY <1>1, <2>1
  <2>2. CASE h \in Effect(host, Head(todo))
    <3>1. Pending(Tail(todo)) /\ Shaped(Type, h) /\ (alone => OnTheWay(h, Tail(todo)))
      BY <1>1, <2>2, Stepping
    <3>2. Type \in Paths => PathPending(Tail(todo))
      BY <3>1 DEF Pending
    <3> QED
      BY <1>1, <3>1, <3>2, OnTheWayIsWhole, OnTheWayKeepsItsId DEF Whole
  <2> QED
    BY <1>3, <2>1, <2>2
<1>5. /\ Shaped(Type, host') /\ Whole(host')
      /\ Type \in Paths => host'.staged = File!Nothing
  BY <1>1, <1>3, <1>4, CleanedUp
<1> QED
  BY <1>5, RestKeeps DEF CallFails, Over, HostInv, HostTyped

(* Apply sets out on the calls the plan asks for.                           *)
LEMMA StartKeeps ==
  ASSUME HostInv, Start
  PROVE  HostInv'
<1>1. /\ Lawful /\ Whole(host) /\ Shaped(Type, host) /\ stage = "planned" /\ todo = <<>>
      /\ PlanStandsFor(Observe(before)) /\ trigger \in Triggers /\ (alone => host = before)
  BY WholeIs DEF HostInv, HostTyped, Lawful, Start, OnPlan
<1>2. /\ UNCHANGED <<world, declared, host, before, alone, fresh, crashed, action, trigger, verdict>>
      /\ stage' = "applying"
  BY DEF Start, history
<1>3. Pending(todo') /\ (alone => OnTheWay(host, todo'))
  BY <1>1, Beginning DEF Start
<1>4. Type' = Type /\ Lawful'
  BY <1>1, <1>2, SameType, SeenAgain
<1>5. HostTyped'
  BY <1>1, <1>2, <1>4, StillShaped DEF HostInv, HostTyped
<1>6. OnPlan'
  BY <1>1, <1>2, <1>3, StillPending, StillOnTheWay, StillPlanned DEF OnPlan
<1>7. NothingStaged'
  BY <1>1, <1>2, <1>4 DEF HostInv, NothingStaged
<1>8. ConvergedAgrees' /\ AppliedIsVerified'
  BY <1>1, <1>2 DEF HostInv, HostTyped, ConvergedAgrees, AppliedIsVerified
<1>9. NothingHalfDone' /\ AccountsKeepTheirIds'
  BY <1>1, <1>2, StillWhole
<1> QED
  BY <1>5, <1>6, <1>7, <1>8, <1>9 DEF HostInv

(* A call that succeeds brings the target further.                          *)
LEMMA CallKeeps ==
  ASSUME HostInv, Call
  PROVE  HostInv'
<1>1. /\ Lawful /\ Shaped(Type, host) /\ stage = "applying" /\ todo # <<>>
      /\ PlanStandsFor(Observe(before)) /\ Pending(todo) /\ (alone => OnTheWay(host, todo))
  BY DEF HostInv, HostTyped, Lawful, Call, OnPlan
<1>2. UNCHANGED <<world, declared, before, alone, fresh, crashed, action, trigger, verdict, stage>>
  BY DEF Call, history
<1>3. host' \in Effect(host, Head(todo)) /\ todo' = Tail(todo)
  BY DEF Call
<1>4. /\ Pending(todo') /\ Shaped(Type, host') /\ (alone => OnTheWay(host', todo'))
      /\ NoneStaged(host, todo) => NoneStaged(host', todo')
  BY <1>1, <1>3, Stepping
<1>5. Type' = Type /\ Lawful'
  BY <1>1, <1>2, SameType, SeenAgain
<1>6. HostTyped'
  BY <1>1, <1>2, <1>4, <1>5, StillShaped DEF HostInv, HostTyped
<1>7. OnPlan'
  BY <1>1, <1>2, <1>4, StillPending, StillOnTheWay, StillPlanned DEF OnPlan
<1>8. NothingStaged'
  BY <1>2, <1>4, <1>5 DEF HostInv, NothingStaged, NoneStaged
<1>9. ConvergedAgrees' /\ AppliedIsVerified'
  BY <1>1, <1>2 DEF HostInv, HostTyped, ConvergedAgrees, AppliedIsVerified
<1>10. NothingHalfDone' /\ AccountsKeepTheirIds'
  <2>1. Type \in Paths => PathPending(todo')
    BY <1>4 DEF Pending
  <2>2. Whole(host')
    BY <1>1, <1>4, <2>1, OnTheWayIsWhole, OnTheWayKeepsItsId DEF Whole
  <2> QED
    BY <1>2, <2>2, StillWhole
<1> QED
  BY <1>6, <1>7, <1>8, <1>9, <1>10 DEF HostInv

(* Who meddles ends what was promised, but not what is pending.             *)
LEMMA MeddleKeeps ==
  ASSUME HostInv, Meddle
  PROVE  HostInv'
<1>1. Lawful /\ Shaped(Type, host)
  BY DEF HostInv, HostTyped, Lawful
<1>2. /\ UNCHANGED <<world, declared, before, crashed, action, trigger, verdict, stage, todo>>
      /\ alone' = FALSE /\ fresh' = FALSE
  BY DEF Meddle
<1>3. Shaped(Type, host') /\ (Type \in Paths => host'.staged = host.staged)
  <2>1. PICK h \in Worlds[world].hosts : host' = IF Type \in Paths THEN [host EXCEPT !.node = h.node] ELSE h
    BY DEF Meddle
  <2> QED
    BY <1>1, <2>1, Meddled
<1>4. Type' = Type /\ Lawful'
  BY <1>1, <1>2, SameType, SeenAgain
<1>5. HostTyped'
  BY <1>2, <1>3, <1>4, StillShaped DEF HostInv, HostTyped, Triggers
<1>6. OnPlan'
  <2>1. stage # "rest" => PlanStandsFor(Observe(before))'
    BY <1>2, StillPlanned DEF HostInv, OnPlan
  <2>2. stage = "applying" => Pending(todo)'
    BY <1>2, StillPending DEF HostInv, OnPlan
  <2> QED
    BY <1>2, <2>1, <2>2 DEF OnPlan
<1>7. NothingStaged'
  BY <1>2, <1>3, <1>4 DEF HostInv, NothingStaged
<1>8. ConvergedAgrees' /\ AppliedIsVerified' /\ NothingHalfDone' /\ AccountsKeepTheirIds'
  BY <1>2 DEF ConvergedAgrees, AppliedIsVerified, NothingHalfDone, AccountsKeepTheirIds
<1> QED
  BY <1>5, <1>6, <1>7, <1>8 DEF HostInv

(* A new declaration ends what was promised.                                *)
LEMMA ReviseKeeps ==
  ASSUME HostInv, Revise
  PROVE  HostInv'
<1>1. /\ UNCHANGED <<world, host, before, crashed, action, trigger, stage, todo>> /\ stage = "rest"
      /\ alone' = FALSE /\ fresh' = FALSE /\ verdict' = "unknown" /\ declared' \in Worlds[world].declarations
  BY DEF Revise
<1>2. Type' = Type
  BY <1>1, SameType
<1>3. HostTyped'
  BY <1>1, <1>2, StillShaped DEF HostInv, HostTyped, Triggers
<1>4. OnPlan'
  BY <1>1 DEF OnPlan
<1>5. NothingStaged'
  BY <1>1, <1>2 DEF HostInv, NothingStaged
<1>6. ConvergedAgrees' /\ AppliedIsVerified' /\ NothingHalfDone' /\ AccountsKeepTheirIds'
  BY <1>1 DEF ConvergedAgrees, AppliedIsVerified, NothingHalfDone, AccountsKeepTheirIds
<1> QED
  BY <1>3, <1>4, <1>5, <1>6 DEF HostInv

-----------------------------------------------------------------------------

(* The invariant: what Apply still has to call and how far a target nobody  *)
(* else touches has come, call by call, with what was verified, left whole  *)
(* and kept of it.                                                          *)
THEOREM HostInvariant == Spec => []HostInv
<1>1. Init => HostInv
  BY Beginnings
<1>2. HostInv /\ [Next]_vars => HostInv'
  <2> SUFFICES ASSUME HostInv, [Next]_vars PROVE HostInv'
    OBVIOUS
  <2>1. CASE Next
    BY <2>1, PlanKeeps, RefuseKeeps, StartKeeps, CallKeeps, FailureKeeps, VerifyKeeps, CutOffKeeps, MeddleKeeps,
       ReviseKeeps DEF Next, Provide
  <2>2. CASE UNCHANGED vars
    <3>1. Lawful /\ Whole(host)
      BY WholeIs DEF HostInv, HostTyped, Lawful
    <3>2. UNCHANGED <<world, declared, host, stage, action, trigger, todo, verdict, before, alone, fresh, crashed>>
      BY <2>2 DEF vars, history
    <3>3. Type' = Type /\ Observe(host)' = Observe(host)
      BY <3>2, SameType, SeenAgain
    <3>4. HostTyped'
      BY <3>2, <3>3, StillShaped DEF HostInv, HostTyped
    <3>5. OnPlan'
      BY <3>2, StillPending, StillOnTheWay, StillPlanned DEF HostInv, OnPlan
    <3>6. NothingStaged' /\ ConvergedAgrees'
      BY <3>2, <3>3 DEF HostInv, NothingStaged, ConvergedAgrees
    <3>7. NothingHalfDone' /\ AccountsKeepTheirIds'
      BY <3>1, <3>2, StillWhole
    <3>8. AppliedIsVerified'
      BY <3>2, <3>3 DEF HostInv, AppliedIsVerified, NeverReadBack
    <3> QED
      BY <3>4, <3>5, <3>6, <3>7, <3>8 DEF HostInv
  <2> QED
    BY <2>1, <2>2
<1> QED
  BY <1>1, <1>2, PTL DEF Spec

(* When every call of an Apply has succeeded and nobody interfered, reading *)
(* the target again finds what was declared, for every provider and every   *)
(* declaration that can be read back (reconcile.go:206-241).                *)
THEOREM HostAppliedIsVerified == Spec => []AppliedIsVerified
<1>1. HostInv => AppliedIsVerified
  BY DEF HostInv
<1> QED
  BY <1>1, HostInvariant, PTL

(* A resource is reported converged only when its target holds everything   *)
(* declared of it that the providers compare (docs/concepts/state.md:16).   *)
THEOREM HostConvergedIsMet == Spec => []ConvergedIsMet
<1>1. HostInv => ConvergedIsMet
  BY AgreedIsMet DEF HostInv, HostTyped, ConvergedAgrees, ConvergedIsMet, Lawful
<1> QED
  BY <1>1, HostInvariant, PTL

(* A target that already holds what is declared is never planned to be      *)
(* changed, unless a dependency asks for it                                 *)
(* (docs/resources/lifecycle.md:103-115).                                   *)
THEOREM HostMetIsLeftAlone == Spec => []MetIsLeftAlone
<1>1. HostInv => MetIsLeftAlone
  <2> SUFFICES ASSUME HostInv, stage = "planned", alone, trigger = "none" PROVE ~Met \/ NeverReadBack
    BY DEF MetIsLeftAlone
  <2>1. Lawful /\ Shaped(Type, host) /\ host = before /\ PlanStandsFor(Observe(before))
    BY DEF HostInv, HostTyped, OnPlan, Lawful
  <2>2. Decide(Type, declared, Observe(host)) # "none"
    BY <2>1 DEF PlanStandsFor
  <2>3. ~Refused
    BY <2>1 DEF PlanStandsFor, Refused
  <2> QED
    BY <2>1, <2>2, <2>3, MetAgrees
<1> QED
  BY <1>1, HostInvariant, PTL

(* A path changes all at once, or not, whichever call fails or is cut off,  *)
(* and a new directory opens only once it belongs to whom it is declared to *)
(* (apply_linux.go:83-85, 140-141).                                         *)
THEOREM HostNothingHalfDone == Spec => []NothingHalfDone
<1>1. HostInv => NothingHalfDone
  BY DEF HostInv
<1> QED
  BY <1>1, HostInvariant, PTL

(* Only a process that died leaves anything beside the path                 *)
(* (apply_linux.go:108).                                                    *)
THEOREM HostNoTraces == Spec => []NoTraces
<1>1. HostInv => NoTraces
  BY DEF HostInv, HostTyped, NothingStaged, NoTraces
<1> QED
  BY <1>1, HostInvariant, PTL

(* An account in use keeps its id, and every field the declaration leaves   *)
(* out (linuxuser.go:135, 260-264).                                         *)
THEOREM HostAccountsKeepTheirIds == Spec => []AccountsKeepTheirIds
<1>1. HostInv => AccountsKeepTheirIds
  BY DEF HostInv
<1> QED
  BY <1>1, HostInvariant, PTL

(* A service is restarted, reloaded, stopped or started only when that was  *)
(* asked for (systemd.go:198-222).                                          *)
THEOREM HostOutagesAreAskedFor == Spec => []OutagesAreAskedFor
<1>1. HostInv => OutagesAreAskedFor
  <2> SUFFICES ASSUME HostInv, Type = "Service", stage = "applying", NEW call \in Range(todo)
               PROVE  /\ call \in {"restart", "reload"} => call = trigger /\ declared.state = "running"
                      /\ call = "stop" => declared.state = "stopped"
                      /\ call = "start" => ~alone \/ ~Service!Running(before.unit)
    BY DEF OutagesAreAskedFor
  <2>1. UnitPending(todo)
    BY DEF HostInv, OnPlan, Pending
  <2>2. CASE todo \in {<<>>, <<"refuse">>, <<"enable">>, <<"disable">>}
    BY <2>2 DEF Range
  <2>3. CASE \E c \in Switching : Asked(c) /\ (todo = <<c>> \/ \E e \in Enabling : todo = <<e, c>>)
    <3>1. PICK c \in Switching : Asked(c) /\ (todo = <<c>> \/ \E e \in Enabling : todo = <<e, c>>)
      BY <2>3
    <3>2. call = c \/ call \in Enabling
      BY <3>1 DEF Range
    <3> QED
      BY <3>1, <3>2 DEF Asked, Enabling
  <2> QED
    BY <2>1, <2>2, <2>3 DEF UnitPending
<1> QED
  BY <1>1, HostInvariant, PTL
=============================================================================
