----------------------------- MODULE MCCompile -----------------------------
(***************************************************************************)
(* Repositories for TLC.  The fleet root is <<1>>; its Fleet document is   *)
(* <<1, 9>> and its Host documents are <<1, 8>>.  Layer n of a fleet is in *)
(* the directory <<1, n>> unless the family is about directories.          *)
(***************************************************************************)
EXTENDS Affected

\* References: three files, one that is never declared, and one of most other types.
MCTypeOf == <<"File", "File", "File", "File", "Symlink", "Package", "Service", "Directory", "Repository", "Service">>
MCNameOf == <<"a", "b", "c", "d", "e", "datum", "datum.service", "f", "g", "web">>
MCRefs == DOMAIN MCTypeOf
MCTypes == <<"Directory", "File", "Group", "Package", "Repository", "Service", "Symlink", "Sysctl", "User">>

Real(names) == [absolute |-> TRUE, parts |-> names, means |-> names]
Spelled(parts, means) == [absolute |-> TRUE, parts |-> parts, means |-> means]
MCPath ==
  "/one" :> Real(<<"one">>) @@ "/two" :> Real(<<"two">>) @@ "/four" :> Real(<<"four">>) @@ "/keys" :> Real(<<"keys">>) @@
  "/etc" :> Real(<<"etc">>) @@ "/etc/datum/agent.yaml" :> Real(<<"etc", "datum", "agent.yaml">>) @@
  "/etc/datum/more" :> Real(<<"etc", "datum", "more">>) @@ "/etc/datumish" :> Real(<<"etc", "datumish">>) @@
  "/opt/datum" :> Real(<<"opt", "datum">>) @@ "/opt/datum/x" :> Real(<<"opt", "datum", "x">>) @@
  "/opt/other" :> Real(<<"opt", "other">>) @@ "/bin/datum" :> Real(<<"bin", "datum">>) @@
  "/var/datum" :> Real(<<"var", "datum">>) @@ "/var/datum/reports" :> Real(<<"var", "datum", "reports">>) @@
  "/one/../etc/./datum" :> Spelled(<<"one", "..", "etc", ".", "datum">>, <<"etc", "datum">>) @@
  "/../var//datum/" :> Spelled(<<"..", "var", "", "datum", "">>, <<"var", "datum">>) @@
  "/etc/datum/../other" :> Spelled(<<"etc", "datum", "..", "other">>, <<"etc", "other">>) @@
  "/" :> Real(<<>>) @@
  "../var/datum" :> [absolute |-> FALSE, parts |-> <<"..", "var", "datum">>, means |-> <<>>]
MCDefaultConfig == "/etc/datum/agent.yaml"
MCBinaries == {"/bin/datum"}

NoTargetValue == <<"", "">>

-----------------------------------------------------------------------------
(* Documents.                                                              *)

MCLabelOf == "$site" :> "site" @@ "$rack" :> "rack" @@ "$home" :> "home"
MCHostLabel == "datum.name"
MCMe == 1
MCNoHost == [name |-> 0, labels |-> <<>>, file |-> <<>>]

Everyone == [labels |-> <<>>, oneOf |-> <<>>, noneOf |-> <<>>, has |-> {}, missing |-> {}]
Only(name) == [Everyone EXCEPT !.labels = MCHostLabel :> name]
HostDocument(name, role) ==
  [file |-> <<1, 8>>, name |-> name, labels |-> "site" :> "x" @@ "role" :> role @@ "home" :> "/etc/datum/agent.yaml"]

NoDeps == [k \in EdgeKinds |-> <<>>]
Listed(refs) == Discovery!InOrder(refs, <)
Of(desired) == [desired |-> desired, deps |-> NoDeps]
At(path) == Of("path" :> path)
With(resource, kind, refs) == [resource EXCEPT !.deps[kind] = refs]
And(resource, field, value) == [resource EXCEPT !.desired = (field :> value) @@ @]

\* The documents of one directory, and the repository of several.
Layer(d, precedence, match, resources) ==
  [layers    |-> {[file |-> <<1, d, 0>>, name |-> d, precedence |-> precedence, match |-> match]},
   resources |-> {[file |-> <<1, d, r>>, ref |-> r, desired |-> resources[r].desired, deps |-> resources[r].deps] :
                    r \in DOMAIN resources}]
Repository(parts) ==
  [fleets |-> {<<1, 9>>}, exclude |-> {}, broken |-> {}, hosts |-> {HostDocument(1, "web")},
   layers |-> UNION {p.layers : p \in parts}, resources |-> UNION {p.resources : p \in parts}]

-----------------------------------------------------------------------------
(* One layer, three resources: every choice of requires lists, the         *)
(* resource itself and a reference to nothing included.                    *)

Held == 1..3
Flaws == {"sound", "unnamed", "shared", "twofold"}
PathOf(r, flaw) == IF r = 2 /\ flaw = "shared" THEN "/one" ELSE <<"/one", "/two", "/four">>[r]

Single(requires, restarts, reloads, flaw) ==
  Repository({Layer(1, 0, Everyone,
    [r \in Held |->
      [desired |-> IF r = 2 /\ flaw = "unnamed" THEN <<>> ELSE "path" :> PathOf(r, flaw),
       deps    |-> [requires  |-> Listed(requires[r]),
                    restartOn |-> IF r = 3 THEN Listed(restarts) ELSE <<>>,
                    reloadOn  |-> IF r = 1 \/ (r = 3 /\ flaw = "twofold") THEN Listed(reloads) ELSE <<>>]]])})

OneLayer ==
  {Single(requires, restarts, reloads, "sound") :
     requires \in {q \in [Held -> SUBSET Held] : Cardinality({r \in Held : r \in q[r]}) < 2}
                   \cup [Held -> SUBSET {2, 4}],
     restarts \in {{}, {1}, {1, 2}}, reloads \in {{}, {3}}}
  \cup
  {Single(requires, {1}, {2}, flaw) : requires \in [Held -> {{}, {1}}], flaw \in Flaws}

-----------------------------------------------------------------------------
(* Three layers, one resource: who says what, at which precedence.         *)

Precedences == {<<10, 20, 30>>, <<10, 10, 20>>, <<10, 20, 20>>, <<20, 10, 10>>, <<20, 10, 20>>, <<10, 10, 10>>}

Threes(choices) ==
  {Repository({Layer(d, ps[d], Everyone, 1 :> choice[d]) : d \in 1..3}) :
     ps \in Precedences, choice \in [1..3 -> choices]}

Modes == {And(At("/one"), "mode", m) : m \in {"x", "y", "$site", "$rack"}} \cup {At("/one")}
Sources == {And(At("/one"), "source", f) : f \in {"f", "g"}} \cup
           {And(At("/one"), "content", c) : c \in {"c", ""}} \cup {At("/one")}
Deps == {At("/one"), With(At("/one"), "requires", <<2>>), With(At("/one"), "requires", <<3, 2>>),
         With(At("/one"), "restartOn", <<2>>), With(At("/one"), "reloadOn", <<3>>)}

(* Three layers, two of which may not match.                               *)
Matchers == {Everyone,
             [Everyone EXCEPT !.labels = "role" :> "web"], [Everyone EXCEPT !.labels = "role" :> "db"],
             [Everyone EXCEPT !.oneOf = "site" :> {"x", "z"}], [Everyone EXCEPT !.oneOf = "rack" :> {"x"}],
             [Everyone EXCEPT !.noneOf = "site" :> {"x"}], [Everyone EXCEPT !.noneOf = "rack" :> {"x"}],
             [Everyone EXCEPT !.has = {"site"}], [Everyone EXCEPT !.has = {"rack"}],
             [Everyone EXCEPT !.missing = {"site"}], [Everyone EXCEPT !.missing = {"rack"}]}

MatchedOrNot ==
  {Repository({Layer(1, 0, Everyone, 1 :> At("/one")),
               Layer(2, 10, m, 1 :> And(At("/one"), "mode", "x") @@ 2 :> At("/two")),
               Layer(3, p, n, 1 :> With(And(At("/one"), "mode", "y"), "requires", <<2>>))}) :
     p \in {10, 20}, m \in Matchers, n \in Matchers}

-----------------------------------------------------------------------------
(* Directories within each other, some with a Layer document, files that   *)
(* are not the fleet's, and other things a repository can hold.            *)

\* Three documents, in directories of different depth; two say the mode of one file.
InDirectories ==
  {[file |-> <<1, 2, 3, 6>>, ref |-> 1, desired |-> ("path" :> "/one") @@ ("source" :> "f"), deps |-> NoDeps],
   [file |-> <<1, 2, 6>>, ref |-> 1, desired |-> ("path" :> "/one") @@ ("mode" :> "x"), deps |-> NoDeps],
   [file |-> <<1, 4, 6>>, ref |-> 2, desired |-> "path" :> "/two", deps |-> NoDeps]}
Placed(dirs, precedences, matches) ==
  {[file |-> <<1>> \o dir \o <<0>>, name |-> Len(dir) + 1, precedence |-> precedences[Len(dir) + 1],
    match |-> IF Len(dir) \in matches THEN Everyone ELSE Only(7)] : dir \in dirs}

Nested ==
  {[Repository({}) EXCEPT !.layers = Placed(dirs, ps, matches), !.resources = InDirectories, !.exclude = exclude] :
     dirs \in SUBSET {<<>>, <<2>>, <<2, 3>>}, ps \in {<<10, 20, 30>>, <<20, 10, 10>>},
     matches \in {0..2, 1..2, {0, 2}}, exclude \in {{}, {<<2>>}, {<<2, 3>>}, {<<2, 3, 0>>}, {<<4, 6>>}}}

Outsider == [file |-> <<6>>, ref |-> 1, desired |-> "mode" :> "z", deps |-> NoDeps]
OutsideLayer == [file |-> <<0>>, name |-> 8, precedence |-> 90, match |-> Everyone]
Plain == Repository({Layer(1, 0, Everyone, 1 :> At("/one")), Layer(2, 10, Everyone, 1 :> And(At("/one"), "mode", "x"))})

Oddities ==
  {[Plain EXCEPT !.fleets = fleets, !.broken = broken, !.exclude = exclude] :
     fleets \in {{}, {<<1, 9>>}, {<<1, 9>>, <<1, 2, 9>>}, {<<1, 2, 9>>}, {<<9>>}},
     broken \in {{}, {<<1, 2, 5>>}, {<<3>>}}, exclude \in {{}, {<<2>>}, {<<1, 2>>}}}
  \cup
  {[Plain EXCEPT !.resources = @ \cup {Outsider}, !.layers = @ \cup {OutsideLayer}],
   \* two Layer documents in one directory, two directories with one layer name
   [Plain EXCEPT !.layers = @ \cup {[OutsideLayer EXCEPT !.file = <<1, 2, 1>>]}],
   [Plain EXCEPT !.layers = @ \cup {[OutsideLayer EXCEPT !.file = <<1, 3, 0>>, !.name = 2]}],
   [Plain EXCEPT !.layers = @ \cup {[OutsideLayer EXCEPT !.file = <<1, 3, 0>>, !.name = 2, !.match = Only(7)],
                                    [OutsideLayer EXCEPT !.file = <<1, 4, 0>>]},
                 !.resources = @ \cup {[Outsider EXCEPT !.file = <<1, 3, 6>>, !.ref = 2, !.desired = "path" :> "/two"]}],
   \* one resource twice in one layer, agreeing or not
   [Plain EXCEPT !.resources = @ \cup {[Outsider EXCEPT !.file = <<1, 2, 6>>]}],
   [Plain EXCEPT !.resources = @ \cup {[Outsider EXCEPT !.file = <<1, 2, 6>>, !.desired = "mode" :> "x"]}],
   \* and one of the two repeats what the layer below says
   [Repository({Layer(1, 0, Everyone, 1 :> And(At("/one"), "source", "f")),
                Layer(2, 10, Everyone, 1 :> And(At("/one"), "source", "f")),
                Layer(3, 20, Everyone, 1 :> And(At("/one"), "source", "g"))})
      EXCEPT !.resources = @ \cup {[file |-> <<1, 2, 6>>, ref |-> 1, desired |-> "source" :> "g", deps |-> NoDeps]}],
   \* the host not declared, or declared twice
   [Plain EXCEPT !.hosts = {HostDocument(2, "web")}],
   [Plain EXCEPT !.hosts = @ \cup {[HostDocument(1, "db") EXCEPT !.file = <<1, 7>>]}]}

-----------------------------------------------------------------------------
(* What may not be targeted, whoever contributes which part of it.         *)

Cfg == [self |-> "/opt/datum", signers |-> "/keys",
        credential |-> "", state |-> "/var/datum", secrets |-> ""]
Debian == [candidates |-> Selection!Candidates, has |-> {"shadow", "proc", "systemd"},
           release |-> [id |-> "debian", like |-> <<>>], cfg |-> Cfg]
Cfgs == {Cfg, [Cfg EXCEPT !.signers = "", !.secrets = "/two", !.state = "/one/../etc/./datum"],
         [Cfg EXCEPT !.state = "../var/datum", !.credential = "/opt/datum/x"]}

Spellings == DOMAIN MCPath \cup {"$home", "$rack", ""}
Aimed ==
  {Repository({Layer(1, 0, Everyone, r :> At(v)), Layer(2, 10, Everyone, (r :> Of(more)) @@ (1 :> At("/four")))}) :
     r \in {2, 8}, v \in Spellings, more \in {<<>>, "path" :> "/one"}}
  \cup
  {Repository({Layer(1, 0, Everyone, 5 :> And(At("/four"), "target", v)), Layer(2, 10, Everyone, 5 :> Of(more))}) :
     v \in Spellings, more \in {<<>>, "target" :> "/one", "path" :> "/two", "state" :> "absent"}}
  \cup
  {Repository({Layer(1, 0, Everyone, r :> Of("state" :> "present" @@ "enabled" :> "true"))}) : r \in {6, 7, 10}}
  \cup
  {Repository({Layer(1, 0, Everyone, (9 :> Of("id" :> "g" @@ "url" :> "u" @@ more)) @@ (6 :> Of("state" :> state)))}) :
     more \in {<<>>, "unsigned" :> "true", "signingKey" :> "k", "unsigned" :> "true" @@ "signingKey" :> "k"},
     state \in {"absent", ""}}

-----------------------------------------------------------------------------
(* Machines: distributions, what they lack, and providers nobody wrote yet.*)

Releases ==
  {[id |-> "debian", like |-> <<>>], [id |-> "ubuntu", like |-> <<"debian">>],
   [id |-> "pop", like |-> <<"ubuntu", "debian">>], [id |-> "rocky", like |-> <<"rhel", "centos", "fedora">>],
   [id |-> "fedora", like |-> <<>>], [id |-> "alpine", like |-> <<>>], [like |-> <<>>], [like |-> <<"fedora">>]}

Another(name, types, claims, needs) == [name |-> name, types |-> types, claims |-> claims, needs |-> needs]
Additions ==
  {{}, {Another("ubuntuish", {"Package", "Repository"}, {"ubuntu"}, "nothing")},
   {Another("debianish", {"Package", "Repository"}, {"debian"}, "nothing")},
   {Another("rhelish", {"Package", "Repository"}, {"rhel"}, "proc")},
   {Another("anywhere", {"Package", "Repository"}, {}, "nothing")},
   {Another("openrc", {"Service"}, {}, "openrc")}}

Machines ==
  {[candidates |-> (Selection!Candidates \ dropped) \cup more, has |-> has, release |-> release, cfg |-> Cfg] :
     more \in Additions, release \in Releases,
     dropped \in {{}, {c \in Selection!Candidates : c.name = "dnf"}},
     has \in {{"shadow", "proc", "systemd"}, {"openrc"}, {"proc", "systemd", "openrc"}}}

-----------------------------------------------------------------------------
(* Revisions of one fleet with three hosts.                                *)

Hosts == {HostDocument(1, "web"), HostDocument(2, "db"), [HostDocument(3, "db") EXCEPT !.labels = @ @@ "rack" :> "y"]}
Web == [Everyone EXCEPT !.labels = "role" :> "web"]
Base == {Layer(1, 0, Everyone, (1 :> With(At("/one"), "requires", <<2, 3>>)) @@ (2 :> At("/two")) @@ (3 :> At("/four")))}
Revisions ==
  {[Repository(parts) EXCEPT !.hosts = hosts] : hosts \in {Hosts}, parts \in
     {Base,
      Base \cup {Layer(2, 10, Web, 1 :> And(At("/one"), "mode", "x"))},
      Base \cup {Layer(2, 20, Web, 1 :> And(At("/one"), "mode", "x"))},
      Base \cup {Layer(2, 10, Web, 1 :> And(At("/one"), "mode", "y"))},
      Base \cup {Layer(2, 10, Web, 1 :> And(At("/one"), "mode", "$rack"))},
      Base \cup {Layer(2, 10, [Everyone EXCEPT !.has = {"rack"}], 1 :> And(At("/one"), "mode", "$rack"))},
      Base \cup {Layer(2, 10, Web, 1 :> With(At("/one"), "requires", <<3>>))},
      Base \cup {Layer(2, 10, Web, 1 :> With(Of(<<>>), "restartOn", <<3>>))},
      {Layer(1, 0, Everyone, (1 :> With(At("/one"), "requires", <<3, 2>>)) @@ (2 :> At("/two")) @@ (3 :> At("/four")))},
      {Layer(1, 0, Everyone, (1 :> With(At("/one"), "requires", <<3>>)) @@ (2 :> At("/two"))),
       Layer(3, 5, Everyone, (1 :> With(Of(<<>>), "requires", <<2>>)) @@ (3 :> At("/four")))},
      {Layer(1, 0, Everyone, (1 :> With(At("/one"), "requires", <<3>>)) @@ (2 :> At("/two"))),
       Layer(3, 5, Web, (1 :> With(Of(<<>>), "requires", <<2>>)) @@ (3 :> At("/four")))},
      {Layer(1, 0, Everyone, 2 :> At("/two")), Layer(4, 0, Web, 3 :> At("/four"))}}}
  \cup {[Repository(Base) EXCEPT !.hosts = {h \in Hosts : h.name # n}] : n \in 1..3}
  \cup {[Repository(Base) EXCEPT !.hosts = {}], [Repository(Base) EXCEPT !.exclude = {<<1>>}],
        [Repository(Base) EXCEPT !.fleets = {}]}

-----------------------------------------------------------------------------

Pass(repo0, machine0) == [purpose |-> "pass", repo |-> repo0, later |-> repo0, machine |-> machine0]

MCCases ==
  {Pass(r, Debian) : r \in OneLayer \cup Threes(Modes) \cup Threes(Sources) \cup Threes(Deps)
                          \cup MatchedOrNot \cup Nested \cup Oddities}
  \cup {Pass(r, [Debian EXCEPT !.cfg = cfg]) : r \in Aimed, cfg \in Cfgs}
  \cup {Pass(Plain, m) : m \in Machines}
  \cup {[purpose |-> "affected", repo |-> r, later |-> s, machine |-> Debian] : r \in Revisions, s \in Revisions}
=============================================================================
