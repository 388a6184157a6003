------------------------------- MODULE MCHost -------------------------------
(***************************************************************************)
(* One world or two for each type of resource: declarations a repository   *)
(* may make one after another, and targets a host may have.                *)
(***************************************************************************)
EXTENDS Host, TLC

MCVersions == {1, 2, 3}

World(type, declarations, hosts) == [type |-> type, declarations |-> declarations, hosts |-> hosts]

Text(width, bits) == [width |-> width, bits |-> bits]
O640 == File!Octal(0, 6, 4, 0)
O755 == File!Octal(0, 7, 5, 5)

AtPath(nodes) == {File!At(n) : n \in nodes \cup {File!Nothing}}

TheFile == File!Node("File", "app", O640, "old")
TheFolder == File!Node("Directory", "app", O755, "full")
TheLink == File!Node("Symlink", "root", File!Octal(0, 7, 7, 7), "there")

Files == World("File",
  {[path |-> "p", content |-> "new", owner |-> "app", mode |-> Text(4, O640)],
   [path |-> "p", mode |-> Text(4, O755)],
   [path |-> "p", mode |-> Text(4, File!Octal(4, 7, 5, 5)), allowPrivileged |-> "true"],
   [path |-> "p", content |-> "new", sensitive |-> "true", mode |-> Text(3, O755)],
   [path |-> "p", secretRef |-> "s", owner |-> "app"],
   [path |-> "p", state |-> "absent"]},
  AtPath({TheFile, TheFolder, TheLink, [TheFile EXCEPT !.owner = "root", !.data = "new"]}))

Directories == World("Directory",
  {[path |-> "p", owner |-> "app", mode |-> Text(4, O755)], [path |-> "p", owner |-> "root"],
   [path |-> "p", mode |-> Text(4, O640)], [path |-> "p", state |-> "absent"]},
  AtPath({TheFile, TheFolder, [TheFolder EXCEPT !.data = "empty", !.mode = O640]}))

Symlinks == World("Symlink",
  {[path |-> "p", target |-> "here"], [path |-> "p", target |-> "there", owner |-> "app"],
   [path |-> "p", state |-> "absent", target |-> "here"]},
  AtPath({TheLink, TheFile, [TheFolder EXCEPT !.data = "empty"]}))

Users == World("User",
  {[state |-> "present", uid |-> 7, groups |-> {"a"}, primaryGroup |-> "b"],
   [state |-> "present", uid |-> 8], [state |-> "present", groups |-> {"a", "own"}, shell |-> "sh"],
   [state |-> "absent"]},
  {[account |-> a] : a \in {Account!NoAccount, Account!Entry(7, "b", {"b", "c"}, "sh"),
                            Account!Entry(9, "own", {"a"}, "ksh")}})

Groups == World("Group",
  {[state |-> "present", gid |-> 7], [state |-> "present"], [state |-> "absent"]},
  {[account |-> a] : a \in {Account!NoAccount, Account!Entry(7, "", {}, ""), Account!Entry(9, "", {}, "")}})

Services == World("Service",
  {[state |-> s, enabled |-> e] : s \in {"running", "stopped"}, e \in {"true", "false"}},
  {[unit |-> Service!Unit("loaded", a, f)] : a \in {"active", "inactive"}, f \in {"enabled", "enabled-runtime", "disabled", "static"}}
    \cup {[unit |-> Service!Unit("masked", "failed", "masked")], [unit |-> Service!Unit("not-found", "inactive", "")]})

Sysctls == World("Sysctl",
  {[value |-> Sysctl!Text("1", TRUE)], [value |-> Sysctl!Text("2 3", TRUE)], [value |-> Sysctl!Text("2 3", FALSE)],
   [value |-> Sysctl!Text("1", TRUE), state |-> "absent"]},
  {Sysctl!Parameter(r, s) : r \in {Sysctl!Text("0", TRUE), Sysctl!Text("2 3", TRUE)},
                            s \in {Sysctl!Unset, Sysctl!Text("1", TRUE)}}
    \cup {Sysctl!Parameter(Sysctl!Unset, s) : s \in {Sysctl!Unset, Sysctl!Text("1", TRUE)}})

PackagesOf(manager) == World("Package",
  {[state |-> "present"], [state |-> "present", version |-> 2], [state |-> "present", version |-> 4],
   [state |-> "absent"]},
  {Package!Package(manager, "installed", v) : v \in {1, 3}} \cup {Package!Package(manager, "gone", 0)})

Found(manager, source) ==
  {Source!Repository(manager, Source!NoSource, k) : k \in {"", "k1"}}
    \cup {Source!Repository(manager, [url |-> "u", enabled |-> "true", signed |-> TRUE] @@ source, "k2")}

Repositories == World("Repository",
  {[id |-> "r", url |-> "u", unsigned |-> "true"], [id |-> "r", url |-> "u", signingKey |-> "k1"],
   [id |-> "r", url |-> "u", signingKey |-> "k2", suite |-> "s1", components |-> <<1, 2>>],
   [id |-> "r", url |-> "v", signingKey |-> "k2", suite |-> "s2", components |-> <<2, 1>>, enabled |-> "false"],
   [id |-> "r", url |-> "u", signingKey |-> "k2", components |-> <<>>],
   [id |-> "r", url |-> "u", signingKey |-> "k2", suite |-> "s2"], [id |-> "r", state |-> "absent"],
   [id |-> "r", url |-> "u", signingKey |-> "k2", priority |-> "10"]},
  Found("apt", Source!NoSource))

DnfRepositories == World("Repository",
  {[id |-> "r", url |-> "u", unsigned |-> "true", priority |-> "10"],
   [id |-> "r", url |-> "v", signingKey |-> "k1", enabled |-> "false"],
   [id |-> "r", url |-> "u", signingKey |-> "k2", priority |-> "20"],
   [id |-> "r", url |-> "u", unsigned |-> "true", suite |-> "s1"], [id |-> "r", state |-> "absent"]},
  Found("dnf", [Source!NoSource EXCEPT !.priority = "20"]))

MCWorlds == [file |-> Files, directory |-> Directories, symlink |-> Symlinks, user |-> Users,
             group |-> Groups, service |-> Services, sysctl |-> Sysctls, apt |-> PackagesOf("apt"),
             dnf |-> PackagesOf("dnf"), repository |-> Repositories, dnfRepository |-> DnfRepositories]
=============================================================================
