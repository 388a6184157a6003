-------------------------------- MODULE Posix --------------------------------
(***************************************************************************)
(* Provider posix-file: File, Directory and Symlink at one path.           *)
(*                                                                         *)
(* host.node is what is at the path and host.staged what Apply has put     *)
(* beside it.  Owner stands for owner and group, data for a file's content,*)
(* what a link points at, or whether a directory has entries.  A mode is   *)
(* its bits; as text it also has a width, since "0644" is not "644".       *)
(***************************************************************************)
EXTENDS Provider, Sequences

Nothing == [kind |-> "nothing", owner |-> "root", mode |-> 0, data |-> ""]
Node(kind, owner, mode, data) == [kind |-> kind, owner |-> owner, mode |-> mode, data |-> data]

At(node) == [node |-> node, staged |-> Nothing]

\* 0o644 and its kind.
Octal(special, user, group, others) == special * 512 + user * 64 + group * 8 + others

ModeText(bits) ==
  [width |-> 1 + (IF bits < 8 THEN 1 ELSE IF bits < 64 THEN 2 ELSE IF bits < 512 THEN 3 ELSE 4),
   bits  |-> bits]

\* fchmod through Go's FileMode, which keeps setuid, setgid and sticky elsewhere.
Perm(text) == text.bits % 512

-----------------------------------------------------------------------------

Observe(type, d, host) ==
  LET node == host.node
      names == {"owner"} \cup (IF type = "Symlink" THEN {"target"} ELSE {"mode"})
                         \cup (IF "content" \in DOMAIN d THEN {"content"} ELSE {})
      seen == IF node.kind # type THEN NotThere
              ELSE There([f \in names |-> CASE f = "owner" -> node.owner
                                            [] f = "mode" -> ModeText(node.mode)
                                            [] OTHER -> node.data])
  IN  IF "secretRef" \in DOMAIN d THEN [seen EXCEPT !.unobservable = {"content"}] ELSE seen

-----------------------------------------------------------------------------
(* Apply, as the calls it makes one after another.                         *)

FileCalls(d) ==
  IF "secretRef" \in DOMAIN d THEN <<"refuse">>
  ELSE IF "owner" \in DOMAIN d THEN <<"create", "chown", "chmod", "fill", "rename">>
  ELSE <<"create", "chmod", "fill", "rename">>

DirectoryCallsOpen(d) ==                             \* defect: opened up before it is handed over
  IF "owner" \in DOMAIN d THEN <<"mkdir", "chmod", "chown">> ELSE <<"mkdir", "chmod">>
DirectoryCalls(d) ==
  IF "owner" \in DOMAIN d THEN <<"mkdir", "chown", "chmod">> ELSE <<"mkdir", "chmod">>

Calls(type, d, host, action, trigger) ==
  IF action = "remove" THEN <<"unlink">>
  ELSE IF type = "File" THEN FileCalls(d)
  ELSE IF type = "Directory" THEN DirectoryCalls(d)
  ELSE <<"symlink", "rename">>

\* What a call that succeeds leaves; none if it cannot succeed.
Stage(host, node) == {[host EXCEPT !.staged = node]}
Place(host, node) == {[host EXCEPT !.node = node]}

Rename(host) ==
  IF host.node.kind = "Directory" THEN {} ELSE {At(host.staged)}

Mkdir(host) ==
  IF host.node.kind = "nothing" THEN Place(host, Node("Directory", "root", Octal(0, 7, 0, 0), "empty"))
  ELSE IF host.node.kind = "Directory" THEN {host} ELSE {}

Unlink(type, host) ==
  IF host.node.kind = "nothing" THEN {host}
  ELSE IF (type = "Directory") # (host.node.kind = "Directory") \/ host.node.data = "full" THEN {}
  ELSE Place(host, Nothing)

Mode(type, d) == IF "mode" \in DOMAIN d THEN Perm(d.mode)
                 ELSE IF type = "File" THEN Octal(0, 6, 4, 4) ELSE Octal(0, 7, 5, 5)

\* Metadata only: the content is read, through a link too, before the file is created.
Kept(host) == CASE host.node.kind = "nothing" -> ""
                [] host.node.kind = "Symlink" -> "elsewhere"
                [] OTHER -> host.node.data

Effect(type, d, host, call) ==
  LET new == IF type = "File" THEN host.staged ELSE host.node
      Set(node) == IF type = "File" THEN Stage(host, node)
                   ELSE IF host.node.kind = type THEN Place(host, node) ELSE {host}
  IN  CASE call = "refuse"  -> {}
        [] call = "create"  -> IF host.node.kind = "Directory" /\ "content" \notin DOMAIN d THEN {}
                               ELSE Stage(host, Node("File", "root", Octal(0, 6, 0, 0), Kept(host)))
        [] call = "chown"   -> Set([new EXCEPT !.owner = d.owner])
        [] call = "chmod"   -> Set([new EXCEPT !.mode = Mode(type, d)])
        [] call = "fill"    -> Set([new EXCEPT !.data = Declared(d, "content", @)])
        [] call = "mkdir"   -> Mkdir(host)
        [] call = "symlink" -> Stage(host, Node("Symlink", "root", Octal(0, 7, 7, 7), d.target))
        [] call = "rename"  -> Rename(host)
        [] call = "unlink"  -> Unlink(type, host)

\* A failed call removes what was staged.
CleanupNever(host) == host                            \* defect: traces of a failure stay
Cleanup(host) == [host EXCEPT !.staged = Nothing]
=============================================================================
