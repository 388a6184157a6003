------------------------------- MODULE Anchor -------------------------------
(***************************************************************************)
(* What desired state may not target (internal/anchor/anchor.go): the      *)
(* files and directories of the agent's own configuration, its package and *)
(* its unit.  A path is read as [absolute, parts], parts being its names   *)
(* from the root; a value that is none, as "" for a setting that is not    *)
(* made, is not among them.                                                *)
(***************************************************************************)
EXTENDS Sequences, SequencesExt

CONSTANTS
  Path,           \* how the values that are paths read
  DefaultConfig,  \* where the agent's configuration usually is
  Binaries        \* and its binary

\* Lexical: what is on the host is not looked at here.
Clean(parts) ==
  FoldLeft(LAMBDA sofar, name : CASE name = ".." -> IF sofar = <<>> THEN <<>> ELSE Front(sofar)
                                  [] name \in {".", ""} -> sofar
                                  [] OTHER -> Append(sofar, name), <<>>, parts)

\* A relative path is no prefix of an absolute one and the other way round.
Absolute(v) == v \in DOMAIN Path /\ Path[v].absolute
Cleaned(values) == {Clean(Path[v].parts) : v \in {v \in values : Absolute(v)}}

\* For a host's configuration.  That file itself is protected at its usual place only.
For(cfg) ==
  [files   |-> Cleaned(Binaries \cup {DefaultConfig, cfg.self, cfg.signers, cfg.credential}),
   dirs    |-> {Front(Clean(Path[DefaultConfig].parts))} \cup Cleaned({cfg.state, cfg.secrets}),
   package |-> "datum",
   unit    |-> {"datum", "datum.service"}]

WithinIt(parent, child) == parent = child         \* defect: only the thing itself
Within(parent, child) == IsPrefix(parent, child)

\* A path that is, contains or, for a directory, is inside something protected.
CheckPath(set, path) ==
  /\ Absolute(path)
  /\ LET clean == Clean(Path[path].parts)
     IN  \/ \E file \in set.files : Within(clean, file)
         \/ \E dir \in set.dirs : Within(dir, clean) \/ Within(clean, dir)

PathTypes == {"File", "Directory", "Symlink"}

\* Whether a resource is refused.  A Symlink is refused for where it points as well.
Check(set, type, target, desired) ==
  \/ type \in PathTypes /\ CheckPath(set, target)
  \/ type = "Symlink" /\ "target" \in DOMAIN desired /\ CheckPath(set, desired["target"])
  \/ type = "Package" /\ target = set.package
  \/ type = "Service" /\ target \in set.unit
=============================================================================
