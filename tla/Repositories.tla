---------------------------- MODULE Repositories ----------------------------
(***************************************************************************)
(* Providers apt and dnf, serving Repository: a package source is two      *)
(* files, the source itself and the key packages from it are signed by.    *)
(* A source without a key is trusted unsigned.  A stanza of apt has suites *)
(* and components, a section of dnf a priority.                            *)
(***************************************************************************)
EXTENDS Provider, Sequences

NoSource == [url |-> "", suite |-> "", components |-> <<>>, priority |-> "", enabled |-> "", signed |-> FALSE]
Repository(manager, source, key) == [manager |-> manager, source |-> source, key |-> key]

\* What the manager's files have no place for is refused, not dropped: the
\* target is neither observed nor changed.
RefusedByApt(d) == Declared(d, "priority", "") # ""
RefusedByDnf(d) == Declared(d, "suite", "") # "" \/ Declared(d, "components", <<>>) # <<>>
Refused(d, host) == IF host.manager = "apt" THEN RefusedByApt(d) ELSE RefusedByDnf(d)

\* Components are sorted when they are read back, here by their numbers.
SortedPair(s) == IF Len(s) = 2 /\ s[1] > s[2] THEN <<s[2], s[1]>> ELSE s

\* The declaration with what is implied; the key stands for its digest.
Restated(d) ==
  IF "enabled" \in DOMAIN d \/ ~Present(d) THEN d
  ELSE [f \in DOMAIN d \cup {"enabled"} |-> Declared(d, f, "true")]

Stated(source, optional) ==
  {"url", "enabled"} \cup {f \in optional : source[f] # NoSource[f]}

ReadByApt(source) ==
  [f \in Stated(source, {"suite", "components"}) |->
     IF f = "components" THEN SortedPair(source.components) ELSE source[f]]
ReadByDnf(source) == [f \in Stated(source, {"priority"}) |-> source[f]]

\* A key that has gone is drift, not a missing source.
Observe(type, d, host) ==
  LET read == IF host.manager = "apt" THEN ReadByApt(host.source) ELSE ReadByDnf(host.source)
      fields == [f \in DOMAIN read \cup {"signingKey"} |-> IF f = "signingKey" THEN host.key ELSE read[f]]
      seen == IF host.source = NoSource THEN NotThere ELSE There(fields)
  IN  [seen EXCEPT !.desired = Restated(d)]

-----------------------------------------------------------------------------

\* Each file is written beside its path and renamed into place; the key first.
WriteCalls(d) ==
  (IF "signingKey" \in DOMAIN d THEN <<"key">> ELSE <<>>) \o <<"source">>

Calls(type, d, host, action, trigger) ==
  IF action = "remove" THEN <<"unlist", "unkey">> ELSE WriteCalls(d)

Stanza(d) == [url        |-> d.url,
              suite      |-> Declared(d, "suite", ""),
              components |-> Declared(d, "components", <<>>),
              priority   |-> "",
              enabled    |-> Declared(d, "enabled", "true"),
              signed     |-> "signingKey" \in DOMAIN d]

Section(d) == [url        |-> d.url,
               suite      |-> "",
               components |-> <<>>,
               priority   |-> Declared(d, "priority", ""),
               enabled    |-> Declared(d, "enabled", "true"),
               signed     |-> "signingKey" \in DOMAIN d]

Effect(type, d, host, call) ==
  {CASE call = "key"    -> [host EXCEPT !.key = d.signingKey]
     [] call = "source" -> [host EXCEPT !.source = IF host.manager = "apt" THEN Stanza(d) ELSE Section(d)]
     [] call = "unlist" -> [host EXCEPT !.source = NoSource]
     [] call = "unkey"  -> [host EXCEPT !.key = ""]}
=============================================================================
