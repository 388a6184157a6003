------------------------------- MODULE History -------------------------------
(***************************************************************************)
(* The commits of a repository, as git's ancestry question sees them.      *)
(***************************************************************************)

CONSTANTS
  Commits,
  Descends  \* <<a, c>>: a is reachable from c; a commit is its own ancestor

ASSUME HistoryAssumption ==
  /\ Descends \subseteq Commits \X Commits
  /\ \A c \in Commits : <<c, c>> \in Descends
  /\ \A a, b, c \in Commits : <<a, b>> \in Descends /\ <<b, c>> \in Descends => <<a, c>> \in Descends
  /\ \A a, b \in Commits : <<a, b>> \in Descends /\ <<b, a>> \in Descends => a = b

IsAncestor(a, c) == <<a, c>> \in Descends

\* What a clone that holds the commits in S holds with them.
Reachable(S) == {a \in Commits : \E c \in S : IsAncestor(a, c)}

\* SelectTag: the candidate that descends from every other one, if there is
\* one.  Two tags on one commit are one candidate.
NewestUnmerged(S) == {c \in S : \A d \in S : IsAncestor(c, d) => d = c}  \* defect: ambiguity is not seen
Newest(S) == {c \in S : \A d \in S : IsAncestor(d, c)}
=============================================================================
