------------------------------- MODULE Reports -------------------------------
(***************************************************************************)
(* The reports directory: report.Write with its publishing and pruning,    *)
(* next to datum status, which reads the latest without any lock, a wall   *)
(* clock that may be set back, and processes that die in between.          *)
(*                                                                         *)
(* A file is named by the time its pass finished and a sequence number for *)
(* equal times, and the directory is only ever ordered by those names.     *)
(***************************************************************************)
EXTENDS Integers, FiniteSets

CONSTANTS
  Writers, Readers,
  Keep,        \* report.Keep
  MaxReports,  \* bound on passes that end
  MaxTime,     \* bound on the clock
  MaxBack,     \* bound on how often the clock is set back
  MaxCrashes   \* bound on writers that fail or die

ASSUME KeepAssumption == Keep \in Nat \ {0}
ASSUME BoundsAssumption == {MaxReports, MaxTime, MaxBack, MaxCrashes} \subseteq Nat

VARIABLES
  clock,    \* the wall clock
  files,    \* the published reports
  temps,    \* reports whose temporary file exists
  doing,    \* what each writer does: its stage, report, name and names to remove
  reading,  \* what each reader does: its stage, the name it chose, what it returned
  backs, crashes

(* History: no guard of the code reads these.                              *)
VARIABLES
  begun,      \* passes that have ended and began to write
  ended,      \* reports whose Write returned
  published   \* every report that ever got a name

vars == <<clock, files, temps, doing, reading, backs, crashes, begun, ended, published>>

\* id numbers the passes by when they ended; after is what had been written then.
File == [id : Nat, at : Nat, seq : Nat, after : SUBSET Nat]
NoFile == [id |-> 0, at |-> 0, seq |-> 0, after |-> {}]

Idle == [stage |-> "idle", file |-> NoFile, doomed |-> {}]
AtRest == [stage |-> "idle", file |-> NoFile, before |-> {}, since |-> {}]

Init ==
  /\ clock = 0 /\ files = {} /\ temps = {}
  /\ doing = [w \in Writers |-> Idle]
  /\ reading = [r \in Readers |-> AtRest]
  /\ backs = 0 /\ crashes = 0
  /\ begun = 0 /\ ended = {} /\ published = {}

-----------------------------------------------------------------------------
(* Names.                                                                  *)

SameName(f, g) == f.at = g.at /\ f.seq = g.seq

\* list: names are sorted by time and then by sequence.
OlderByTime(f, g) == f.at < g.at \/ (f.at = g.at /\ f.seq > g.seq)  \* defect: newest sequence first
Older(f, g) == f.at < g.at \/ (f.at = g.at /\ f.seq < g.seq)

\* The newest name there is, as a set of at most one.
Latest == {f \in files : \A g \in files : g = f \/ Older(g, f)}

\* The sequence numbers taken for a time.
Sequences(at) == {f.seq : f \in {g \in files : g.at = at}}

\* writeAtomic starts after the highest sequence there is for this time.
FirstGap(at) ==                                 \* defect: names are reused after pruning
  CHOOSE n \in {0} \cup {m + 1 : m \in Sequences(at)} :
    n \notin Sequences(at) /\ 0..(n - 1) \subseteq Sequences(at)
FirstSequence(at) ==
  CHOOSE n \in {0} \cup {m + 1 : m \in Sequences(at)} : \A m \in Sequences(at) : m < n

\* prune: everything but the newest reports.
ExcessOldestKept == {f \in files : Cardinality({g \in files : Older(g, f)}) >= Keep}  \* defect: wrong end
Excess == {f \in files : Cardinality({g \in files : Older(f, g)}) >= Keep}

-----------------------------------------------------------------------------
(* report.Write.                                                           *)

\* buildReport stamps the time, and Write begins.
Begin(w) ==
  /\ doing[w].stage = "idle" /\ begun < MaxReports
  /\ begun' = begun + 1
  /\ doing' = [doing EXCEPT ![w] =
       [stage |-> "create", doomed |-> {},
        file |-> [id |-> begun + 1, at |-> clock, seq |-> 0, after |-> ended]]]
  /\ UNCHANGED <<clock, files, temps, reading, backs, crashes, ended, published>>

\* The temporary file is created, written and closed.
Create(w) ==
  /\ doing[w].stage = "create"
  /\ temps' = temps \cup {doing[w].file.id}
  /\ doing' = [doing EXCEPT ![w].stage = "list"]
  /\ UNCHANGED <<clock, files, reading, backs, crashes, begun, ended, published>>

List(w) ==
  /\ doing[w].stage = "list"
  /\ doing' = [doing EXCEPT ![w].stage = "link", ![w].file.seq = FirstSequence(doing[w].file.at)]
  /\ UNCHANGED <<clock, files, temps, reading, backs, crashes, begun, ended, published>>

\* os.Link, which fails on a name that is taken: renaming would replace it.
TakenNever(f) == FALSE                          \* defect: an existing report is replaced
Taken(f) == \E g \in files : SameName(f, g)

Link(w) ==
  /\ doing[w].stage = "link"
  /\ LET f == doing[w].file
     IN  \/ /\ ~Taken(f)
            /\ files' = {g \in files : ~SameName(f, g)} \cup {f}
            /\ published' = published \cup {f}
            /\ temps' = temps \ {f.id}
            /\ doing' = [doing EXCEPT ![w].stage = "look"]
         \/ /\ Taken(f)
            /\ doing' = [doing EXCEPT ![w].file.seq = f.seq + 1]
            /\ UNCHANGED <<files, published, temps>>
  /\ UNCHANGED <<clock, reading, backs, crashes, begun, ended>>

\* prune lists the directory, or fails to and leaves it as it is ...
Look(w) ==
  /\ doing[w].stage = "look"
  /\ \/ /\ doing' = [doing EXCEPT ![w].stage = "prune", ![w].doomed = Excess]
        /\ UNCHANGED crashes
     \/ /\ crashes < MaxCrashes
        /\ crashes' = crashes + 1
        /\ doing' = [doing EXCEPT ![w].stage = "prune"]
  /\ UNCHANGED <<clock, files, temps, reading, backs, begun, ended, published>>

\* ... and removes what it found too old, by name, the oldest first.
Prune(w) ==
  /\ doing[w].stage = "prune"
  /\ \/ /\ \E f \in doing[w].doomed :
             /\ \A g \in doing[w].doomed : g = f \/ Older(f, g)
             /\ files' = {g \in files : ~SameName(f, g)}
             /\ doing' = [doing EXCEPT ![w].doomed = @ \ {f}]
        /\ UNCHANGED ended
     \/ /\ doing[w].doomed = {}
        /\ ended' = ended \cup {doing[w].file.id}
        /\ doing' = [doing EXCEPT ![w] = Idle]
        /\ UNCHANGED files
  /\ UNCHANGED <<clock, temps, reading, backs, crashes, begun, published>>

\* Writing fails and the temporary file is removed, or the process dies and
\* leaves it.
Fail(w) ==
  /\ doing[w].stage # "idle" /\ crashes < MaxCrashes
  /\ crashes' = crashes + 1
  /\ doing' = [doing EXCEPT ![w] = Idle]
  /\ temps' \in {temps, temps \ {doing[w].file.id}}
  /\ UNCHANGED <<clock, files, reading, backs, begun, ended, published>>

-----------------------------------------------------------------------------
(* report.Latest, as datum status and a starting agent call it.            *)

Choose(r) ==
  /\ reading[r].stage = "idle"
  /\ \E f \in Latest : reading' = [reading EXCEPT ![r] =
       [stage |-> "chosen", file |-> f, before |-> ended, since |-> {g.id : g \in published}]]
  /\ UNCHANGED <<clock, files, temps, doing, backs, crashes, begun, ended, published>>

Read(r) ==
  /\ reading[r].stage = "chosen"
  /\ LET found == {g \in files : SameName(g, reading[r].file)}
     IN  \/ \E g \in found : reading' = [reading EXCEPT ![r].stage = "read", ![r].file = g]
         \/ found = {} /\ reading' = [reading EXCEPT ![r].stage = "lost"]
  /\ UNCHANGED <<clock, files, temps, doing, backs, crashes, begun, ended, published>>

Again(r) ==
  /\ reading[r].stage \in {"read", "lost"}
  /\ reading' = [reading EXCEPT ![r] = AtRest]
  /\ UNCHANGED <<clock, files, temps, doing, backs, crashes, begun, ended, published>>

-----------------------------------------------------------------------------

TimePasses ==
  /\ clock < MaxTime
  /\ clock' = clock + 1
  /\ UNCHANGED <<files, temps, doing, reading, backs, crashes, begun, ended, published>>

\* Somebody, or the time service, sets the clock back.
SetBack ==
  /\ backs < MaxBack
  /\ backs' = backs + 1
  /\ clock' \in 0..(clock - 1)
  /\ UNCHANGED <<files, temps, doing, reading, crashes, begun, ended, published>>

WriteStep(w) == \/ Begin(w)
                \/ Create(w)
                \/ List(w)
                \/ Link(w)
                \/ Look(w)
                \/ Prune(w)
                \/ Fail(w)

ReadStep(r) == Choose(r) \/ Read(r) \/ Again(r)

Next == \/ \E w \in Writers : WriteStep(w)
        \/ \E r \in Readers : ReadStep(r)
        \/ TimePasses
        \/ SetBack

Spec == Init /\ [][Next]_vars

-----------------------------------------------------------------------------
(* Properties.                                                             *)

SteadyClock == backs = 0

(* A report that was published is never replaced by another one: what it   *)
(* says stays until it is pruned (store.go:132, 174-175).                  *)
NeverReplaced ==
  [][\A f \in files, g \in files' : SameName(f, g) => f = g]_vars

(* Pruning only ever removes a report that as many newer ones outlive as   *)
(* are kept, whoever else prunes, crashes or sets the clock meanwhile      *)
(* (store.go:18-20, 122-130).                                              *)
OnlyOldReportsGo ==
  \A f \in published \ files : Cardinality({g \in files : Older(f, g)}) >= Keep

(* While the clock is steady, a report written after another one had been  *)
(* written sorts after it, pruned gaps and equal times included            *)
(* (store.go:152-153).                                                     *)
NamesFollowPasses ==
  SteadyClock => \A f, g \in files : f.id \in g.after => Older(f, g)

(* While the clock is steady, a reader gets no report that a later pass's  *)
(* had superseded before it looked, and it is refused only when as many    *)
(* were published meanwhile as are kept (store.go:58-68).                  *)
StatusIsCurrent ==
  SteadyClock => \A r \in Readers :
    /\ reading[r].stage = "read" =>
         \A f \in published : f.id \in reading[r].before => reading[r].file.id \notin f.after
    /\ reading[r].stage = "lost" =>
         Cardinality({f.id : f \in published} \ reading[r].since) >= Keep

=============================================================================
