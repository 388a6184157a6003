--------------------------- MODULE ReportsProofs ---------------------------
(***************************************************************************)
(* Proofs about module Reports, for any number of writers and readers and  *)
(* any number of reports kept: a published report is never replaced, only  *)
(* reports that enough newer ones outlive are removed, names follow the    *)
(* order of passes, and a reader is given what was current.                *)
(***************************************************************************)
EXTENDS Reports, FiniteSetTheorems, WellFoundedInduction, TLAPS

\* The published reports that sort after a name.
Newer(f) == {g \in files : Older(f, g)}

Doing == [stage : {"idle", "create", "list", "link", "look", "prune"},
          file : File, doomed : SUBSET File]

Typed ==
  /\ clock \in Nat /\ begun \in Nat
  /\ ended \subseteq Nat
  /\ files \subseteq published /\ published \subseteq File
  /\ IsFiniteSet(files)
  /\ doing \in [Writers -> Doing]

\* No two published reports have one name.
NamesDiffer == \A f, g \in files : SameName(f, g) => f = g

\* What is removed or is going to be is outlived by enough newer reports: a
\* writer works from the list it read, which others may have pruned since.
OldEnough(f) == Cardinality(Newer(f)) >= Keep
DoomedAreOld == \A w \in Writers : \A f \in doing[w].doomed : OldEnough(f)

Inv == Typed /\ NamesDiffer /\ DoomedAreOld /\ OnlyOldReportsGo

-----------------------------------------------------------------------------
LEMMA OlderIsAnOrder ==
  ASSUME NEW f \in File, NEW g \in File, NEW h \in File
  PROVE  /\ ~Older(f, f)
         /\ Older(f, g) /\ Older(g, h) => Older(f, h)
         /\ SameName(f, g) => (Older(f, h) <=> Older(g, h)) /\ ~Older(f, g)
<1>1. {f.at, g.at, h.at, f.seq, g.seq, h.seq} \subseteq Nat
  BY DEF File
<1> QED
  BY <1>1 DEF Older, SameName

\* Publishing a report leaves what was old enough old enough.
LEMMA AddingKeepsOld ==
  ASSUME Typed, Typed', files \subseteq files', NEW f, OldEnough(f)
  PROVE  OldEnough(f)'
<1>1. Newer(f) \in SUBSET Newer(f)' /\ Newer(f)' \in SUBSET files' /\ IsFiniteSet(files')
  BY DEF Newer, Older, Typed
<1>2. IsFiniteSet(Newer(f)')
  BY <1>1, FS_Subset
<1>3. Cardinality(Newer(f)) <= Cardinality(Newer(f)')
  BY <1>1, <1>2, FS_Subset
<1>4. Cardinality(Newer(f)) \in Nat /\ Cardinality(Newer(f)') \in Nat
  BY <1>1, <1>2, FS_Subset, FS_CardinalityType
<1> QED
  BY <1>3, <1>4, KeepAssumption DEF OldEnough

\* So does removing one that is old enough itself, by its name: either none
\* of the newer ones goes, or the newer ones of the one that goes remain.
LEMMA RemovingKeepsOld ==
  ASSUME Typed, NEW d \in File, OldEnough(d),
         files' = {g \in files : ~SameName(d, g)},
         NEW f \in File, OldEnough(f)
  PROVE  OldEnough(f)'
<1>1. \A g \in files : g \in File
  BY DEF Typed
<1>2. Newer(d) \in SUBSET files' /\ Newer(d)' = Newer(d)
  BY <1>1, OlderIsAnOrder DEF Newer, SameName, Older
<1>3. CASE \E g \in files : SameName(d, g) /\ Older(f, g)
  <2>1. PICK g \in files : SameName(d, g) /\ Older(f, g)
    BY <1>3
  <2>2. \A h \in Newer(d) : Older(f, h)
    <3> TAKE h \in Newer(d)
    <3>1. h \in File /\ g \in File /\ Older(d, h)
      BY <1>1, <2>1 DEF Newer
    <3>2. Older(g, h)
      BY <2>1, <3>1, OlderIsAnOrder
    <3> QED
      BY <2>1, <3>1, <3>2, OlderIsAnOrder
  <2>3. Newer(d) \in SUBSET Newer(f)' /\ Newer(f)' \in SUBSET files
    BY <1>2, <2>2 DEF Newer, Older
  <2>4. IsFiniteSet(Newer(f)')
    BY <2>3, FS_Subset DEF Typed
  <2>5. /\ Cardinality(Newer(d)) <= Cardinality(Newer(f)')
        /\ Cardinality(Newer(d)) \in Nat /\ Cardinality(Newer(f)') \in Nat
    BY <2>3, <2>4, FS_Subset, FS_CardinalityType
  <2> QED
    BY <2>5, KeepAssumption DEF OldEnough
<1>4. CASE ~\E g \in files : SameName(d, g) /\ Older(f, g)
  <2>1. Newer(f)' = Newer(f)
    BY <1>4 DEF Newer, Older
  <2> QED
    BY <2>1 DEF OldEnough
<1> QED
  BY <1>3, <1>4

\* The sequence number a writer starts from is one: there is a highest taken.
LEMMA FirstSequenceIsNat ==
  ASSUME Typed, NEW at
  PROVE  /\ FirstSequence(at) \in Nat
         /\ \A m \in Sequences(at) : m < FirstSequence(at)
<1> DEFINE F == {g \in files : g.at = at}
           Above(x) == {g \in F : x < g.seq}
           Aboves == {Above(x) : x \in Sequences(at)}
<1>1. IsFiniteSet(F) /\ Sequences(at) \subseteq Nat /\ \A g \in F : g.seq \in Sequences(at)
  <2>1. F \in SUBSET files /\ \A g \in F : g.seq \in Nat
    BY DEF Typed, File
  <2> QED
    BY <2>1, FS_Subset DEF Typed, Sequences
<1>2. \E n \in {0} \cup {m + 1 : m \in Sequences(at)} : \A m \in Sequences(at) : m < n
  <2>1. CASE Sequences(at) = {}
    BY <2>1
  <2>2. CASE Sequences(at) # {}
    <3>1. Aboves \subseteq FiniteSubsetsOf(F) /\ Aboves # {}
      <4>1. FiniteSubsetsOf(F) = SUBSET F
        BY <1>1, FS_FiniteSubsetsOfFinite
      <4>2. \A A \in Aboves : A \subseteq F
        OBVIOUS
      <4>3. PICK x \in Sequences(at) : TRUE
        BY <2>2
      <4>4. Above(x) \in Aboves
        OBVIOUS
      <4> QED
        BY <4>1, <4>2, <4>4
    <3>2. PICK A \in Aboves : \A B \in Aboves : <<B, A>> \notin StrictSubsetOrdering(F)
      BY <3>1, WFMin, FS_StrictSubsetOrderingWellFounded
    <3>3. PICK x \in Sequences(at) : A = Above(x)
      BY <3>2
    <3>4. ASSUME NEW m \in Sequences(at), ~(m <= x) PROVE FALSE
      <4>1. m \in Nat /\ x \in Nat /\ x < m
        BY <1>1, <3>4
      <4>2. PICK g \in F : g.seq = m
        BY DEF Sequences
      <4>3. ASSUME NEW h \in F, m < h.seq PROVE x < h.seq
        <5>1. h.seq \in Nat
          BY <1>1
        <5> QED
          BY <4>1, <4>3, <5>1
      <4>4. Above(m) \subseteq A
        BY <3>3, <4>3
      <4>5. g \in A /\ g \notin Above(m)
        BY <3>3, <4>1, <4>2
      <4>6. A \subseteq F
        BY <3>3
      <4>7. <<Above(m), A>> \in StrictSubsetOrdering(F)
        BY <4>4, <4>5, <4>6 DEF StrictSubsetOrdering
      <4> QED
        BY <3>2, <4>7
    <3>5. \A m \in Sequences(at) : m < x + 1
      BY <1>1, <3>4
    <3>6. x + 1 \in {m + 1 : m \in Sequences(at)}
      OBVIOUS
    <3> QED
      BY <3>5, <3>6
  <2> QED
    BY <2>1, <2>2
<1>3. /\ FirstSequence(at) \in {0} \cup {m + 1 : m \in Sequences(at)}
      /\ \A m \in Sequences(at) : m < FirstSequence(at)
  BY <1>2 DEF FirstSequence
<1> QED
  BY <1>1, <1>3

-----------------------------------------------------------------------------
LEMMA InvInit == Init => Inv
<1> SUFFICES ASSUME Init PROVE Inv
  OBVIOUS
<1>1. Idle \in Doing
  BY DEF Doing, Idle, NoFile, File
<1>2. Typed
  BY <1>1, FS_EmptySet DEF Init, Typed, Idle
<1> QED
  BY <1>2 DEF Init, Inv, NamesDiffer, DoomedAreOld, Idle, OnlyOldReportsGo

LEMMA TypesAreKept == Typed /\ [Next]_vars => Typed'
<1> SUFFICES ASSUME Typed, [Next]_vars PROVE Typed'
  OBVIOUS
<1>1. doing \in [Writers -> Doing] /\ \A w \in Writers : doing[w] \in Doing
  BY DEF Typed
<1>2. Idle \in Doing
  BY DEF Doing, Idle, NoFile, File
<1>3. ASSUME NEW w \in Writers, WriteStep(w) PROVE Typed'
  <2>0. doing[w].file \in File /\ doing[w].doomed \subseteq File
    BY <1>1 DEF Doing
  <2>1. CASE Begin(w)
    <3>1. [id |-> begun + 1, at |-> clock, seq |-> 0, after |-> ended] \in File
      BY DEF Typed, File
    <3>2. doing' \in [Writers -> Doing]
      BY <1>1, <2>1, <3>1 DEF Begin, Doing
    <3> QED
      BY <2>1, <3>2 DEF Begin, Typed
  <2>2. CASE Create(w)
    <3>1. doing' \in [Writers -> Doing]
      BY <1>1, <2>2 DEF Create, Doing
    <3> QED
      BY <2>2, <3>1 DEF Create, Typed
  <2>3. CASE List(w)
    <3>1. [doing[w].file EXCEPT !.seq = FirstSequence(doing[w].file.at)] \in File
      BY <2>0, FirstSequenceIsNat DEF File
    <3>2. doing' \in [Writers -> Doing]
      BY <1>1, <2>3, <3>1 DEF List, Doing
    <3> QED
      BY <2>3, <3>2 DEF List, Typed
  <2>4. CASE Link(w)
    <3>1. [doing[w].file EXCEPT !.seq = doing[w].file.seq + 1] \in File
      BY <2>0 DEF File
    <3>2. doing' \in [Writers -> Doing]
      BY <1>1, <2>4, <3>1 DEF Link, Doing
    <3>3. files' \subseteq files \cup {doing[w].file} /\ published' \subseteq File
          /\ files' \subseteq published'
      BY <2>0, <2>4 DEF Link, Typed
    <3>4. IsFiniteSet(files')
      <4>1. IsFiniteSet(files \cup {doing[w].file})
        BY FS_AddElement DEF Typed
      <4> QED
        BY <3>3, <4>1, FS_Subset
    <3> QED
      BY <2>4, <3>2, <3>3, <3>4 DEF Link, Typed
  <2>5. CASE Look(w)
    <3>1. Excess \subseteq File
      BY DEF Excess, Typed
    <3>2. doing' \in [Writers -> Doing]
      BY <1>1, <2>5, <3>1 DEF Look, Doing
    <3> QED
      BY <2>5, <3>2 DEF Look, Typed
  <2>6. CASE Prune(w)
    <3>1. doing' \in [Writers -> Doing]
      BY <1>1, <1>2, <2>0, <2>6 DEF Prune, Doing
    <3>2. ended' \subseteq Nat
      BY <2>0, <2>6 DEF Prune, Typed, File
    <3>3. files' \in SUBSET files
      BY <2>6 DEF Prune
    <3>4. IsFiniteSet(files')
      BY <3>3, FS_Subset DEF Typed
    <3> QED
      BY <2>6, <3>1, <3>2, <3>3, <3>4 DEF Prune, Typed
  <2>7. CASE Fail(w)
    <3>1. doing' \in [Writers -> Doing]
      BY <1>1, <1>2, <2>7 DEF Fail, Doing
    <3> QED
      BY <2>7, <3>1 DEF Fail, Typed
  <2> QED
    BY <1>3, <2>1, <2>2, <2>3, <2>4, <2>5, <2>6, <2>7 DEF WriteStep
<1>4. ASSUME NEW r \in Readers, ReadStep(r) PROVE Typed'
  BY <1>4 DEF ReadStep, Choose, Read, Again, Typed
<1>5. CASE TimePasses
  BY <1>5 DEF TimePasses, Typed
<1>6. CASE SetBack
  BY <1>6 DEF SetBack, Typed
<1>7. CASE UNCHANGED vars
  BY <1>7 DEF vars, Typed
<1> QED
  BY <1>3, <1>4, <1>5, <1>6, <1>7 DEF Next

-----------------------------------------------------------------------------
\* OnlyOldReportsGo says that what was removed is old enough.
LEMMA GoneAreOld ==
  OnlyOldReportsGo <=> \A f \in published \ files : OldEnough(f)
BY DEF OnlyOldReportsGo, OldEnough, Newer

LEMMA LinkKeepsInv ==
  ASSUME Inv, Typed', NEW w \in Writers, Link(w)
  PROVE  Inv'
<1>1. /\ files \subseteq files' /\ published' \ files' \subseteq published \ files
      /\ \/ files' = files
         \/ ~Taken(doing[w].file) /\ files' = files \cup {doing[w].file}
  BY DEF Link, Taken
<1>2. NamesDiffer'
  BY <1>1 DEF Inv, NamesDiffer, Taken, SameName
<1>3. \A v \in Writers : doing'[v].doomed = doing[v].doomed
  BY DEF Link, Inv, Typed, Doing
<1>4. DoomedAreOld'
  <2> SUFFICES ASSUME NEW v \in Writers, NEW f \in doing'[v].doomed PROVE OldEnough(f)'
    BY DEF DoomedAreOld
  <2>1. OldEnough(f)
    BY <1>3 DEF Inv, DoomedAreOld
  <2> QED
    BY <1>1, <2>1, AddingKeepsOld DEF Inv
<1>5. OnlyOldReportsGo'
  <2>1. \A f \in published' \ files' : OldEnough(f)'
    BY <1>1, GoneAreOld, AddingKeepsOld DEF Inv
  <2> QED
    BY <2>1 DEF OnlyOldReportsGo, OldEnough, Newer
<1> QED
  BY <1>2, <1>4, <1>5 DEF Inv

LEMMA PruneKeepsInv ==
  ASSUME Inv, Typed', NEW w \in Writers, Prune(w)
  PROVE  Inv'
<1>1. \A v \in Writers : doing'[v].doomed \subseteq doing[v].doomed
  BY DEF Prune, Idle, Inv, Typed, Doing
<1>2. published' = published /\ files' \subseteq files
  BY DEF Prune
<1>3. NamesDiffer'
  BY <1>2 DEF Inv, NamesDiffer, SameName
<1>4. CASE files' = files
  <2>1. \A f : OldEnough(f)' <=> OldEnough(f)
    BY <1>4 DEF OldEnough, Newer, Older
  <2>2. DoomedAreOld'
    BY <1>1, <2>1 DEF Inv, DoomedAreOld
  <2>3. OnlyOldReportsGo'
    BY <1>2, <1>4 DEF Inv, OnlyOldReportsGo, Older
  <2> QED
    BY <1>3, <2>2, <2>3 DEF Inv
<1>5. CASE files' # files
  <2>1. PICK d \in doing[w].doomed : files' = {g \in files : ~SameName(d, g)}
    BY <1>5 DEF Prune
  <2>2. d \in File /\ OldEnough(d)
    BY <2>1 DEF Inv, DoomedAreOld, Typed, Doing
  <2>3. \A f \in File : OldEnough(f) => OldEnough(f)'
    BY <2>1, <2>2, RemovingKeepsOld DEF Inv
  <2>4. DoomedAreOld'
    <3> SUFFICES ASSUME NEW v \in Writers, NEW f \in doing'[v].doomed PROVE OldEnough(f)'
      BY DEF DoomedAreOld
    <3>1. f \in File /\ OldEnough(f)
      BY <1>1 DEF Inv, DoomedAreOld, Typed, Doing
    <3> QED
      BY <2>3, <3>1
  <2>5. ASSUME NEW f \in published' \ files' PROVE OldEnough(f)'
    <3>1. f \in File
      BY <1>2 DEF Inv, Typed
    <3>2. CASE f \notin files
      BY <1>2, <2>3, <3>1, <3>2, GoneAreOld DEF Inv
    <3>3. CASE f \in files
      <4>1. SameName(d, f)
        BY <2>1, <3>3
      <4>2. Newer(f) = Newer(d)
        <5>1. \A g \in files : Older(f, g) <=> Older(d, g)
          BY <2>2, <3>1, <4>1, OlderIsAnOrder DEF Inv, Typed
        <5> QED
          BY <5>1 DEF Newer
      <4>3. OldEnough(f)
        BY <2>2, <4>2 DEF OldEnough
      <4> QED
        BY <2>3, <3>1, <4>3
    <3> QED
      BY <3>2, <3>3
  <2>6. OnlyOldReportsGo'
    BY <2>5 DEF OnlyOldReportsGo, OldEnough, Newer
  <2> QED
    BY <1>3, <2>4, <2>6 DEF Inv
<1> QED
  BY <1>4, <1>5

\* Every other step leaves the directory alone, and marks for removal at most
\* what is old enough when it is looked at.
LEMMA OtherStepsKeepInv ==
  ASSUME Inv, Typed', UNCHANGED <<files, published>>,
         \A w \in Writers : doing'[w].doomed \subseteq doing[w].doomed \cup Excess
  PROVE  Inv'
<1>1. \A f \in Excess : OldEnough(f)
  BY DEF Excess, OldEnough, Newer
<1>2. \A f : OldEnough(f)' <=> OldEnough(f)
  BY DEF OldEnough, Newer, Older
<1>3. DoomedAreOld'
  BY <1>1, <1>2 DEF Inv, DoomedAreOld
<1> QED
  BY <1>3 DEF Inv, NamesDiffer, OnlyOldReportsGo, SameName, Older

(* Every reachable state satisfies the inductive invariant.                *)
THEOREM ReportsInvariant == Spec => []Inv
<1>1. Inv /\ [Next]_vars => Inv'
  <2> SUFFICES ASSUME Inv, [Next]_vars PROVE Inv'
    OBVIOUS
  <2>1. Typed'
    BY TypesAreKept DEF Inv
  <2>2. doing \in [Writers -> Doing] /\ \A w \in Writers : doing[w] \in Doing
    BY DEF Inv, Typed
  <2>3. ASSUME NEW w \in Writers, Link(w) PROVE Inv'
    BY <2>1, <2>3, LinkKeepsInv
  <2>4. ASSUME NEW w \in Writers, Prune(w) PROVE Inv'
    BY <2>1, <2>4, PruneKeepsInv
  <2>5. ASSUME NEW w \in Writers, Begin(w) \/ Create(w) \/ List(w) \/ Look(w) \/ Fail(w)
        PROVE  Inv'
    <3>1. \A v \in Writers : doing'[v].doomed \subseteq doing[v].doomed \cup Excess
      BY <2>2, <2>5 DEF Begin, Create, List, Look, Fail, Idle, Doing
    <3>2. UNCHANGED <<files, published>>
      BY <2>5 DEF Begin, Create, List, Look, Fail
    <3> QED
      BY <2>1, <3>1, <3>2, OtherStepsKeepInv
  <2>6. ASSUME UNCHANGED <<files, published, doing>> PROVE Inv'
    BY <2>1, <2>6, OtherStepsKeepInv
  <2>7. CASE (\E r \in Readers : ReadStep(r)) \/ TimePasses \/ SetBack \/ UNCHANGED vars
    BY <2>6, <2>7 DEF ReadStep, Choose, Read, Again, TimePasses, SetBack, vars
  <2> QED
    BY <2>3, <2>4, <2>5, <2>7 DEF Next, WriteStep
<1> QED
  BY InvInit, <1>1, PTL DEF Spec

(* Whoever prunes, fails or sets the clock, and however many reports are   *)
(* kept, only a report that as many newer ones outlive is removed          *)
(* (store.go:18-20, 122-130).                                              *)
THEOREM ReportsGoWhenOld == Spec => []OnlyOldReportsGo
<1>1. Inv => OnlyOldReportsGo
  BY DEF Inv
<1> QED
  BY ReportsInvariant, <1>1, PTL

(* Any number of writers may pick one name, prune and start over: what was *)
(* published under a name is not replaced (store.go:132, 174-175).         *)
THEOREM ReportsAreNotReplaced == Spec => NeverReplaced
<1>1. Inv /\ Inv' /\ [Next]_vars => [\A f \in files, g \in files' : SameName(f, g) => f = g]_vars
  <2> SUFFICES ASSUME Inv, [Next]_vars, NEW f \in files, NEW g \in files', SameName(f, g)
               PROVE  f = g
    OBVIOUS
  <2>1. CASE g \in files
    BY <2>1 DEF Inv, NamesDiffer
  <2>2. ASSUME g \notin files PROVE FALSE
    <3>1. PICK w \in Writers : Link(w) /\ ~Taken(doing[w].file) /\ g = doing[w].file
      BY <2>2 DEF Next, WriteStep, Begin, Create, List, Link, Look, Prune, Fail, ReadStep,
                  Choose, Read, Again, TimePasses, SetBack, vars
    <3> QED
      BY <3>1 DEF Taken, SameName
  <2> QED
    BY <2>1, <2>2
<1> QED
  BY ReportsInvariant, <1>1, PTL DEF Spec, NeverReplaced

-----------------------------------------------------------------------------
(* Passes and the names of their reports.                                  *)

Writing(w) == doing[w].stage # "idle"
Unpublished(w) == doing[w].stage \in {"create", "list", "link"}

\* Every pass writes one report, which is unknown until it is linked and has
\* not been written before Write returns.
OneReportEach ==
  /\ \A f \in published : f.id <= begun
  /\ \A f, g \in published : f.id = g.id => f = g
  /\ \A w \in Writers : Writing(w) =>
       /\ doing[w].file.id <= begun /\ doing[w].file.id \notin ended
       /\ \A v \in Writers : Writing(v) /\ doing[v].file.id = doing[w].file.id => v = w
  /\ \A w \in Writers : Unpublished(w) => \A f \in published : f.id # doing[w].file.id
  /\ \A id \in ended : id <= begun

\* A report says of no other that it was written before it had been.
OnlyWrittenOnesAreBefore ==
  /\ \A f \in published : f.after \subseteq ended
  /\ \A w \in Writers : doing[w].file.after \subseteq ended

\* While the clock is steady, time and then sequence order what was written,
\* from the moment a writer has chosen where to start.
NamesFollow ==
  SteadyClock =>
    /\ \A f \in published : f.at <= clock
    /\ \A w \in Writers : doing[w].file.at <= clock
    /\ \A w \in Writers, f \in published : f.id \in doing[w].file.after => f.at <= doing[w].file.at
    /\ \A w \in Writers, f \in files :
         doing[w].stage = "link" /\ f.id \in doing[w].file.after => Older(f, doing[w].file)
    /\ \A f \in files, g \in published : f.id \in g.after => Older(f, g)

\* What a reader has chosen was the newest, so what is newer came later; and
\* what goes by that name now was not superseded when it chose.
ChosenWasNewest ==
  \A r \in Readers :
    /\ reading[r].before \subseteq ended
    /\ \A id \in reading[r].since : \E f \in published : f.id = id
    /\ reading[r].stage = "chosen" =>
         /\ reading[r].file \in published
         /\ \A g \in files : Older(reading[r].file, g) => g.id \notin reading[r].since
         /\ SteadyClock => \A f \in published, g \in files :
              f.id \in reading[r].before /\ SameName(g, reading[r].file) => g.id \notin f.after

Reading == [stage : {"idle", "chosen", "read", "lost"}, file : File,
            before : SUBSET Nat, since : SUBSET Nat]

\* The rest of the types: what readers and the history hold.
ReadersTyped == reading \in [Readers -> Reading] /\ backs \in Nat /\ IsFiniteSet(published)

NamesInv == /\ Inv /\ ReadersTyped /\ OneReportEach /\ OnlyWrittenOnesAreBefore
            /\ NamesFollow /\ ChosenWasNewest /\ StatusIsCurrent

-----------------------------------------------------------------------------
\* What a writer's step does to what it does and leaves to the others.
LEMMA WriterSteps ==
  ASSUME Typed, NEW w \in Writers
  PROVE  /\ WriteStep(w) => \A v \in Writers : v # w => doing'[v] = doing[v]
         /\ Begin(w) => doing'[w] = [stage |-> "create", doomed |-> {},
              file |-> [id |-> begun + 1, at |-> clock, seq |-> 0, after |-> ended]]
         /\ Create(w) => doing'[w].stage = "list" /\ doing'[w].file = doing[w].file
         /\ List(w) => /\ doing'[w].stage = "link"
                       /\ doing'[w].file = [doing[w].file EXCEPT !.seq = FirstSequence(doing[w].file.at)]
         /\ Link(w) => \/ doing'[w].stage = "look" /\ doing'[w].file = doing[w].file
                            /\ files' = files \cup {doing[w].file}
                            /\ published' = published \cup {doing[w].file}
                       \/ doing'[w].stage = "link" /\ Taken(doing[w].file)
                            /\ doing'[w].file = [doing[w].file EXCEPT !.seq = doing[w].file.seq + 1]
                            /\ UNCHANGED <<files, published>>
         /\ Look(w) => doing'[w].stage = "prune" /\ doing'[w].file = doing[w].file
         /\ Prune(w) => \/ doing'[w].stage = "prune" /\ doing'[w].file = doing[w].file /\ ended' = ended
                        \/ doing'[w] = Idle /\ ended' = ended \cup {doing[w].file.id}
         /\ Fail(w) => doing'[w] = Idle
<1>1. doing \in [Writers -> Doing] /\ doing[w] \in Doing
  BY DEF Typed
<1>2. WriteStep(w) => \A v \in Writers : v # w => doing'[v] = doing[v]
  BY <1>1 DEF WriteStep, Begin, Create, List, Link, Look, Prune, Fail
<1>3. Begin(w) => doing'[w] = [stage |-> "create", doomed |-> {},
              file |-> [id |-> begun + 1, at |-> clock, seq |-> 0, after |-> ended]]
  BY <1>1 DEF Begin
<1>4. Create(w) => doing'[w].stage = "list" /\ doing'[w].file = doing[w].file
  BY <1>1 DEF Create, Doing
<1>5. List(w) => /\ doing'[w].stage = "link"
                 /\ doing'[w].file = [doing[w].file EXCEPT !.seq = FirstSequence(doing[w].file.at)]
  BY <1>1 DEF List, Doing
<1>6. ASSUME Link(w)
      PROVE  \/ doing'[w].stage = "look" /\ doing'[w].file = doing[w].file
                  /\ files' = files \cup {doing[w].file}
                  /\ published' = published \cup {doing[w].file}
             \/ doing'[w].stage = "link" /\ Taken(doing[w].file)
                  /\ doing'[w].file = [doing[w].file EXCEPT !.seq = doing[w].file.seq + 1]
                  /\ UNCHANGED <<files, published>>
  BY <1>1, <1>6 DEF Link, Doing, Taken
<1>7. Look(w) => doing'[w].stage = "prune" /\ doing'[w].file = doing[w].file
  BY <1>1 DEF Look, Doing
<1>8. ASSUME Prune(w)
      PROVE  \/ doing'[w].stage = "prune" /\ doing'[w].file = doing[w].file /\ ended' = ended
             \/ doing'[w] = Idle /\ ended' = ended \cup {doing[w].file.id}
  BY <1>1, <1>8 DEF Prune, Doing
<1>9. Fail(w) => doing'[w] = Idle
  BY <1>1 DEF Fail
<1> QED
  BY <1>2, <1>3, <1>4, <1>5, <1>6, <1>7, <1>8, <1>9

LEMMA IdsStep ==
  Typed /\ OneReportEach /\ OnlyWrittenOnesAreBefore /\ [Next]_vars
    => OneReportEach' /\ OnlyWrittenOnesAreBefore'
<1> SUFFICES ASSUME Typed, OneReportEach, OnlyWrittenOnesAreBefore, [Next]_vars
             PROVE  OneReportEach' /\ OnlyWrittenOnesAreBefore'
  OBVIOUS
<1>0. /\ begun \in Nat /\ \A f \in published : f.id \in Nat
      /\ \A w \in Writers : doing[w].file.id \in Nat
      /\ \A id \in ended : id \in Nat
  BY DEF Typed, Doing, File
<1>1. ASSUME UNCHANGED <<begun, published>>, ended \subseteq ended',
             \A v \in Writers :
               /\ doing'[v].stage # "idle" => doing[v].stage # "idle" /\ doing'[v].file.id = doing[v].file.id
                                               /\ doing[v].file.id \notin ended'
               /\ doing'[v].stage \in {"create", "list", "link"} => Unpublished(v)
               /\ doing'[v].file.after \subseteq doing[v].file.after,
             \A id \in ended' : id \in ended \/ \E w \in Writers : Writing(w) /\ id = doing[w].file.id
      PROVE  OneReportEach' /\ OnlyWrittenOnesAreBefore'
  <2>1. OneReportEach'
    BY <1>1 DEF OneReportEach, Writing, Unpublished
  <2>2. OnlyWrittenOnesAreBefore'
    BY <1>1 DEF OnlyWrittenOnesAreBefore
  <2> QED
    BY <2>1, <2>2
<1>2. ASSUME NEW w \in Writers, Begin(w) PROVE OneReportEach' /\ OnlyWrittenOnesAreBefore'
  <2>1. /\ \A v \in Writers : v # w => doing'[v] = doing[v]
        /\ doing'[w].file.id = begun + 1 /\ doing'[w].file.after = ended
        /\ begun' = begun + 1 /\ UNCHANGED <<ended, published>>
    <3>1. WriteStep(w) /\ begun' = begun + 1 /\ UNCHANGED <<ended, published>>
      BY <1>2 DEF WriteStep, Begin
    <3>2. doing'[w] = [stage |-> "create", doomed |-> {},
            file |-> [id |-> begun + 1, at |-> clock, seq |-> 0, after |-> ended]]
      BY <1>2, WriterSteps
    <3>3. \A v \in Writers : v # w => doing'[v] = doing[v]
      BY <3>1, WriterSteps
    <3>4. doing'[w].file.id = begun + 1 /\ doing'[w].file.after = ended
      BY <3>2
    <3> QED
      BY <3>1, <3>3, <3>4
  <2>2. OnlyWrittenOnesAreBefore'
    BY <2>1 DEF OnlyWrittenOnesAreBefore
  <2>3. OneReportEach'
    BY <1>0, <2>1 DEF OneReportEach, Writing, Unpublished
  <2> QED
    BY <2>2, <2>3
<1>3. ASSUME NEW w \in Writers, Link(w) PROVE OneReportEach' /\ OnlyWrittenOnesAreBefore'
  <2>1. /\ \A v \in Writers : v # w => doing'[v] = doing[v]
        /\ UNCHANGED <<begun, ended>> /\ doing[w].stage = "link"
    BY <1>3, WriterSteps DEF WriteStep, Link
  <2>2. CASE published' = published
    <3>1. doing'[w].file.id = doing[w].file.id /\ doing'[w].file.after = doing[w].file.after
      BY <1>3, WriterSteps DEF Typed, Doing, File
    <3>2. Writing(w) /\ Unpublished(w)
      BY <2>1 DEF Writing, Unpublished
    <3> QED
      BY <1>1, <2>1, <2>2, <3>1, <3>2 DEF OneReportEach, Writing, Unpublished
  <2>3. CASE published' # published
    <3>1. /\ published' = published \cup {doing[w].file} /\ doing'[w].file = doing[w].file
          /\ doing'[w].stage = "look"
      BY <1>3, <2>3, WriterSteps
    <3>2. Writing(w) /\ Unpublished(w)
      BY <2>1 DEF Writing, Unpublished
    <3>3. OnlyWrittenOnesAreBefore'
      BY <2>1, <3>1 DEF OnlyWrittenOnesAreBefore
    <3>4. OneReportEach'
      BY <1>0, <2>1, <3>1, <3>2 DEF OneReportEach, Writing, Unpublished
    <3> QED
      BY <3>3, <3>4
  <2> QED
    BY <2>2, <2>3
<1>4. ASSUME NEW w \in Writers, Create(w) \/ List(w) \/ Look(w)
      PROVE  OneReportEach' /\ OnlyWrittenOnesAreBefore'
  <2>1. /\ \A v \in Writers : v # w => doing'[v] = doing[v]
        /\ doing'[w].file.id = doing[w].file.id /\ doing'[w].file.after = doing[w].file.after
    BY <1>4, WriterSteps DEF WriteStep, Typed, Doing, File
  <2>2. /\ UNCHANGED <<begun, ended, published>> /\ doing[w].stage # "idle"
        /\ doing'[w].stage \in {"create", "list", "link"} => Unpublished(w)
    BY <1>4, WriterSteps DEF Create, List, Look, Unpublished
  <2>3. \A v \in Writers :
          /\ doing'[v].stage # "idle" => doing[v].stage # "idle" /\ doing'[v].file.id = doing[v].file.id
                                          /\ doing[v].file.id \notin ended'
          /\ doing'[v].stage \in {"create", "list", "link"} => Unpublished(v)
          /\ doing'[v].file.after \subseteq doing[v].file.after
    BY <2>1, <2>2 DEF OneReportEach, Writing, Unpublished
  <2> QED
    BY <1>1, <2>2, <2>3
<1>5. ASSUME NEW w \in Writers, Prune(w) \/ Fail(w) PROVE OneReportEach' /\ OnlyWrittenOnesAreBefore'
  <2>1. /\ \A v \in Writers : v # w => doing'[v] = doing[v]
        /\ UNCHANGED <<begun, published>> /\ doing[w].stage # "idle"
    BY <1>5, WriterSteps DEF WriteStep, Prune, Fail
  <2>2. \/ doing'[w] = Idle /\ ended' \in {ended, ended \cup {doing[w].file.id}}
        \/ doing'[w].stage = "prune" /\ doing'[w].file = doing[w].file /\ ended' = ended
    BY <1>5, WriterSteps DEF Fail
  <2>3. Idle.stage = "idle" /\ Idle.file.after = {}
    BY DEF Idle, NoFile
  <2>4. ended' \in {ended, ended \cup {doing[w].file.id}} /\ Writing(w)
    BY <2>1, <2>2 DEF Writing
  <2>5. ASSUME NEW v \in Writers
        PROVE  /\ doing'[v].stage # "idle" => doing[v].stage # "idle" /\ doing'[v].file.id = doing[v].file.id
                                               /\ doing[v].file.id \notin ended'
               /\ doing'[v].stage \in {"create", "list", "link"} => Unpublished(v)
               /\ doing'[v].file.after \subseteq doing[v].file.after
    <3>1. CASE v # w
      <4>1. doing'[v] = doing[v]
        BY <2>1, <3>1
      <4>2. doing[v].stage # "idle" => doing[v].file.id \notin ended'
        BY <2>4, <3>1 DEF OneReportEach, Writing
      <4> QED
        BY <4>1, <4>2 DEF Unpublished
    <3>2. CASE v = w
      BY <2>1, <2>2, <2>3, <3>2 DEF OneReportEach, Writing
    <3> QED
      BY <3>1, <3>2
  <2> QED
    BY <1>1, <2>1, <2>4, <2>5
<1>6. CASE UNCHANGED <<begun, ended, published, doing>>
  BY <1>1, <1>6 DEF OneReportEach, Writing, Unpublished
<1>7. CASE (\E r \in Readers : ReadStep(r)) \/ TimePasses \/ SetBack \/ UNCHANGED vars
  BY <1>6, <1>7 DEF ReadStep, Choose, Read, Again, TimePasses, SetBack, vars
<1> QED
  BY <1>2, <1>3, <1>4, <1>5, <1>7 DEF Next, WriteStep

LEMMA NamesStep ==
  Typed /\ ReadersTyped /\ OneReportEach /\ OnlyWrittenOnesAreBefore /\ NamesFollow /\ [Next]_vars
    => NamesFollow'
<1> SUFFICES ASSUME Typed, ReadersTyped, OneReportEach, OnlyWrittenOnesAreBefore, NamesFollow,
                    [Next]_vars, SteadyClock'
             PROVE  NamesFollow'
  BY DEF NamesFollow
<1>0. /\ files \subseteq published /\ published \subseteq File /\ clock \in Nat
      /\ \A w \in Writers : doing[w].file \in File
  BY DEF Typed, Doing
<1>1. SteadyClock /\ ~SetBack
  <2>1. backs \in Nat /\ backs' = 0
    BY DEF ReadersTyped, SteadyClock
  <2>2. ~SetBack
    BY <2>1 DEF SetBack
  <2>3. backs' = backs
    BY <2>2 DEF Next, WriteStep, Begin, Create, List, Link, Look, Prune, Fail, ReadStep,
                Choose, Read, Again, TimePasses, vars
  <2> QED
    BY <2>1, <2>2, <2>3 DEF SteadyClock
<1>2. /\ \A f \in published : f.at <= clock
      /\ \A w \in Writers : doing[w].file.at <= clock
      /\ \A w \in Writers, f \in published : f.id \in doing[w].file.after => f.at <= doing[w].file.at
      /\ \A w \in Writers, f \in files :
           doing[w].stage = "link" /\ f.id \in doing[w].file.after => Older(f, doing[w].file)
      /\ \A f \in files, g \in published : f.id \in g.after => Older(f, g)
  BY <1>1 DEF NamesFollow
<1>3. Idle.file.at = 0 /\ Idle.file.after = {} /\ Idle.stage = "idle"
  BY DEF Idle, NoFile
<1>4. ASSUME published' = published, files' \subseteq files, clock' \in Nat, clock <= clock',
             \A v \in Writers : \/ doing'[v] = Idle
                                \/ /\ doing'[v].file = doing[v].file
                                   /\ doing'[v].stage = "link" => doing[v].stage = "link"
      PROVE  NamesFollow'
  <2>1. \A f \in published : f.at <= clock'
    BY <1>0, <1>2, <1>4 DEF File
  <2>2. \A w \in Writers : doing'[w].file.at <= clock'
    BY <1>0, <1>2, <1>3, <1>4 DEF File
  <2>3. \A w \in Writers, f \in published : f.id \in doing'[w].file.after => f.at <= doing'[w].file.at
    BY <1>2, <1>3, <1>4
  <2>4. \A w \in Writers, f \in files :
          doing'[w].stage = "link" /\ f.id \in doing'[w].file.after => Older(f, doing'[w].file)
    BY <1>2, <1>3, <1>4 DEF Older
  <2> QED
    BY <1>2, <1>4, <2>1, <2>2, <2>3, <2>4 DEF NamesFollow, Older
<1>5. ASSUME NEW w \in Writers, Begin(w) PROVE NamesFollow'
  <2>1. /\ \A v \in Writers : v # w => doing'[v] = doing[v]
        /\ doing'[w] = [stage |-> "create", doomed |-> {},
             file |-> [id |-> begun + 1, at |-> clock, seq |-> 0, after |-> ended]]
    BY <1>5, WriterSteps DEF WriteStep
  <2>2. UNCHANGED <<clock, files, published>>
    BY <1>5 DEF Begin
  <2>3. /\ doing'[w].file.at = clock /\ doing'[w].stage = "create"
    BY <2>1
  <2>4. \A v \in Writers : doing'[v].file.at <= clock
    BY <1>0, <1>2, <2>1, <2>3
  <2>5. \A v \in Writers, f \in published : f.id \in doing'[v].file.after => f.at <= doing'[v].file.at
    BY <1>2, <2>1, <2>3
  <2>6. \A v \in Writers, f \in files :
          doing'[v].stage = "link" /\ f.id \in doing'[v].file.after => Older(f, doing'[v].file)
    BY <1>2, <2>1, <2>3
  <2> QED
    BY <1>2, <2>2, <2>4, <2>5, <2>6 DEF NamesFollow, Older
<1>6. ASSUME NEW w \in Writers, List(w) PROVE NamesFollow'
  <2>1. /\ \A v \in Writers : v # w => doing'[v] = doing[v]
        /\ doing'[w].file = [doing[w].file EXCEPT !.seq = FirstSequence(doing[w].file.at)]
    BY <1>6, WriterSteps DEF WriteStep
  <2>2. UNCHANGED <<clock, files, published>>
    BY <1>6 DEF List
  <2>3. /\ doing'[w].file.at = doing[w].file.at /\ doing'[w].file.after = doing[w].file.after
        /\ doing'[w].file.seq = FirstSequence(doing[w].file.at)
    BY <1>0, <2>1 DEF File
  <2>4. ASSUME NEW f \in files, f.id \in doing[w].file.after PROVE Older(f, doing'[w].file)
    <3>1. f.at <= doing[w].file.at /\ f.at \in Nat /\ doing[w].file.at \in Nat
      BY <1>0, <1>2, <2>4 DEF File
    <3>2. f.at = doing[w].file.at => f.seq \in Sequences(doing[w].file.at)
      BY DEF Sequences
    <3>3. \A m \in Sequences(doing[w].file.at) : m < FirstSequence(doing[w].file.at)
      BY FirstSequenceIsNat
    <3> QED
      BY <2>3, <3>1, <3>2, <3>3 DEF Older
  <2>5. \A v \in Writers, f \in published : f.id \in doing'[v].file.after => f.at <= doing'[v].file.at
    BY <1>2, <2>1, <2>3
  <2>6. \A v \in Writers, f \in files :
          doing'[v].stage = "link" /\ f.id \in doing'[v].file.after => Older(f, doing'[v].file)
    BY <1>2, <2>1, <2>3, <2>4
  <2>7. \A v \in Writers : doing'[v].file.at <= clock
    BY <1>2, <2>1, <2>3
  <2> QED
    BY <1>2, <2>2, <2>5, <2>6, <2>7 DEF NamesFollow, Older
<1>7. ASSUME NEW w \in Writers, Link(w) PROVE NamesFollow'
  <2>1. /\ \A v \in Writers : v # w => doing'[v] = doing[v]
        /\ clock' = clock /\ doing[w].stage = "link"
    BY <1>7, WriterSteps DEF WriteStep, Link
  <2>2. CASE UNCHANGED <<files, published>> /\ doing'[w].file = [doing[w].file EXCEPT !.seq = doing[w].file.seq + 1]
    <3>1. /\ doing'[w].file.at = doing[w].file.at /\ doing'[w].file.after = doing[w].file.after
          /\ doing'[w].file.seq = doing[w].file.seq + 1
      BY <1>0, <2>2 DEF File
    <3>2. ASSUME NEW f \in files, f.id \in doing[w].file.after PROVE Older(f, doing'[w].file)
      <4>1. Older(f, doing[w].file)
        BY <1>2, <2>1, <3>2
      <4>2. {f.at, f.seq, doing[w].file.at, doing[w].file.seq} \subseteq Nat
        BY <1>0 DEF File
      <4> QED
        BY <3>1, <4>1, <4>2 DEF Older
    <3>3. \A v \in Writers, f \in published : f.id \in doing'[v].file.after => f.at <= doing'[v].file.at
      BY <1>2, <2>1, <3>1
    <3>4. \A v \in Writers, f \in files :
            doing'[v].stage = "link" /\ f.id \in doing'[v].file.after => Older(f, doing'[v].file)
      BY <1>2, <2>1, <3>1, <3>2
    <3>5. \A v \in Writers : doing'[v].file.at <= clock
      BY <1>2, <2>1, <3>1
    <3> QED
      BY <1>2, <2>1, <2>2, <3>3, <3>4, <3>5 DEF NamesFollow, Older
  <2>3. CASE /\ files' = files \cup {doing[w].file} /\ published' = published \cup {doing[w].file}
             /\ doing'[w].stage = "look" /\ doing'[w].file = doing[w].file
    <3>1. /\ doing[w].file.id \notin ended
          /\ \A v \in Writers : doing'[v].file = doing[v].file
          /\ \A v \in Writers : doing'[v].stage = "link" => doing[v].stage = "link"
      BY <2>1, <2>3 DEF OneReportEach, Writing
    <3>2. /\ \A v \in Writers : doing[w].file.id \notin doing[v].file.after
          /\ \A g \in published' : doing[w].file.id \notin g.after
      BY <2>3, <3>1 DEF OnlyWrittenOnesAreBefore
    <3>3. \A f \in published' : f.at <= clock
      BY <1>2, <2>3
    <3>4. \A v \in Writers, f \in published' : f.id \in doing[v].file.after => f.at <= doing[v].file.at
      BY <1>2, <2>3, <3>2
    <3>5. \A v \in Writers, f \in files' :
            doing[v].stage = "link" /\ f.id \in doing[v].file.after => Older(f, doing[v].file)
      BY <1>2, <2>3, <3>2
    <3>6. \A f \in files', g \in published' : f.id \in g.after => Older(f, g)
      <4> SUFFICES ASSUME NEW f \in files', NEW g \in published', f.id \in g.after PROVE Older(f, g)
        OBVIOUS
      <4>1. f \in files
        BY <2>3, <3>2
      <4>2. CASE g \in published
        BY <1>2, <4>1, <4>2
      <4>3. CASE g = doing[w].file
        BY <1>2, <2>1, <4>1, <4>3
      <4> QED
        BY <2>3, <4>2, <4>3
    <3>7. \A v \in Writers : doing[v].file.at <= clock
      BY <1>2
    <3> QED
      BY <2>1, <3>1, <3>3, <3>4, <3>5, <3>6, <3>7 DEF NamesFollow, Older
  <2> QED
    BY <1>7, <2>2, <2>3, WriterSteps
<1>8. ASSUME NEW w \in Writers, Create(w) \/ Look(w) \/ Prune(w) \/ Fail(w) PROVE NamesFollow'
  <2>1. /\ \A v \in Writers : v # w => doing'[v] = doing[v]
        /\ \/ doing'[w] = Idle
           \/ doing'[w].file = doing[w].file /\ doing'[w].stage # "link"
    BY <1>8, WriterSteps DEF WriteStep
  <2>2. published' = published /\ files' \subseteq files /\ clock' = clock
    BY <1>8 DEF Create, Look, Prune, Fail
  <2>3. \A v \in Writers : \/ doing'[v] = Idle
                           \/ /\ doing'[v].file = doing[v].file
                              /\ doing'[v].stage = "link" => doing[v].stage = "link"
    BY <2>1
  <2> QED
    BY <1>0, <1>4, <2>2, <2>3
<1>9. CASE (\E r \in Readers : ReadStep(r)) \/ TimePasses \/ UNCHANGED vars
  <2>1. UNCHANGED <<files, published, doing>> /\ clock' \in {clock, clock + 1}
    BY <1>9 DEF ReadStep, Choose, Read, Again, TimePasses, vars
  <2> QED
    BY <1>0, <1>4, <2>1
<1> QED
  BY <1>1, <1>5, <1>6, <1>7, <1>8, <1>9 DEF Next, WriteStep

LEMMA ReadersTypedStep == Typed /\ ReadersTyped /\ [Next]_vars => ReadersTyped'
<1> SUFFICES ASSUME Typed, ReadersTyped, [Next]_vars PROVE ReadersTyped'
  OBVIOUS
<1>1. /\ reading \in [Readers -> Reading] /\ backs \in Nat /\ IsFiniteSet(published)
      /\ files \subseteq File /\ published \subseteq File /\ ended \subseteq Nat
  BY DEF ReadersTyped, Typed
<1>2. AtRest \in Reading
  BY DEF AtRest, Reading, NoFile, File
<1>3. ASSUME NEW r \in Readers, ReadStep(r) PROVE ReadersTyped'
  <2>1. CASE Choose(r)
    <3>1. {g.id : g \in published} \subseteq Nat
      BY <1>1 DEF File
    <3>2. PICK f \in Latest : reading' = [reading EXCEPT ![r] =
            [stage |-> "chosen", file |-> f, before |-> ended, since |-> {g.id : g \in published}]]
      BY <2>1 DEF Choose
    <3>3. f \in File
      BY <1>1 DEF Latest
    <3>4. [stage |-> "chosen", file |-> f, before |-> ended, since |-> {g.id : g \in published}] \in Reading
      BY <1>1, <3>1, <3>3 DEF Reading
    <3>5. reading' \in [Readers -> Reading]
      BY <1>1, <3>2, <3>4
    <3> QED
      BY <1>1, <2>1, <3>5 DEF Choose, ReadersTyped
  <2>2. CASE Read(r)
    <3>1. reading' \in [Readers -> Reading]
      BY <1>1, <2>2 DEF Read, Reading
    <3> QED
      BY <1>1, <2>2, <3>1 DEF Read, ReadersTyped
  <2>3. CASE Again(r)
    BY <1>1, <1>2, <2>3 DEF Again, ReadersTyped
  <2> QED
    BY <1>3, <2>1, <2>2, <2>3 DEF ReadStep
<1>4. ASSUME NEW w \in Writers, Link(w) PROVE ReadersTyped'
  <2>1. published' \in {published, published \cup {doing[w].file}} /\ UNCHANGED <<reading, backs>>
    BY <1>4 DEF Link
  <2>2. IsFiniteSet(published')
    BY <1>1, <2>1, FS_AddElement
  <2> QED
    BY <1>1, <2>1, <2>2 DEF ReadersTyped
<1>5. CASE UNCHANGED <<reading, published>> /\ backs' \in {backs, backs + 1}
  BY <1>1, <1>5 DEF ReadersTyped
<1> QED
  BY <1>3, <1>4, <1>5
  DEF Next, WriteStep, Begin, Create, List, Look, Prune, Fail, TimePasses, SetBack, vars

-----------------------------------------------------------------------------
(* What a reader gets.                                                     *)

Ids == {f.id : f \in published}

LEMMA IdsAreFinite ==
  ASSUME IsFiniteSet(published)
  PROVE  IsFiniteSet(Ids)
<1> DEFINE id == [f \in published |-> f.id]
<1>1. id \in Surjection(published, Ids)
  BY DEF Surjection, Ids
<1> QED
  BY <1>1, FS_Surjection

\* As many passes reported as there are reports.
LEMMA IdsCountReports ==
  ASSUME IsFiniteSet(published), \A f, g \in published : f.id = g.id => f = g,
         NEW S \in SUBSET published, NEW T \in SUBSET Ids, \A f \in S : f.id \in T
  PROVE  Cardinality(S) <= Cardinality(T)
<1> DEFINE id == [f \in S |-> f.id]
<1>1. id \in Injection(S, T)
  BY DEF Injection, IsInjective
<1>2. IsFiniteSet(T)
  BY IdsAreFinite, FS_Subset
<1> QED
  BY <1>1, <1>2, FS_Injection

\* No report, pruned ones included, supersedes the newest there is.
LEMMA NewestIsNotSuperseded ==
  ASSUME Inv, NamesFollow, SteadyClock, NEW c \in Latest, NEW f \in published
  PROVE  c.id \notin f.after
<1> SUFFICES ASSUME c.id \in f.after PROVE FALSE
  OBVIOUS
<1>1. /\ c \in files /\ \A g \in files : g = c \/ Older(g, c)
      /\ c \in File /\ f \in File /\ files \subseteq File
  BY DEF Latest, Inv, Typed
<1>2. Older(c, f)
  BY <1>1 DEF NamesFollow
<1>3. ASSUME NEW h \in files, h = f \/ Older(f, h) PROVE FALSE
  <2>1. Older(c, h)
    BY <1>1, <1>2, <1>3, OlderIsAnOrder
  <2> QED
    BY <1>1, <2>1, OlderIsAnOrder
<1>4. f \notin files
  BY <1>3
<1>5. Newer(f) # {}
  <2>1. Cardinality(Newer(f)) >= Keep
    BY <1>4, GoneAreOld DEF Inv, OldEnough
  <2>2. Cardinality({}) = 0
    BY FS_EmptySet
  <2> QED
    BY <2>1, <2>2, KeepAssumption
<1> QED
  BY <1>3, <1>5 DEF Newer

LEMMA ReaderStep == NamesInv /\ [Next]_vars => ChosenWasNewest' /\ StatusIsCurrent'
<1> SUFFICES ASSUME NamesInv, [Next]_vars PROVE ChosenWasNewest' /\ StatusIsCurrent'
  OBVIOUS
<1>0. /\ Inv /\ Typed /\ NamesDiffer /\ ReadersTyped /\ OneReportEach /\ OnlyWrittenOnesAreBefore
      /\ NamesFollow /\ ChosenWasNewest /\ StatusIsCurrent
      /\ reading \in [Readers -> Reading] /\ files \subseteq published
  BY DEF NamesInv, Inv, Typed, ReadersTyped
<1>1. ASSUME UNCHANGED <<reading, published>>, ended \subseteq ended', files' \subseteq files,
             SteadyClock' => SteadyClock
      PROVE  ChosenWasNewest' /\ StatusIsCurrent'
  <2>1. ChosenWasNewest'
    BY <1>0, <1>1 DEF ChosenWasNewest, Older, SameName
  <2>2. StatusIsCurrent'
    BY <1>0, <1>1 DEF StatusIsCurrent
  <2> QED
    BY <2>1, <2>2
<1>2. ASSUME NEW w \in Writers, Link(w), published' # published
      PROVE  ChosenWasNewest' /\ StatusIsCurrent'
  <2>1. /\ files' = files \cup {doing[w].file} /\ published' = published \cup {doing[w].file}
        /\ UNCHANGED <<reading, ended, backs>> /\ doing[w].stage = "link"
    BY <1>0, <1>2, WriterSteps DEF Link
  <2>2. doing[w].file.id \notin ended /\ doing[w].file.id \notin Ids
    BY <1>0, <2>1 DEF OneReportEach, Writing, Unpublished, Ids
  <2>3. \A f \in published' : doing[w].file.id \notin f.after
    BY <1>0, <2>1, <2>2 DEF OnlyWrittenOnesAreBefore
  <2>4. \A r \in Readers : doing[w].file.id \notin reading[r].before
                           /\ doing[w].file.id \notin reading[r].since
    BY <1>0, <2>2 DEF ChosenWasNewest, Ids
  <2>5. ChosenWasNewest'
    <3> SUFFICES ASSUME NEW r \in Readers
                 PROVE  /\ reading[r].before \subseteq ended
                        /\ \A id \in reading[r].since : \E f \in published' : f.id = id
                        /\ reading[r].stage = "chosen" =>
                             /\ reading[r].file \in published'
                             /\ \A g \in files' : Older(reading[r].file, g) => g.id \notin reading[r].since
                             /\ SteadyClock => \A f \in published', g \in files' :
                                  f.id \in reading[r].before /\ SameName(g, reading[r].file) => g.id \notin f.after
      BY <2>1 DEF ChosenWasNewest, Older, SameName, SteadyClock
    <3>1. \A id \in reading[r].since : \E f \in published' : f.id = id
      BY <1>0, <2>1 DEF ChosenWasNewest
    <3> QED
      BY <1>0, <2>1, <2>3, <2>4, <3>1 DEF ChosenWasNewest
  <2>6. ASSUME NEW r \in Readers, reading[r].stage = "lost"
        PROVE  SteadyClock => Cardinality(Ids' \ reading[r].since) >= Keep
    <3>1. IsFiniteSet(Ids \ reading[r].since) /\ IsFiniteSet(Ids' \ reading[r].since)
      <4>1. IsFiniteSet(published) /\ IsFiniteSet(published \cup {doing[w].file})
        BY <1>0, FS_AddElement DEF ReadersTyped
      <4>2. IsFiniteSet(Ids) /\ IsFiniteSet(Ids \cup {doing[w].file.id})
        BY <4>1, IdsAreFinite, FS_AddElement
      <4>3. Ids' = Ids \cup {doing[w].file.id}
        BY <2>1 DEF Ids
      <4> QED
        BY <4>2, <4>3, FS_Subset
    <3>2. (Ids \ reading[r].since) \in SUBSET (Ids' \ reading[r].since)
      BY <2>1 DEF Ids
    <3>3. /\ Cardinality(Ids \ reading[r].since) <= Cardinality(Ids' \ reading[r].since)
          /\ Cardinality(Ids \ reading[r].since) \in Nat /\ Cardinality(Ids' \ reading[r].since) \in Nat
      BY <3>1, <3>2, FS_Subset, FS_CardinalityType
    <3>4. SteadyClock => Cardinality(Ids \ reading[r].since) >= Keep
      BY <1>0, <2>6 DEF StatusIsCurrent, Ids
    <3> QED
      BY <3>3, <3>4, KeepAssumption
  <2>7. StatusIsCurrent'
    <3> SUFFICES ASSUME SteadyClock, NEW r \in Readers
                 PROVE  /\ reading[r].stage = "read" => \A f \in published' :
                             f.id \in reading[r].before => reading[r].file.id \notin f.after
                        /\ reading[r].stage = "lost" => Cardinality(Ids' \ reading[r].since) >= Keep
      BY <2>1 DEF StatusIsCurrent, SteadyClock, Ids
    <3> QED
      BY <1>0, <2>1, <2>4, <2>6 DEF StatusIsCurrent
  <2> QED
    BY <2>5, <2>7
<1>3. ASSUME NEW r \in Readers, ReadStep(r),
             /\ reading'[r].before \subseteq ended
             /\ \A id \in reading'[r].since : \E f \in published : f.id = id
             /\ reading'[r].stage = "chosen" =>
                  /\ reading'[r].file \in published
                  /\ \A g \in files : Older(reading'[r].file, g) => g.id \notin reading'[r].since
                  /\ SteadyClock => \A f \in published, g \in files :
                       f.id \in reading'[r].before /\ SameName(g, reading'[r].file) => g.id \notin f.after
             /\ SteadyClock =>
                  /\ reading'[r].stage = "read" =>
                       \A f \in published : f.id \in reading'[r].before => reading'[r].file.id \notin f.after
                  /\ reading'[r].stage = "lost" => Cardinality(Ids \ reading'[r].since) >= Keep
      PROVE  ChosenWasNewest' /\ StatusIsCurrent'
  <2>1. /\ UNCHANGED <<files, ended, published, backs>>
        /\ \A q \in Readers : q # r => reading'[q] = reading[q]
    BY <1>0, <1>3 DEF ReadStep, Choose, Read, Again
  <2>2. ChosenWasNewest'
    <3> SUFFICES ASSUME NEW q \in Readers
                 PROVE  /\ reading'[q].before \subseteq ended
                        /\ \A id \in reading'[q].since : \E f \in published : f.id = id
                        /\ reading'[q].stage = "chosen" =>
                             /\ reading'[q].file \in published
                             /\ \A g \in files : Older(reading'[q].file, g) => g.id \notin reading'[q].since
                             /\ SteadyClock => \A f \in published, g \in files :
                                  f.id \in reading'[q].before /\ SameName(g, reading'[q].file) => g.id \notin f.after
      BY <2>1 DEF ChosenWasNewest, Older, SameName, SteadyClock
    <3> QED
      BY <1>0, <1>3, <2>1 DEF ChosenWasNewest
  <2>3. StatusIsCurrent'
    <3> SUFFICES ASSUME SteadyClock, NEW q \in Readers
                 PROVE  /\ reading'[q].stage = "read" => \A f \in published :
                             f.id \in reading'[q].before => reading'[q].file.id \notin f.after
                        /\ reading'[q].stage = "lost" => Cardinality(Ids \ reading'[q].since) >= Keep
      BY <2>1 DEF StatusIsCurrent, SteadyClock, Ids
    <3> QED
      BY <1>0, <1>3, <2>1 DEF StatusIsCurrent, Ids
  <2> QED
    BY <2>2, <2>3
<1>4. ASSUME NEW r \in Readers, Choose(r) PROVE ChosenWasNewest' /\ StatusIsCurrent'
  <2>1. PICK c \in Latest : reading'[r] =
          [stage |-> "chosen", file |-> c, before |-> ended, since |-> Ids]
    BY <1>0, <1>4 DEF Choose, Ids
  <2>2. c \in files /\ c \in File /\ files \subseteq File /\ \A g \in files : g = c \/ Older(g, c)
    BY <1>0 DEF Latest, Typed
  <2>3. \A g \in files : ~Older(c, g)
    BY <2>2, OlderIsAnOrder
  <2>4. \A g \in files : SameName(g, c) => g = c
    BY <1>0, <2>2 DEF NamesDiffer
  <2>5. SteadyClock => \A f \in published : c.id \notin f.after
    BY <1>0, NewestIsNotSuperseded
  <2>6. /\ reading'[r].stage = "chosen" /\ reading'[r].file = c
        /\ reading'[r].before = ended /\ reading'[r].since = Ids
    BY <2>1
  <2>7. \A id \in Ids : \E f \in published : f.id = id
    BY DEF Ids
  <2>8. ReadStep(r) /\ c \in published
    BY <1>0, <1>4, <2>2 DEF ReadStep
  <2> QED
    BY <1>3, <2>3, <2>4, <2>5, <2>6, <2>7, <2>8
<1>5. ASSUME NEW r \in Readers, Read(r) PROVE ChosenWasNewest' /\ StatusIsCurrent'
  <2>1. /\ reading[r].stage = "chosen" /\ ReadStep(r)
        /\ reading'[r].before = reading[r].before /\ reading'[r].since = reading[r].since
    BY <1>0, <1>5 DEF Read, ReadStep, Reading
  <2>2. CASE reading'[r].stage = "read"
    <3>1. PICK g \in files : SameName(g, reading[r].file) /\ reading'[r].file = g
      BY <1>0, <1>5, <2>2 DEF Read, Reading
    <3>2. SteadyClock => \A f \in published : f.id \in reading[r].before => g.id \notin f.after
      BY <1>0, <2>1, <3>1 DEF ChosenWasNewest
    <3> QED
      BY <1>0, <1>3, <2>1, <2>2, <3>1, <3>2 DEF ChosenWasNewest
  <2>3. CASE reading'[r].stage = "lost" /\ {g \in files : SameName(g, reading[r].file)} = {}
    <3> DEFINE c == reading[r].file
    <3>1. c \in published \ files
      BY <1>0, <2>1, <2>3 DEF ChosenWasNewest, SameName
    <3>2. Cardinality(Newer(c)) >= Keep
      BY <1>0, <3>1, GoneAreOld DEF Inv, OldEnough
    <3>3. \A g \in Newer(c) : g \in published /\ g.id \in Ids \ reading[r].since
      BY <1>0, <2>1 DEF Newer, ChosenWasNewest, Ids
    <3>4. Newer(c) \in SUBSET published /\ (Ids \ reading[r].since) \in SUBSET Ids
      BY <3>3
    <3>5. IsFiniteSet(published) /\ \A f, g \in published : f.id = g.id => f = g
      BY <1>0 DEF ReadersTyped, OneReportEach
    <3> HIDE DEF c
    <3>6. Cardinality(Newer(c)) <= Cardinality(Ids \ reading[r].since)
      BY <3>3, <3>4, <3>5, IdsCountReports
    <3>7. Cardinality(Newer(c)) \in Nat /\ Cardinality(Ids \ reading[r].since) \in Nat
      BY <3>4, <3>5, IdsAreFinite, FS_Subset, FS_CardinalityType
    <3>8. Cardinality(Ids \ reading[r].since) >= Keep
      BY <3>2, <3>6, <3>7, KeepAssumption
    <3> QED
      BY <1>0, <1>3, <2>1, <2>3, <3>8 DEF ChosenWasNewest
  <2> QED
    BY <1>0, <1>5, <2>2, <2>3 DEF Read, Reading
<1>6. ASSUME NEW r \in Readers, Again(r) PROVE ChosenWasNewest' /\ StatusIsCurrent'
  <2>1. reading'[r] = AtRest /\ ReadStep(r)
    BY <1>0, <1>6 DEF Again, ReadStep
  <2>2. AtRest.stage = "idle" /\ AtRest.before = {} /\ AtRest.since = {}
    BY DEF AtRest
  <2> QED
    BY <1>3, <2>1, <2>2
<1>7. ASSUME NEW w \in Writers, WriteStep(w), published' = published PROVE ChosenWasNewest' /\ StatusIsCurrent'
  <2>1. UNCHANGED <<reading, backs>> /\ ended \subseteq ended'
    BY <1>7 DEF WriteStep, Begin, Create, List, Link, Look, Prune, Fail
  <2>2. files' \subseteq files
    <3>1. CASE Link(w)
      <4>1. doing[w].stage = "link"
        BY <3>1 DEF Link
      <4>2. doing[w].file \notin published
        BY <1>0, <4>1 DEF OneReportEach, Unpublished
      <4> QED
        BY <1>0, <1>7, <3>1, <4>2, WriterSteps
    <3> QED
      BY <1>7, <3>1 DEF WriteStep, Begin, Create, List, Look, Prune, Fail
  <2> QED
    BY <1>1, <1>7, <2>1, <2>2 DEF SteadyClock
<1>8. ASSUME NEW w \in Writers, WriteStep(w), published' # published PROVE Link(w)
  BY <1>8 DEF WriteStep, Begin, Create, List, Look, Prune, Fail
<1>9. CASE TimePasses \/ SetBack \/ UNCHANGED vars
  <2>1. SteadyClock' => SteadyClock
    BY <1>0, <1>9 DEF TimePasses, SetBack, vars, SteadyClock, ReadersTyped
  <2> QED
    BY <1>1, <1>9, <2>1 DEF TimePasses, SetBack, vars
<1> QED
  BY <1>2, <1>4, <1>5, <1>6, <1>7, <1>8, <1>9 DEF Next, ReadStep

LEMMA NamesInit == Init => NamesInv
<1> SUFFICES ASSUME Init PROVE NamesInv
  OBVIOUS
<1>1. Inv /\ ReadersTyped
  <2>1. AtRest \in Reading
    BY DEF AtRest, Reading, NoFile, File
  <2> QED
    BY <2>1, InvInit, FS_EmptySet DEF Init, ReadersTyped
<1>2. \A w \in Writers : doing[w] = Idle
  BY DEF Init
<1>3. Idle.stage = "idle" /\ Idle.file.after = {} /\ Idle.file.at = 0
  BY DEF Idle, NoFile
<1>4. OneReportEach /\ OnlyWrittenOnesAreBefore /\ NamesFollow
  BY <1>2, <1>3 DEF Init, OneReportEach, Writing, Unpublished, OnlyWrittenOnesAreBefore, NamesFollow
<1>5. \A r \in Readers : reading[r].stage = "idle" /\ reading[r].before = {} /\ reading[r].since = {}
  BY DEF Init, AtRest
<1>6. ChosenWasNewest /\ StatusIsCurrent
  BY <1>5 DEF ChosenWasNewest, StatusIsCurrent
<1> QED
  BY <1>1, <1>4, <1>6 DEF NamesInv

(* Names, passes and what readers were given agree in every reachable      *)
(* state.                                                                  *)
THEOREM ReportNamesInvariant == Spec => []NamesInv
<1>1. NamesInv /\ Inv' /\ [Next]_vars => NamesInv'
  BY IdsStep, NamesStep, ReadersTypedStep, ReaderStep DEF NamesInv, Inv
<1> QED
  BY <1>1, NamesInit, ReportsInvariant, PTL DEF Spec

(* While the clock is steady, a report written after another had been      *)
(* written sorts after it, for any number of writers, reports and pruned   *)
(* gaps (store.go:152-153).                                                *)
THEOREM ReportNamesFollowPasses == Spec => []NamesFollowPasses
<1>1. NamesInv => NamesFollowPasses
  BY DEF NamesInv, Inv, Typed, NamesFollow, NamesFollowPasses
<1> QED
  BY <1>1, ReportNamesInvariant, PTL

(* While the clock is steady, no reader is given a report that was         *)
(* superseded before it looked, and it is refused only when as many were   *)
(* published meanwhile as are kept (store.go:58-68).                       *)
THEOREM ReportsStatusIsCurrent == Spec => []StatusIsCurrent
<1>1. NamesInv => StatusIsCurrent
  BY DEF NamesInv
<1> QED
  BY <1>1, ReportNamesInvariant, PTL
=============================================================================
