----------------------------- MODULE LoopProofs -----------------------------
(***************************************************************************)
(* Proofs about the resident process: its timer ends on the host's tick,   *)
(* its interval is stretched by the remote alone, and what it serves is of *)
(* the passes it claims to be of.                                          *)
(***************************************************************************)
EXTENDS Loop, TLAPS, FiniteSetTheorems, WellFoundedInduction

USE LongestAssumption

(***************************************************************************)
(* Remainders.                                                             *)
(***************************************************************************)

LEMMA DivMod ==
  ASSUME NEW a \in Int, NEW b \in Nat \ {0}
  PROVE  /\ a \div b \in Int /\ a % b \in 0..(b - 1)
         /\ a = b * (a \div b) + (a % b)
OBVIOUS

LEMMA AtLeast ==
  ASSUME NEW b \in Nat \ {0}, NEW k \in Nat \ {0}
  PROVE  b * k \in Nat /\ b * k >= b
OBVIOUS

(* What is left by whole multiples of b is the remainder by b.             *)
LEMMA ModUnique ==
  ASSUME NEW b \in Nat \ {0}, NEW q \in Int, NEW r \in 0..(b - 1)
  PROVE  (b * q + r) % b = r
<1> DEFINE a == b * q + r
           p == a \div b
<1>1. a \in Int
  OBVIOUS
<1>2. p \in Int /\ a % b \in 0..(b - 1) /\ a = b * p + (a % b)
  BY <1>1, DivMod
<1>3. b * (p - q) = r - (a % b) /\ b * (q - p) = (a % b) - r
  BY <1>2
<1>4. ~(p - q >= 1)
  BY <1>2, <1>3, AtLeast
<1>5. ~(q - p >= 1)
  BY <1>2, <1>3, AtLeast
<1> QED
  BY <1>2, <1>4, <1>5

(* Whole multiples of b do not change the remainder by b.                  *)
LEMMA ModShift ==
  ASSUME NEW b \in Nat \ {0}, NEW a \in Int, NEW q \in Int
  PROVE  (a + b * q) % b = a % b
<1>1. a \div b \in Int /\ a % b \in 0..(b - 1) /\ a = b * (a \div b) + (a % b)
  BY DivMod
<1> DEFINE p == (a \div b) + q
           r == a % b
<1>2. p \in Int /\ r \in 0..(b - 1) /\ a + b * q = b * p + r
  BY <1>1
<1> HIDE DEF p, r
<1>3. (b * p + r) % b = r
  BY <1>2, ModUnique
<1> QED
  BY <1>2, <1>3 DEF r

(* A clock that is kept modulo a multiple of b shows the same time in b.   *)
LEMMA WrapKeepsPhase ==
  ASSUME NEW b \in Nat \ {0}, NEW k \in Nat \ {0}, NEW a \in Int, NEW w \in Int
  PROVE  ((a % (b * k)) + w) % b = (a + w) % b
<1> DEFINE p == b * k
<1>1. p \in Nat \ {0}
  <2>1. p \in Nat /\ p >= b
    BY AtLeast
  <2> QED
    BY <2>1
<1>2. PICK q \in Int, r \in Int : r = a % p /\ a = p * q + r
  <2> HIDE DEF p
  <2>1. a \div p \in Int /\ a % p \in 0..(p - 1) /\ a = p * (a \div p) + (a % p)
    BY <1>1, DivMod
  <2>2. a % p \in Int
    BY <1>1, <2>1
  <2> QED
    BY <2>1, <2>2
<1>3. p * q = b * (k * q) /\ k * q \in Int
  OBVIOUS
<1> DEFINE m == k * q
<1>4. m \in Int /\ r + w \in Int /\ a + w = (r + w) + b * m
  BY <1>2, <1>3
<1> HIDE DEF m
<1>5. ((r + w) + b * m) % b = (r + w) % b
  BY <1>4, ModShift
<1> QED
  BY <1>2, <1>4, <1>5

(***************************************************************************)
(* The schedule.                                                           *)
(***************************************************************************)

Schedules == [interval : 1..Longest, offset : Nat, upstream : 0..3]

LEMMA EveryIsSane ==
  ASSUME NEW s \in Schedules
  PROVE  /\ Sched!Every(s) \in 1..Longest
         /\ 8 * s.interval <= Longest => Sched!Every(s) = s.interval * Ladder[s.upstream + 1]
<1>1. Sched!Backoff(s) = Ladder[s.upstream + 1] /\ Sched!Backoff(s) \in {1, 2, 4, 8}
  BY DEF Sched!Backoff, Sched!MaxBackoff, Schedules, Ladder
<1>2. CASE Sched!Backoff(s) = 1
  <2>1. Longest \div 1 = Longest
    BY DivMod
  <2> QED
    BY <1>1, <1>2, <2>1 DEF Sched!Every, Schedules
<1>3. CASE Sched!Backoff(s) = 2
  BY <1>1, <1>3 DEF Sched!Every, Schedules
<1>4. CASE Sched!Backoff(s) = 4
  BY <1>1, <1>4 DEF Sched!Every, Schedules
<1>5. CASE Sched!Backoff(s) = 8
  BY <1>1, <1>5 DEF Sched!Every, Schedules
<1> QED
  BY <1>1, <1>2, <1>3, <1>4, <1>5

(* The phase is the remainder that is never negative, before the epoch too. *)
LEMMA PhaseIsTheRemainder ==
  ASSUME NEW now_ \in Int, -Longest <= now_, now_ <= Longest, NEW every \in Nat \ {0}
  PROVE  Sched!Phase(now_, every) = now_ % every
<1>1. Sched!Elapsed(now_) = now_
  BY DEF Sched!Elapsed
<1>2. CASE now_ >= 0
  BY <1>1, <1>2, DivMod DEF Sched!Phase, Sched!Remainder
<1>3. CASE now_ < 0
  <2> DEFINE minus == -now_
             r == minus % every
             q == minus \div every
  <2>1. q \in Int /\ r \in 0..(every - 1) /\ minus = every * q + r /\ minus \in Int
    <3>1. minus \in Int
      OBVIOUS
    <3> HIDE DEF minus
    <3> QED
      BY <3>1, DivMod
  <2>2. CASE r = 0
    <3>1. now_ = every * (-q) + 0
      BY <2>1, <2>2
    <3>2. -q \in Int /\ 0 \in 0..(every - 1)
      BY <2>1
    <3>3. now_ % every = 0
      BY <3>1, <3>2, ModUnique
    <3> QED
      BY <1>1, <1>3, <2>2, <3>3 DEF Sched!Phase, Sched!Remainder
  <2>3. CASE r # 0
    <3>1. now_ = every * (-q - 1) + (every - r) /\ every - r \in 0..(every - 1)
      BY <2>1, <2>3
    <3>2. -q - 1 \in Int
      BY <2>1
    <3>3. now_ % every = every - r
      BY <3>1, <3>2, ModUnique
    <3> QED
      BY <1>1, <1>3, <2>1, <2>3, <3>3 DEF Sched!Phase, Sched!Remainder
  <2> QED
    BY <2>2, <2>3
<1> QED
  BY <1>2, <1>3

(* Waiting ends at the host's offset, after now and within one round.      *)
THEOREM WaitEndsAtTheTick ==
  ASSUME NEW s \in Schedules, NEW now_ \in Int, -Longest <= now_, now_ <= Longest
  PROVE  /\ Sched!Wait(s, now_) \in 1..Sched!Every(s)
         /\ (now_ + Sched!Wait(s, now_)) % Sched!Every(s) = s.offset % Sched!Every(s)
<1> DEFINE e == Sched!Every(s)
           o == s.offset % e
           d == o - Sched!Phase(now_, e)
           w == Sched!Wait(s, now_)
<1>1. e \in Nat \ {0}
  BY EveryIsSane
<1>2. o \in 0..(e - 1) /\ now_ % e \in 0..(e - 1) /\ Sched!Phase(now_, e) = now_ % e
  <2> HIDE DEF e
  <2>1. s.offset \in Int
    BY DEF Schedules
  <2>2. s.offset % e \in 0..(e - 1)
    BY <1>1, <2>1, DivMod
  <2>3. now_ % e \in 0..(e - 1)
    BY <1>1, DivMod
  <2> QED
    BY <1>1, <2>2, <2>3, PhaseIsTheRemainder
<1>3. now_ \div e \in Int /\ now_ = e * (now_ \div e) + (now_ % e)
  BY <1>1, DivMod
<1>4. w = IF d <= 0 THEN d + e ELSE d
  BY DEF Sched!Wait
<1> HIDE DEF e, o, w
<1>5. w \in 1..e
  BY <1>1, <1>2, <1>4
<1>6. \E q \in Int : now_ + w = e * q + o
  <2>1. CASE d <= 0
    <3>1. now_ + w = e * ((now_ \div e) + 1) + o
      BY <1>1, <1>2, <1>3, <1>4, <2>1
    <3> QED
      BY <1>3, <3>1
  <2>2. CASE ~(d <= 0)
    <3>1. now_ + w = e * (now_ \div e) + o
      BY <1>1, <1>2, <1>3, <1>4, <2>2
    <3> QED
      BY <1>3, <3>1
  <2> QED
    BY <2>1, <2>2
<1>7. (now_ + w) % e = o
  BY <1>1, <1>2, <1>6, ModUnique
<1> QED
  BY <1>5, <1>7 DEF e, o, w

(***************************************************************************)
(* The inductive invariant.                                                *)
(***************************************************************************)

Offset == IF setting.splay = 0 THEN 0 ELSE setting.hash % setting.splay

Reports == [pass : Passes \cup {Never}, fine : BOOLEAN]

Registries == [latest : Reports, attempt : Passes \cup {Never}, success : Passes \cup {Never},
               failures : 0..MaxFailures]

Three(n) == IF n < 3 THEN n ELSE 3

(* The schedule is this host's and counts the upstream failures in a row   *)
(* as far as the ladder goes; they are among the failures that the registry *)
(* counts, whose latest success is not older than a report that says so.   *)
Remembers ==
  /\ schedule \in Schedules
  /\ schedule.interval = setting.interval /\ schedule.offset = Offset
  /\ registry \in Registries
  /\ streak \in 0..MaxFailures
  /\ schedule.upstream = Three(streak)
  /\ streak <= registry.failures
  /\ registry.latest.fine => registry.success = registry.latest.pass

(* The timer was set for one round of the schedule there is, and unless    *)
(* the clock was set it ends on the host's tick.                           *)
KeepsTime ==
  /\ now \in 0..(setting.period - 1) /\ wait \in 0..setting.period
  /\ stage = "waiting" => wait <= Sched!Every(schedule)
  /\ stage = "waiting" /\ wait > 0 /\ steady =>
       (now + wait) % Sched!Every(schedule) = schedule.offset % Sched!Every(schedule)

(* A report that was recorded is the one on disk, and an attempt is newer  *)
(* than the latest report only for a reason.                               *)
ShowsTheDisk ==
  /\ disk \in Reports
  /\ Running /\ stage # "reported" /\ ~apart => registry.latest = disk
  /\ stage = "waiting" /\ registry.attempt # registry.latest.pass => stopping \/ registry.failures > 0

(* A process that is gone starts without a streak.                         *)
StartsAfresh ==
  /\ setting \in Settings
  /\ stage \in {"waiting", "passing", "reported", "down", "crashed"}
  /\ stopping \in BOOLEAN /\ command \in BOOLEAN /\ steady \in BOOLEAN /\ apart \in BOOLEAN
  /\ ~Running => streak = 0

LoopInv == Remembers /\ KeepsTime /\ ShowsTheDisk /\ StartsAfresh

-----------------------------------------------------------------------------
(* A host of Settings: its rounds fit the clock.                           *)

LEMMA Rounds ==
  ASSUME NEW host \in Settings, NEW s \in Schedules, s.interval = host.interval
  PROVE  /\ Sched!Every(s) \in 1..host.period
         /\ Sched!Every(s) = host.interval * Ladder[s.upstream + 1]
         /\ \E k \in Nat \ {0} : host.period = Sched!Every(s) * k
<1> DEFINE i == host.interval
           p == host.period
           L == Ladder[s.upstream + 1]
<1>1. /\ i \in Nat \ {0} /\ p \in 1..Longest /\ p % (8 * i) = 0
  BY SettingsAssumption
<1>2. L \in {1, 2, 4, 8}
  BY DEF Ladder, Schedules
<1> HIDE DEF i, p, L
<1>3. PICK m \in Int : p = (8 * i) * m
  <2> DEFINE b == 8 * i
  <2>1. b \in Nat \ {0} /\ p \in Int
    BY <1>1
  <2>2. p % b = 0
    BY <1>1
  <2> HIDE DEF b
  <2>3. p \div b \in Int /\ p = b * (p \div b) + (p % b)
    BY <2>1, DivMod
  <2>4. p = b * (p \div b)
    BY <2>1, <2>2, <2>3
  <2> QED
    BY <2>3, <2>4 DEF b
<1>4. m \in Nat \ {0}
  <2>1. SUFFICES ASSUME ~(m >= 1) PROVE FALSE
    OBVIOUS
  <2>2. i * m <= 0
    BY <1>1, <2>1
  <2> QED
    BY <1>1, <1>3, <2>2
<1>5. i * m >= i /\ i * m \in Nat
  BY <1>1, <1>4, AtLeast
<1>6. p = 8 * (i * m)
  BY <1>1, <1>3, <1>4
<1>7. 8 * i <= p
  BY <1>1, <1>5, <1>6
<1>8. Sched!Every(s) = i * L
  <2>1. 8 * s.interval <= Longest
    BY <1>1, <1>7 DEF i
  <2> QED
    BY <2>1, EveryIsSane DEF i, L
<1>9. i * L \in 1..p
  BY <1>1, <1>2, <1>7
<1>10. \E k \in Nat \ {0} : p = (i * L) * k
  <2>1. CASE L = 1
    <3>1. p = (i * L) * (8 * m) /\ 8 * m \in Nat \ {0}
      BY <1>1, <1>4, <1>6, <2>1
    <3> QED
      BY <3>1
  <2>2. CASE L = 2
    <3>1. p = (i * L) * (4 * m) /\ 4 * m \in Nat \ {0}
      BY <1>1, <1>4, <1>6, <2>2
    <3> QED
      BY <3>1
  <2>3. CASE L = 4
    <3>1. p = (i * L) * (2 * m) /\ 2 * m \in Nat \ {0}
      BY <1>1, <1>4, <1>6, <2>3
    <3> QED
      BY <3>1
  <2>4. CASE L = 8
    BY <1>1, <1>4, <1>6, <2>4
  <2> QED
    BY <1>2, <2>1, <2>2, <2>3, <2>4
<1> QED
  BY <1>8, <1>9, <1>10 DEF i, p, L

LEMMA OffsetIsNat ==
  ASSUME setting \in Settings
  PROVE  Offset \in Nat
<1>1. setting.splay \in Nat /\ setting.hash \in Nat
  BY SettingsAssumption
<1>2. CASE setting.splay = 0
  BY <1>2 DEF Offset
<1>3. CASE setting.splay # 0
  <2> DEFINE h == setting.hash
             p == setting.splay
  <2>1. h \in Int /\ p \in Nat \ {0}
    BY <1>1, <1>3
  <2> HIDE DEF h, p
  <2>2. h % p \in 0..(p - 1)
    BY <2>1, DivMod
  <2>3. h % p \in Nat
    BY <2>1, <2>2
  <2> QED
    BY <1>3, <2>3 DEF Offset, h, p
<1> QED
  BY <1>2, <1>3

(* Setting the timer makes it right, whatever it was.                      *)
LEMMA ArmKeepsTime ==
  ASSUME setting \in Settings, now \in 0..(setting.period - 1), setting' = setting,
         Remembers', Arm(schedule')
  PROVE  KeepsTime' /\ stage' = "waiting" /\ steady' = TRUE
<1>1. /\ schedule' \in Schedules /\ schedule'.interval = setting.interval
  BY DEF Remembers
<1>2. setting.period \in 1..Longest
  BY SettingsAssumption
<1>3. Sched!Every(schedule') \in 1..setting.period
  BY <1>1, Rounds
<1>4. now \in Int /\ -Longest <= now /\ now <= Longest
  BY <1>2
<1>5. /\ Sched!Wait(schedule', now) \in 1..Sched!Every(schedule')
      /\ (now + Sched!Wait(schedule', now)) % Sched!Every(schedule') = schedule'.offset % Sched!Every(schedule')
  BY <1>1, <1>4, WaitEndsAtTheTick
<1>6. stage' = "waiting" /\ steady' = TRUE /\ now' = now /\ wait' = Sched!Wait(schedule', now)
  BY DEF Arm
<1>7. wait' \in 1..Sched!Every(schedule') /\ wait' \in 0..setting.period
  BY <1>2, <1>3, <1>5, <1>6
<1>8. Sched!Every(schedule)' = Sched!Every(schedule')
  BY DEF Sched!Every, Sched!Backoff, Sched!MaxBackoff
<1> QED
  BY <1>2, <1>3, <1>5, <1>6, <1>7, <1>8 DEF KeepsTime

-----------------------------------------------------------------------------
(* What an action does to the memory of the process.                       *)

LEMMA CountedIsMore ==
  ASSUME NEW n \in 0..MaxFailures
  PROVE  /\ Counted(n) \in 0..MaxFailures /\ Counted(n) > 0 /\ n <= Counted(n)
         /\ Three(Counted(n)) = (IF Three(n) < 3 THEN Three(n) + 1 ELSE 3)
         /\ \A m \in 0..MaxFailures : n <= m => Counted(n) <= Counted(m)
BY FailuresAssumption DEF Counted, Three

(* One more upstream failure is one rung up; anything else is back down.   *)
LEMMA RecordClimbs ==
  ASSUME Remembers, NEW failure, schedule' = Sched!Record(schedule, failure), Streak(failure)
  PROVE  /\ schedule' \in Schedules
         /\ schedule'.interval = schedule.interval /\ schedule'.offset = schedule.offset
         /\ streak' \in 0..MaxFailures
         /\ schedule'.upstream = Three(streak')
         /\ streak' <= Counted(registry.failures)
         /\ failure # "upstream" => streak' = 0
<1>1. /\ schedule \in Schedules /\ streak \in 0..MaxFailures /\ schedule.upstream = Three(streak)
      /\ registry.failures \in 0..MaxFailures /\ streak <= registry.failures
  BY DEF Remembers, Registries
<1>2. schedule = [interval |-> schedule.interval, offset |-> schedule.offset, upstream |-> schedule.upstream]
  BY <1>1 DEF Schedules
<1>3. CASE failure # "upstream"
  <2>1. schedule' = [schedule EXCEPT !.upstream = 0] /\ streak' = 0
    BY <1>3 DEF Sched!Record, Streak
  <2> QED
    BY <1>1, <1>3, <2>1, CountedIsMore, FailuresAssumption DEF Schedules, Three
<1>4. CASE failure = "upstream"
  <2>1. streak' = Counted(streak) /\ Counted(streak) <= Counted(registry.failures)
    BY <1>1, <1>4, CountedIsMore DEF Streak
  <2>2. Sched!Backoff(schedule) < Sched!MaxBackoff <=> schedule.upstream < 3
    BY <1>1 DEF Schedules, Sched!Backoff, Sched!MaxBackoff
  <2>3. schedule' = IF schedule.upstream < 3 THEN [schedule EXCEPT !.upstream = @ + 1] ELSE schedule
    BY <1>4, <2>2 DEF Sched!Record
  <2>4. Three(streak') = IF schedule.upstream < 3 THEN schedule.upstream + 1 ELSE 3
    BY <1>1, <2>1, CountedIsMore
  <2>5. streak' \in 0..MaxFailures
    BY <1>1, <2>1, CountedIsMore
  <2>6. schedule.upstream \in 0..3
    BY <1>1 DEF Schedules
  <2>7. CASE schedule.upstream < 3
    <3>1. schedule' = [schedule EXCEPT !.upstream = @ + 1]
      BY <2>3, <2>7
    <3>2. schedule'.upstream = schedule.upstream + 1 /\ schedule.upstream + 1 \in 0..3
      BY <1>1, <2>6, <2>7, <3>1 DEF Schedules
    <3> QED
      BY <1>1, <1>4, <2>1, <2>4, <2>5, <2>7, <3>1, <3>2 DEF Schedules
  <2>8. CASE ~(schedule.upstream < 3)
    BY <1>1, <1>4, <2>1, <2>3, <2>4, <2>5, <2>6, <2>8
  <2> QED
    BY <2>7, <2>8
<1> QED
  BY <1>3, <1>4

LEMMA HostKeeps ==
  ASSUME Remembers, setting' = setting
  PROVE  /\ Offset' = Offset
         /\ schedule.interval = setting.interval /\ schedule.offset = Offset
BY DEF Remembers, Offset

LEMMA RegistryParts ==
  ASSUME Remembers
  PROVE  /\ registry.latest \in Reports /\ registry.attempt \in Passes \cup {Never}
         /\ registry.success \in Passes \cup {Never} /\ registry.failures \in 0..MaxFailures
         /\ registry = [latest |-> registry.latest, attempt |-> registry.attempt,
                        success |-> registry.success, failures |-> registry.failures]
         /\ registry.latest.fine => registry.success = registry.latest.pass
BY DEF Remembers, Registries

LEMMA FailedRemembers ==
  ASSUME Remembers, setting' = setting, NEW failure, Failed(failure)
  PROVE  /\ Remembers'
         /\ registry'.latest = registry.latest /\ registry'.attempt = registry.attempt
         /\ registry'.failures > 0
<1>1. /\ schedule' = Sched!Record(schedule, failure) /\ Streak(failure)
      /\ registry' = [registry EXCEPT !.failures = Counted(registry.failures)]
  BY DEF Failed, Reg!RecordFailure
<1>2. /\ schedule' \in Schedules
      /\ schedule'.interval = schedule.interval /\ schedule'.offset = schedule.offset
      /\ streak' \in 0..MaxFailures /\ schedule'.upstream = Three(streak')
      /\ streak' <= Counted(registry.failures)
  BY <1>1, RecordClimbs
<1>3. /\ Counted(registry.failures) \in 0..MaxFailures /\ Counted(registry.failures) > 0
  BY RegistryParts, CountedIsMore
<1>4. /\ registry' \in Registries /\ registry'.latest = registry.latest
      /\ registry'.attempt = registry.attempt /\ registry'.success = registry.success
      /\ registry'.failures = Counted(registry.failures)
  BY <1>1, <1>3, RegistryParts DEF Registries
<1>5. Three(streak)' = Three(streak')
  BY DEF Three
<1>6. Remembers'
  BY <1>2, <1>4, <1>5, HostKeeps, RegistryParts DEF Remembers
<1> QED
  BY <1>3, <1>4, <1>6

LEMMA PassedRemembers ==
  ASSUME Remembers, setting' = setting, NEW report \in Reports, Passed(report)
  PROVE  /\ Remembers'
         /\ registry'.latest = report /\ registry'.attempt = report.pass
<1> DEFINE failure == IF report.fine THEN "none" ELSE "local"
           failures == IF report.fine THEN 0 ELSE Counted(registry.failures)
<1>1. /\ schedule' = Sched!Record(schedule, failure) /\ Streak(failure)
      /\ registry' = Reg!RecordPass(registry, report, failures)
      /\ failure # "upstream"
  BY DEF Passed
<1>2. /\ schedule' \in Schedules
      /\ schedule'.interval = schedule.interval /\ schedule'.offset = schedule.offset
      /\ streak' \in 0..MaxFailures /\ schedule'.upstream = Three(streak')
      /\ streak' = 0
  BY <1>1, RecordClimbs
<1>3. failures \in 0..MaxFailures
  BY RegistryParts, CountedIsMore, FailuresAssumption
<1>4. report.pass \in Passes \cup {Never}
  BY DEF Reports
<1> HIDE DEF failures, failure
<1>5. /\ registry' \in Registries /\ registry'.latest = report
      /\ registry'.attempt = report.pass /\ registry'.failures = failures
      /\ report.fine => registry'.success = report.pass
  BY <1>1, <1>3, <1>4, RegistryParts DEF Registries, Reg!RecordPass
<1>6. Three(streak)' = Three(streak')
  BY DEF Three
<1>7. Remembers'
  BY <1>2, <1>3, <1>5, <1>6, HostKeeps DEF Remembers
<1> QED
  BY <1>5, <1>7

LEMMA NewSchedule ==
  ASSUME setting \in Settings
  PROVE  /\ Sched!New(setting.hash, setting.interval, setting.splay) \in Schedules
         /\ Sched!New(setting.hash, setting.interval, setting.splay).interval = setting.interval
         /\ Sched!New(setting.hash, setting.interval, setting.splay).offset = Offset
         /\ Sched!New(setting.hash, setting.interval, setting.splay).upstream = 0
<1>1. /\ setting.splay \in Nat /\ setting.interval \in 1..Longest
  BY SettingsAssumption
<1>2. Sched!New(setting.hash, setting.interval, setting.splay) =
        [interval |-> setting.interval, offset |-> Offset, upstream |-> 0]
  BY <1>1 DEF Sched!New, Offset
<1> QED
  BY <1>1, <1>2, OffsetIsNat DEF Schedules

LEMMA EmptyRegistry ==
  /\ Reg!Empty \in Registries /\ ~Reg!Empty.latest.fine /\ Reg!Empty.failures = 0
  /\ Reg!Empty.latest = Reg!NoReport /\ Reg!Empty.attempt = Reg!Empty.latest.pass
  /\ Reg!NoReport \in Reports
BY FailuresAssumption DEF Reg!Empty, Reg!NoReport, Registries, Reports

LEMMA GoneRemembers ==
  ASSUME setting \in Settings, Gone
  PROVE  Remembers' /\ streak' = 0
<1>1. /\ schedule' = Sched!New(setting.hash, setting.interval, setting.splay)
      /\ streak' = 0 /\ registry' = Reg!Empty /\ setting' = setting
  BY DEF Gone
<1>2. Offset' = Offset /\ Three(streak)' = 0
  BY <1>1 DEF Offset, Three
<1>3. streak' \in 0..MaxFailures
  BY <1>1, FailuresAssumption
<1> QED
  BY <1>1, <1>2, <1>3, NewSchedule, EmptyRegistry DEF Remembers

(* A process that starts shows what is on disk.                            *)
LEMMA SeedRemembers ==
  ASSUME Remembers, streak = 0, disk \in Reports,
         setting' = setting, schedule' = schedule, streak' = streak, registry' = Seed
  PROVE  Remembers' /\ registry'.latest = disk /\ registry'.attempt = registry'.latest.pass
<1>1. /\ registry' \in Registries /\ registry'.latest = disk /\ registry'.attempt = disk.pass
      /\ registry'.failures = 0 /\ (disk.fine => registry'.success = disk.pass)
  <2>1. CASE disk = Reg!NoReport
    BY <2>1, EmptyRegistry DEF Seed
  <2>2. CASE disk # Reg!NoReport
    <3>1. registry' = Reg!RecordPass(Reg!Empty, disk, 0)
      BY <2>2 DEF Seed
    <3>2. disk.pass \in Passes \cup {Never} /\ 0 \in 0..MaxFailures
      BY FailuresAssumption DEF Reports
    <3> QED
      BY <3>1, <3>2, EmptyRegistry DEF Registries, Reg!RecordPass
  <2> QED
    BY <2>1, <2>2
<1>2. Offset' = Offset /\ Three(streak)' = Three(streak)
  BY DEF Offset, Three
<1> QED
  BY <1>1, <1>2 DEF Remembers

-----------------------------------------------------------------------------
(* A name for a pass that nothing refers to can always be found.           *)

LEMMA LeastOfNats ==
  ASSUME NEW S, S \subseteq Nat, S # {}
  PROVE  Min(S) \in S
<1>1. \E x \in S : \A y \in S : ~(<<y, x>> \in OpToRel(<, Nat))
  BY NatLessThanWellFounded, WFMin
<1>2. PICK x \in S : \A y \in S : ~(<<y, x>> \in OpToRel(<, Nat))
  BY <1>1
<1>3. OpToRel(<, Nat) = {ss \in Nat \X Nat : ss[1] < ss[2]}
  BY Zenon DEF OpToRel
<1>4. ASSUME NEW y \in S PROVE x <= y
  <2>1. <<y, x>> \in OpToRel(<, Nat) <=> y < x
    <3> DEFINE pair == <<y, x>>
    <3>1. pair \in Nat \X Nat /\ pair[1] = y /\ pair[2] = x
      OBVIOUS
    <3> HIDE DEF pair
    <3> QED
      BY <1>3, <3>1 DEF pair
  <2>2. x \in Nat /\ y \in Nat
    OBVIOUS
  <2>3. ~(y < x)
    BY <1>2, <2>1
  <2> QED
    BY <2>2, <2>3
<1> QED
  BY <1>4 DEF Min

\* One element more makes a finite set at most one larger.
LEMMA OneMoreAtMost ==
  ASSUME NEW S, NEW x, NEW n \in Nat,
         IsFiniteSet(S), Cardinality(S) \in Nat, Cardinality(S) <= n
  PROVE  /\ IsFiniteSet(S \cup {x})
         /\ Cardinality(S \cup {x}) \in Nat
         /\ Cardinality(S \cup {x}) <= n + 1
<1>1. /\ IsFiniteSet(S \cup {x})
      /\ Cardinality(S \cup {x}) = IF x \in S THEN Cardinality(S) ELSE Cardinality(S) + 1
  BY FS_AddElement
<1> DEFINE k == Cardinality(S)
           m == Cardinality(S \cup {x})
<1>2. k \in Nat /\ k <= n /\ m = IF x \in S THEN k ELSE k + 1
  BY <1>1
<1> HIDE DEF k, m
<1>3. m \in Nat /\ m <= n + 1
  BY <1>2
<1> QED
  BY <1>1, <1>3 DEF m

LEMMA FreshIsAPass ==
  Fresh \in Passes
<1> DEFINE a == registry.attempt
           b == registry.success
           c == registry.latest.pass
           d == disk.pass
<1>1. Passes \subseteq Nat /\ IsFiniteSet(Passes) /\ Cardinality(Passes) >= 5
  BY PassesAssumption
<1>2. Known = ((({} \cup {a}) \cup {b}) \cup {c}) \cup {d}
  BY DEF Known
<1> HIDE DEF a, b, c, d
<1>3. IsFiniteSet({} \cup {a}) /\ Cardinality({} \cup {a}) \in Nat /\ Cardinality({} \cup {a}) <= 0 + 1
  <2>1. DEFINE S == {}
  <2>2. IsFiniteSet(S) /\ Cardinality(S) \in Nat /\ Cardinality(S) <= 0
    <3>1. IsFiniteSet({}) /\ Cardinality({}) = 0
      BY FS_EmptySet
    <3> QED
      BY <3>1
  <2> HIDE DEF S
  <2>3. IsFiniteSet(S \cup {a}) /\ Cardinality(S \cup {a}) \in Nat /\ Cardinality(S \cup {a}) <= 0 + 1
    BY <2>2, OneMoreAtMost
  <2> QED
    BY <2>3 DEF S
<1>4. /\ IsFiniteSet(({} \cup {a}) \cup {b})
      /\ Cardinality(({} \cup {a}) \cup {b}) \in Nat /\ Cardinality(({} \cup {a}) \cup {b}) <= 1 + 1
  <2>1. DEFINE S == {} \cup {a}
  <2>2. IsFiniteSet(S) /\ Cardinality(S) \in Nat /\ Cardinality(S) <= 1
    BY <1>3
  <2> HIDE DEF S
  <2>3. IsFiniteSet(S \cup {b}) /\ Cardinality(S \cup {b}) \in Nat /\ Cardinality(S \cup {b}) <= 1 + 1
    BY <2>2, OneMoreAtMost
  <2> QED
    BY <2>3 DEF S
<1>5. /\ IsFiniteSet((({} \cup {a}) \cup {b}) \cup {c})
      /\ Cardinality((({} \cup {a}) \cup {b}) \cup {c}) \in Nat
      /\ Cardinality((({} \cup {a}) \cup {b}) \cup {c}) <= 2 + 1
  <2>1. DEFINE S == ({} \cup {a}) \cup {b}
  <2>2. IsFiniteSet(S) /\ Cardinality(S) \in Nat /\ Cardinality(S) <= 2
    BY <1>4
  <2> HIDE DEF S
  <2>3. IsFiniteSet(S \cup {c}) /\ Cardinality(S \cup {c}) \in Nat /\ Cardinality(S \cup {c}) <= 2 + 1
    BY <2>2, OneMoreAtMost
  <2> QED
    BY <2>3 DEF S
<1>6. IsFiniteSet(Known) /\ Cardinality(Known) \in Nat /\ Cardinality(Known) <= 4
  <2>1. DEFINE S == (({} \cup {a}) \cup {b}) \cup {c}
  <2>2. IsFiniteSet(S) /\ Cardinality(S) \in Nat /\ Cardinality(S) <= 3
    BY <1>5
  <2>3. Known = S \cup {d}
    BY <1>2
  <2> HIDE DEF S
  <2>4. IsFiniteSet(S \cup {d}) /\ Cardinality(S \cup {d}) \in Nat /\ Cardinality(S \cup {d}) <= 3 + 1
    BY <2>2, OneMoreAtMost
  <2> QED
    BY <2>3, <2>4
<1>7. ~(Passes \subseteq Known)
  <2>1. SUFFICES ASSUME Passes \subseteq Known PROVE FALSE
    OBVIOUS
  <2>2. Cardinality(Passes) <= Cardinality(Known)
    BY <1>6, <2>1, FS_Subset
  <2> QED
    BY <1>1, <1>6, <2>2, FS_CardinalityType
<1> QED
  BY <1>1, <1>7, LeastOfNats DEF Fresh

-----------------------------------------------------------------------------
(* The actions.                                                            *)

LEMMA LoopInvInit == Init => LoopInv
<1> SUFFICES ASSUME Init PROVE LoopInv
  OBVIOUS
<1>1. setting \in Settings /\ setting.period \in 1..Longest
  BY SettingsAssumption DEF Init
<1>2. Remembers
  <2>1. Three(streak) = 0 /\ streak \in 0..MaxFailures
    BY FailuresAssumption DEF Init, Three
  <2> QED
    BY <1>1, <2>1, NewSchedule, EmptyRegistry DEF Init, Remembers
<1>3. KeepsTime
  BY <1>1 DEF Init, KeepsTime
<1>4. disk \in Reports
  <2>1. Min(Passes) \in Passes
    <3>1. Passes # {}
      BY PassesAssumption, FS_EmptySet
    <3> QED
      BY <3>1, PassesAssumption, LeastOfNats
  <2> QED
    BY <2>1, EmptyRegistry DEF Init, Reports
<1>5. ShowsTheDisk
  BY <1>4 DEF Init, ShowsTheDisk, Running
<1> QED
  BY <1>1, <1>2, <1>3, <1>5 DEF Init, LoopInv, StartsAfresh, Running

(* What memory is left alone is still right.                               *)
LEMMA MemoryStays ==
  ASSUME Remembers, setting' = setting, UNCHANGED memory
  PROVE  Remembers'
<1>1. schedule' = schedule /\ registry' = registry /\ streak' = streak
  BY DEF memory
<1>2. Offset' = Offset /\ Three(streak)' = Three(streak)
  BY <1>1 DEF Offset, Three
<1> QED
  BY <1>1, <1>2 DEF Remembers

(* The clocks too, if no timer was set meanwhile.                          *)
LEMMA ClocksStay ==
  ASSUME KeepsTime, setting' = setting, UNCHANGED clocks, schedule' = schedule,
         stage' = "waiting" => stage = "waiting"
  PROVE  KeepsTime'
<1>1. now' = now /\ wait' = wait /\ steady' = steady
  BY DEF clocks
<1>2. Sched!Every(schedule)' = Sched!Every(schedule)
  BY DEF Sched!Every, Sched!Backoff, Sched!MaxBackoff
<1> QED
  BY <1>1, <1>2 DEF KeepsTime

LEMMA TickKeeps ==
  ASSUME LoopInv, Tick
  PROVE  LoopInv'
<1>1. /\ setting \in Settings /\ setting' = setting /\ stopping' = stopping /\ command' = command
      /\ disk' = disk /\ apart' = apart /\ stage = "waiting" /\ wait = 0
      /\ now \in 0..(setting.period - 1) /\ disk \in Reports
      /\ stopping \in BOOLEAN /\ command \in BOOLEAN /\ apart \in BOOLEAN
      /\ Remembers
  BY DEF LoopInv, Tick, StartsAfresh, KeepsTime, ShowsTheDisk
<1>2. CASE /\ stage' = "passing" /\ registry' = Reg!RecordAttempt(registry, Fresh)
           /\ steady' = TRUE /\ UNCHANGED <<now, wait, schedule, streak>>
  <2>1. /\ registry' \in Registries /\ registry'.latest = registry.latest
        /\ registry'.failures = registry.failures /\ registry'.success = registry.success
    BY <1>1, <1>2, FreshIsAPass, RegistryParts DEF Registries, Reg!RecordAttempt
  <2>2. Offset' = Offset /\ Three(streak)' = Three(streak)
    BY <1>1, <1>2 DEF Offset, Three
  <2>3. Remembers'
    BY <1>1, <1>2, <2>1, <2>2 DEF Remembers
  <2>4. KeepsTime'
    BY <1>1, <1>2 DEF LoopInv, KeepsTime
  <2>5. ShowsTheDisk'
    BY <1>1, <1>2, <2>1 DEF LoopInv, ShowsTheDisk, Running
  <2> QED
    BY <1>1, <1>2, <2>3, <2>4, <2>5 DEF LoopInv, StartsAfresh, Running
<1>3. CASE Arm(schedule) /\ UNCHANGED memory
  <2>1. schedule' = schedule /\ Remembers'
    BY <1>1, <1>3, MemoryStays DEF memory
  <2>2. KeepsTime' /\ stage' = "waiting" /\ steady' = TRUE
    BY <1>1, <1>3, <2>1, ArmKeepsTime
  <2>3. ShowsTheDisk'
    BY <1>1, <1>3, <2>2 DEF LoopInv, ShowsTheDisk, Running, memory
  <2> QED
    BY <1>1, <2>1, <2>2, <2>3 DEF LoopInv, StartsAfresh, Running
<1>4. CASE Failed("local") /\ Arm(schedule')
  <2>1. /\ Remembers' /\ registry'.latest = registry.latest /\ registry'.failures > 0
    BY <1>1, <1>4, FailedRemembers
  <2>2. KeepsTime' /\ stage' = "waiting" /\ steady' = TRUE
    BY <1>1, <1>4, <2>1, ArmKeepsTime
  <2>3. ShowsTheDisk'
    BY <1>1, <2>1, <2>2 DEF LoopInv, ShowsTheDisk, Running
  <2> QED
    BY <1>1, <2>1, <2>2, <2>3 DEF LoopInv, StartsAfresh, Running
<1> QED
  BY <1>2, <1>3, <1>4 DEF Tick

LEMMA PassErrsKeeps ==
  ASSUME LoopInv, PassErrs
  PROVE  LoopInv'
<1>1. /\ setting \in Settings /\ setting' = setting /\ stopping' = stopping /\ command' = command
      /\ disk' = disk /\ apart' = apart /\ stage = "passing"
      /\ now \in 0..(setting.period - 1) /\ disk \in Reports
      /\ stopping \in BOOLEAN /\ command \in BOOLEAN /\ apart \in BOOLEAN
      /\ Remembers /\ Arm(schedule')
  BY DEF LoopInv, PassErrs, StartsAfresh, KeepsTime, ShowsTheDisk
<1>2. /\ Remembers' /\ registry'.latest = registry.latest
      /\ stopping \/ registry'.failures > 0
  <2>1. CASE stopping
    <3>1. UNCHANGED memory
      BY <2>1 DEF PassErrs, Abandon
    <3> QED
      BY <1>1, <2>1, <3>1, MemoryStays DEF memory
  <2>2. CASE ~stopping
    <3>1. PICK failure \in {"upstream", "local"} : Failed(failure)
      BY <2>2 DEF PassErrs, Abandon
    <3> QED
      BY <1>1, <3>1, FailedRemembers
  <2> QED
    BY <2>1, <2>2
<1>3. KeepsTime' /\ stage' = "waiting" /\ steady' = TRUE
  BY <1>1, <1>2, ArmKeepsTime
<1>4. ShowsTheDisk'
  BY <1>1, <1>2, <1>3 DEF LoopInv, ShowsTheDisk, Running
<1> QED
  BY <1>1, <1>2, <1>3, <1>4 DEF LoopInv, StartsAfresh, Running

LEMMA WriteReportKeeps ==
  ASSUME LoopInv, WriteReport
  PROVE  LoopInv'
<1>1. /\ setting \in Settings /\ setting' = setting /\ stopping' = stopping /\ command' = command
      /\ stage = "passing"
      /\ now \in 0..(setting.period - 1) /\ disk \in Reports
      /\ stopping \in BOOLEAN /\ command \in BOOLEAN /\ steady \in BOOLEAN
      /\ Remembers
  BY DEF LoopInv, WriteReport, StartsAfresh, KeepsTime, ShowsTheDisk
<1>2. PICK fine \in BOOLEAN :
        \/ /\ disk' = Report(fine) /\ apart' = FALSE /\ stage' = "reported"
           /\ UNCHANGED <<clocks, memory>>
        \/ /\ Passed(Report(fine)) /\ apart' = TRUE
           /\ Arm(schedule') /\ UNCHANGED disk
  BY DEF WriteReport
<1>3. Report(fine) \in Reports
  BY <1>1, RegistryParts DEF Report, Reports
<1>4. CASE /\ disk' = Report(fine) /\ apart' = FALSE /\ stage' = "reported"
           /\ UNCHANGED <<clocks, memory>>
  <2>1. Remembers'
    BY <1>1, <1>4, MemoryStays
  <2>2. KeepsTime'
    BY <1>1, <1>4, ClocksStay DEF LoopInv, memory
  <2>3. ShowsTheDisk'
    BY <1>3, <1>4 DEF ShowsTheDisk
  <2> QED
    BY <1>1, <1>4, <2>1, <2>2, <2>3 DEF LoopInv, StartsAfresh, Running, clocks
<1>5. CASE /\ Passed(Report(fine)) /\ apart' = TRUE /\ Arm(schedule') /\ UNCHANGED disk
  <2>1. Remembers' /\ registry'.latest = Report(fine) /\ registry'.attempt = Report(fine).pass
    BY <1>1, <1>3, <1>5, PassedRemembers
  <2>2. KeepsTime' /\ stage' = "waiting" /\ steady' = TRUE
    BY <1>1, <1>5, <2>1, ArmKeepsTime
  <2>3. ShowsTheDisk'
    BY <1>1, <1>5, <2>1 DEF ShowsTheDisk
  <2> QED
    BY <1>1, <1>5, <2>1, <2>2, <2>3 DEF LoopInv, StartsAfresh, Running
<1> QED
  BY <1>2, <1>4, <1>5

LEMMA PassReportsKeeps ==
  ASSUME LoopInv, PassReports
  PROVE  LoopInv'
<1>1. /\ setting \in Settings /\ setting' = setting /\ stopping' = stopping /\ command' = command
      /\ disk' = disk /\ apart' = apart
      /\ now \in 0..(setting.period - 1) /\ disk \in Reports
      /\ stopping \in BOOLEAN /\ command \in BOOLEAN /\ apart \in BOOLEAN
      /\ Remembers /\ Arm(schedule') /\ Passed(disk)
  BY DEF LoopInv, PassReports, StartsAfresh, KeepsTime, ShowsTheDisk
<1>2. Remembers' /\ registry'.latest = disk /\ registry'.attempt = disk.pass
  BY <1>1, PassedRemembers
<1>3. KeepsTime' /\ stage' = "waiting" /\ steady' = TRUE
  BY <1>1, <1>2, ArmKeepsTime
<1>4. ShowsTheDisk'
  BY <1>1, <1>2 DEF ShowsTheDisk
<1> QED
  BY <1>1, <1>2, <1>3, <1>4 DEF LoopInv, StartsAfresh, Running

LEMMA EndsKeep ==
  ASSUME LoopInv, Stop \/ Crash
  PROVE  LoopInv'
<1>1. /\ Gone /\ stage' \in {"down", "crashed"}
      /\ setting \in Settings /\ now \in 0..(setting.period - 1) /\ disk \in Reports
      /\ command \in BOOLEAN
  BY DEF LoopInv, Stop, Crash, StartsAfresh, KeepsTime, ShowsTheDisk
<1>2. /\ setting' = setting /\ now' = now /\ command' = command /\ disk' = disk
      /\ wait' = 0 /\ steady' = TRUE /\ stopping' = FALSE /\ apart' = FALSE
  BY <1>1 DEF Gone
<1>3. Remembers' /\ streak' = 0
  BY <1>1, GoneRemembers
<1>4. setting.period \in 1..Longest
  BY <1>1, SettingsAssumption
<1>5. KeepsTime'
  BY <1>1, <1>2, <1>4 DEF KeepsTime
<1>6. ShowsTheDisk'
  BY <1>1, <1>2 DEF ShowsTheDisk, Running
<1> QED
  BY <1>1, <1>2, <1>3, <1>5, <1>6 DEF LoopInv, StartsAfresh

LEMMA StartsKeep ==
  ASSUME LoopInv, Start \/ Restart
  PROVE  LoopInv'
<1>1. /\ Boot /\ stage \in {"down", "crashed"}
      /\ setting \in Settings /\ now \in 0..(setting.period - 1) /\ disk \in Reports
      /\ stopping \in BOOLEAN /\ command \in BOOLEAN /\ apart \in BOOLEAN
      /\ Remembers /\ (~Running => streak = 0)
  BY DEF LoopInv, Start, Restart, StartsAfresh, KeepsTime, ShowsTheDisk
<1>2. /\ registry' = Seed /\ Arm(schedule) /\ setting' = setting /\ schedule' = schedule
      /\ streak' = streak /\ stopping' = stopping /\ command' = command /\ disk' = disk /\ apart' = apart
  BY <1>1 DEF Boot
<1>3. streak = 0
  BY <1>1 DEF Running
<1>4. Remembers' /\ registry'.latest = disk /\ registry'.attempt = registry'.latest.pass
  BY <1>1, <1>2, <1>3, SeedRemembers
<1>5. KeepsTime' /\ stage' = "waiting" /\ steady' = TRUE
  BY <1>1, <1>2, <1>4, ArmKeepsTime
<1>6. ShowsTheDisk'
  BY <1>1, <1>2, <1>4 DEF ShowsTheDisk
<1> QED
  BY <1>1, <1>2, <1>3, <1>4, <1>5, <1>6 DEF LoopInv, StartsAfresh, Running

(* The wish to stop, and an operator's command, which leaves the process   *)
(* with another report on disk than it has recorded.                       *)
LEMMA OthersKeep ==
  ASSUME LoopInv, AskToStop \/ CommandTakes \/ CommandEnds
  PROVE  LoopInv'
<1>1. /\ setting' = setting /\ UNCHANGED clocks /\ UNCHANGED memory /\ stage' = stage
  BY DEF AskToStop, CommandTakes, CommandEnds
<1>2. Remembers' /\ KeepsTime'
  BY <1>1, MemoryStays, ClocksStay DEF LoopInv, memory
<1>3. stopping' \in BOOLEAN /\ command' \in BOOLEAN /\ apart' \in BOOLEAN
  <2>1. CASE AskToStop
    BY <2>1 DEF LoopInv, StartsAfresh, AskToStop
  <2>2. CASE CommandTakes
    BY <2>2 DEF LoopInv, StartsAfresh, CommandTakes
  <2>3. CASE CommandEnds
    <3>1. Running \in BOOLEAN
      BY DEF Running
    <3> QED
      BY <2>3, <3>1 DEF LoopInv, StartsAfresh, CommandEnds
  <2> QED
    BY <2>1, <2>2, <2>3
<1>4. stopping => stopping'
  BY DEF AskToStop, CommandTakes, CommandEnds
<1>5. CASE disk' = disk /\ apart' = apart
  <2>1. ShowsTheDisk'
    BY <1>1, <1>4, <1>5 DEF LoopInv, ShowsTheDisk, Running, memory
  <2> QED
    BY <1>1, <1>2, <1>3, <2>1 DEF LoopInv, StartsAfresh, Running, clocks, memory
<1>6. CASE \E fine \in BOOLEAN : disk' = [pass |-> Fresh, fine |-> fine] /\ apart' = Running
  <2>1. disk' \in Reports
    BY <1>6, FreshIsAPass DEF Reports
  <2>2. ShowsTheDisk'
    BY <1>1, <1>4, <1>6, <2>1 DEF LoopInv, ShowsTheDisk, Running, memory
  <2> QED
    BY <1>1, <1>2, <1>3, <2>2 DEF LoopInv, StartsAfresh, Running, clocks, memory
<1> QED
  BY <1>5, <1>6 DEF AskToStop, CommandTakes, CommandEnds

(* Both clocks move together, so the timer still ends on the tick.         *)
LEMMA ElapseKeeps ==
  ASSUME LoopInv, Elapse
  PROVE  LoopInv'
<1> DEFINE e == Sched!Every(schedule)
           p == setting.period
<1>1. /\ setting \in Settings /\ now \in 0..(p - 1) /\ wait \in 0..p /\ schedule \in Schedules
      /\ schedule.interval = setting.interval
      /\ p \in 1..Longest
  BY SettingsAssumption DEF LoopInv, StartsAfresh, KeepsTime, Remembers
<1>2. e \in 1..p /\ \E k \in Nat \ {0} : p = e * k
  BY <1>1, Rounds
<1>3. /\ setting' = setting /\ steady' = steady /\ stage' = stage /\ UNCHANGED memory /\ stopping' = stopping
      /\ command' = command /\ disk' = disk /\ apart' = apart
      /\ now' = (now + 1) % p
      /\ wait' = IF stage = "waiting" /\ wait > 0 THEN wait - 1 ELSE wait
  BY DEF Elapse
<1>4. schedule' = schedule /\ e' = e
  BY <1>3 DEF memory, Sched!Every, Sched!Backoff, Sched!MaxBackoff
<1>5. Remembers'
  BY <1>3, MemoryStays DEF LoopInv
<1>6. KeepsTime'
  <2>1. /\ stage = "waiting" => wait <= e
        /\ stage = "waiting" /\ wait > 0 /\ steady => (now + wait) % e = schedule.offset % e
    BY DEF LoopInv, KeepsTime
  <2> HIDE DEF e, p
  <2>2. now' \in 0..(p - 1)
    <3> DEFINE next == now + 1
    <3>1. next \in Int /\ p \in Nat \ {0}
      BY <1>1
    <3> HIDE DEF next
    <3>2. next % p \in 0..(p - 1)
      BY <3>1, DivMod
    <3> QED
      BY <1>3, <3>2 DEF next
  <2>3. wait' \in 0..p /\ (stage' = "waiting" => wait' <= e)
    BY <1>1, <1>2, <1>3, <2>1
  <2>4. ASSUME stage' = "waiting", wait' > 0, steady' PROVE (now' + wait') % e = schedule.offset % e
    <3>1. wait > 0 /\ wait' = wait - 1 /\ stage = "waiting" /\ steady
      BY <1>1, <1>3, <2>4
    <3>2. PICK k \in Nat \ {0} : p = e * k
      BY <1>2
    <3>3. e \in Nat \ {0} /\ now + 1 \in Int /\ wait - 1 \in Int /\ (now + 1) + (wait - 1) = now + wait
      BY <1>1, <1>2
    <3>4. (((now + 1) % (e * k)) + (wait - 1)) % e = ((now + 1) + (wait - 1)) % e
      BY <3>3, WrapKeepsPhase
    <3>5. (now' + wait') % e = (now + wait) % e
      BY <1>3, <3>1, <3>2, <3>3, <3>4
    <3> QED
      BY <2>1, <3>1, <3>5
  <2> QED
    BY <1>3, <1>4, <2>2, <2>3, <2>4 DEF KeepsTime, e, p
<1>7. ShowsTheDisk'
  BY <1>3 DEF LoopInv, ShowsTheDisk, Running, memory
<1> QED
  BY <1>1, <1>3, <1>5, <1>6, <1>7 DEF LoopInv, StartsAfresh, Running, memory

LEMMA SetClockKeeps ==
  ASSUME LoopInv, SetClock
  PROVE  LoopInv'
<1> DEFINE p == setting.period
<1>1. setting \in Settings /\ now \in 0..(p - 1) /\ wait \in 0..p /\ p \in 1..Longest
  BY SettingsAssumption DEF LoopInv, StartsAfresh, KeepsTime
<1>2. /\ setting' = setting /\ wait' = wait /\ stage' = stage /\ UNCHANGED memory /\ stopping' = stopping
      /\ command' = command /\ disk' = disk /\ apart' = apart
      /\ steady' = (stage # "waiting")
  BY DEF SetClock
<1>3. PICK jump \in Jumps : now' = (now + jump) % p
  BY DEF SetClock
<1>4. now' \in 0..(p - 1)
  <2> DEFINE next == now + jump
  <2>1. next \in Int /\ p \in Nat \ {0}
    BY <1>1, JumpsAssumption
  <2> HIDE DEF next, p
  <2>2. next % p \in 0..(p - 1)
    BY <2>1, DivMod
  <2> QED
    BY <1>3, <2>2 DEF next
<1>5. Remembers'
  BY <1>2, MemoryStays DEF LoopInv
<1>6. Sched!Every(schedule)' = Sched!Every(schedule)
  BY <1>2 DEF memory, Sched!Every, Sched!Backoff, Sched!MaxBackoff
<1>7. KeepsTime'
  BY <1>2, <1>4, <1>6 DEF LoopInv, KeepsTime
<1>8. ShowsTheDisk'
  BY <1>2 DEF LoopInv, ShowsTheDisk, Running, memory
<1> QED
  BY <1>1, <1>2, <1>5, <1>7, <1>8 DEF LoopInv, StartsAfresh, Running, memory

LEMMA LoopInvStep == LoopInv /\ [Next]_vars => LoopInv'
<1> SUFFICES ASSUME LoopInv, [Next]_vars PROVE LoopInv'
  OBVIOUS
<1>1. CASE Next
  BY <1>1, TickKeeps, PassErrsKeeps, WriteReportKeeps, PassReportsKeeps, EndsKeep, StartsKeep,
     OthersKeep, ElapseKeeps, SetClockKeeps DEF Next
<1>2. CASE UNCHANGED vars
  <2>1. /\ setting' = setting /\ UNCHANGED clocks /\ UNCHANGED memory /\ stage' = stage /\ stopping' = stopping
        /\ command' = command /\ disk' = disk /\ apart' = apart /\ schedule' = schedule
    BY <1>2 DEF vars, memory
  <2>2. Remembers' /\ KeepsTime'
    BY <2>1, MemoryStays, ClocksStay DEF LoopInv
  <2>3. ShowsTheDisk'
    BY <2>1 DEF LoopInv, ShowsTheDisk, Running, memory
  <2> QED
    BY <2>1, <2>2, <2>3 DEF LoopInv, StartsAfresh, Running, clocks, memory
<1> QED
  BY <1>1, <1>2

-----------------------------------------------------------------------------
(* The theorems.                                                           *)

(* However the loop is started, asked to stop, killed and held up, and     *)
(* whoever sets the clock, its timer, its memory and its metrics agree     *)
(* (agent.go: Run, recordPass, recordFailure).                             *)
THEOREM LoopInvariant == Spec => []LoopInv
<1> QED
  BY LoopInvInit, LoopInvStep, PTL DEF Spec

(* State is what it is said to be.                                         *)
THEOREM LoopTypeCorrect == Spec => []TypeOK
<1>1. LoopInv => TypeOK
  <2> SUFFICES ASSUME LoopInv PROVE TypeOK
    OBVIOUS
  <2>1. schedule.upstream \in 0..3 /\ disk \in Reports
    BY DEF LoopInv, Remembers, Schedules, ShowsTheDisk
  <2> QED
    BY <2>1, RegistryParts DEF LoopInv, StartsAfresh, KeepsTime, Remembers, TypeOK, Reports
<1> QED
  BY <1>1, LoopInvariant, PTL

LEMMA ThreeIsTheLeast ==
  ASSUME NEW n \in Nat
  PROVE  Min({n, 3}) = Three(n)
BY DEF Min, Three

(* The timer ends on the host's own minute (schedule.go:60-66, 116-121).   *)
THEOREM LoopTimerIsTheNextTick == Spec => []TimerIsTheNextTick
<1>1. LoopInv => TimerIsTheNextTick
  <2> SUFFICES ASSUME LoopInv PROVE TimerIsTheNextTick
    OBVIOUS
  <2>1. Sched!Every(schedule) = setting.interval * Ladder[schedule.upstream + 1]
    BY Rounds DEF LoopInv, StartsAfresh, Remembers
  <2>2. schedule.offset = IF setting.splay = 0 THEN 0 ELSE setting.hash % setting.splay
    BY DEF LoopInv, Remembers, Offset
  <2> QED
    BY <2>1, <2>2 DEF LoopInv, KeepsTime, TimerIsTheNextTick
<1> QED
  BY <1>1, LoopInvariant, PTL

(* Only upstream failures in a row stretch the interval, to eight at most  *)
(* (schedule.go:22-34, 100-114).                                           *)
THEOREM LoopOnlyTheRemoteBacksOff == Spec => []OnlyTheRemoteBacksOff
<1>1. LoopInv => OnlyTheRemoteBacksOff
  <2> SUFFICES ASSUME LoopInv, stage = "waiting" PROVE OnlyTheRemoteBacksOff
    BY DEF OnlyTheRemoteBacksOff
  <2>1. Sched!Every(schedule) = setting.interval * Ladder[schedule.upstream + 1]
    BY Rounds DEF LoopInv, StartsAfresh, Remembers
  <2>2. Min({streak, 3}) = Three(streak)
    BY FailuresAssumption, ThreeIsTheLeast DEF LoopInv, Remembers
  <2>3. schedule.upstream = Three(streak) /\ streak <= registry.failures /\ wait <= Sched!Every(schedule)
    BY DEF LoopInv, Remembers, KeepsTime
  <2> QED
    BY <2>1, <2>2, <2>3 DEF OnlyTheRemoteBacksOff
<1> QED
  BY <1>1, LoopInvariant, PTL

(* What is served is of the passes it claims to be of (agent.go:98-102,    *)
(* metrics.go:89-128).                                                     *)
THEOREM LoopMetricsAreOfTheLastPass == Spec => []MetricsAreOfTheLastPass
<1>1. LoopInv => MetricsAreOfTheLastPass
  BY DEF LoopInv, Remembers, ShowsTheDisk, MetricsAreOfTheLastPass
<1> QED
  BY <1>1, LoopInvariant, PTL
=============================================================================
