------------------------------ MODULE EdgeProofs -----------------------------
(***************************************************************************)
(* Proofs about the edges of the program: when the scheduler begins a      *)
(* cycle, what a caller of the GitHub client is told of its requests, what *)
(* a client of the MCP server is told of its tools, what a run knows of    *)
(* the project whose change a human reviews, what of it an analysis is     *)
(* shown, and what the configuration says after the commands that edit it. *)
(***************************************************************************)
EXTENDS Scheduler, Requests, Tools, Snapshot, ContextCompressor, Settings, InductionLemmas,
        FiniteSetTheorems, SequenceTheorems, TLAPS

(***************************************************************************)
(* Cycles (Scheduler): the seconds to wait are those to the next wanted minute.*)
(***************************************************************************)
\* A minute is a number of whole days and a minute of the day.
LEMMA WholeDays ==
  ASSUME NEW d \in Nat \ {0}, NEW q \in Nat
  PROVE  /\ q % d \in 0..d - 1
         /\ q \div d \in Nat /\ q = d * (q \div d) + (q % d)
<1>1. q % d \in 0..d - 1
  OBVIOUS
<1>2. q \div d \in Nat
  OBVIOUS
<1>3. q = (q \div d) * d + (q % d)
  OBVIOUS
<1>4. \A n \in Nat : n * d = d * n
  OBVIOUS
<1>5. (q \div d) * d = d * (q \div d)
  BY <1>2, <1>4
<1>6. q = d * (q \div d) + (q % d)
  BY ONLY <1>3, <1>5
<1> QED  BY ONLY <1>1, <1>2, <1>6

\* A time is a number of whole minutes.
LEMMA MinuteOfTheDay ==
  ASSUME NEW d \in Nat \ {0}, NEW n \in Nat, NEW r \in 0..d - 1
  PROVE  (d * n + r) % d = r
  OBVIOUS

\* The wait ends in the minute named, which does not begin before.
LEMMA WaitEndsInTime ==
  ASSUME NEW s \in Nat
  PROVE  LET a == s + SecondsUntilNext(s)
         IN /\ a \in Nat /\ Minute(s) \in Nat /\ Minute(a) \in Nat
            /\ Minute(a) % DayLength = TargetMinute
            /\ Minute(a) > Minute(s)
            /\ \A m \in Minute(s) + 1..Minute(a) - 1 : m % DayLength # TargetMinute
<1> DEFINE q == Minute(s)
           cur == q % DayLength
           days == q \div DayLength
           k == IF TargetMinute > cur THEN TargetMinute - cur ELSE DayLength - cur + TargetMinute
           a == s + SecondsUntilNext(s)
<1>1. q \in Nat
  BY DEF Minute
<1>2. cur \in 0..DayLength - 1 /\ days \in Nat /\ q = DayLength * days + cur
  BY <1>1, WholeDays, SchedulerAssumption
<1>3. k \in Nat /\ k > 0
  BY <1>2, SchedulerAssumption
<1>4. SecondsUntilNext(s) = 2 * k
  BY DEF SecondsUntilNext
<1>5. a \in Nat /\ Minute(a) = q + k
  BY <1>3, <1>4 DEF Minute
<1>6. Minute(a) % DayLength = TargetMinute
  <2>1. CASE TargetMinute > cur
    <3>1. q + k = DayLength * days + TargetMinute
      BY <1>2, <2>1, SchedulerAssumption
    <3>2. (DayLength * days + TargetMinute) % DayLength = TargetMinute
      BY <1>2, MinuteOfTheDay, SchedulerAssumption
    <3> QED  BY <3>1, <3>2, <1>5
  <2>2. CASE ~(TargetMinute > cur)
    <3>1. q + k = DayLength * days + DayLength + TargetMinute
      BY <1>2, <2>2, SchedulerAssumption
    <3>2. DayLength * days + DayLength = DayLength * (days + 1) /\ days + 1 \in Nat
      BY <1>2, SchedulerAssumption
    <3>3. q + k = DayLength * (days + 1) + TargetMinute
      BY <3>1, <3>2
    <3>4. (DayLength * (days + 1) + TargetMinute) % DayLength = TargetMinute
      BY <3>2, MinuteOfTheDay, SchedulerAssumption
    <3> QED  BY <3>3, <3>4, <1>5
  <2> QED  BY <2>1, <2>2
<1>7. ASSUME NEW m \in q + 1..q + k - 1
      PROVE  m % DayLength # TargetMinute
  <2> DEFINE j == m - q
  <2> HIDE DEF k, cur, days
  <2>0. j \in Nat /\ 0 < j /\ j < k /\ m = q + j
    BY <1>1, <1>3
  <2>1. j \in Nat /\ 0 < j /\ j < k /\ m = DayLength * days + (cur + j)
    BY <2>0, <1>2, SchedulerAssumption
  <2>4. k = IF TargetMinute > cur THEN TargetMinute - cur ELSE DayLength - cur + TargetMinute
    BY DEF k
  <2>2. CASE cur + j < DayLength
    <3>1. cur + j \in 0..DayLength - 1 /\ cur + j # TargetMinute
      BY <1>2, <2>1, <2>2, <2>4, SchedulerAssumption
    <3>2. (DayLength * days + (cur + j)) % DayLength = cur + j
      BY <3>1, <1>2, MinuteOfTheDay, SchedulerAssumption
    <3> QED  BY <2>1, <3>1, <3>2
  <2>3. CASE cur + j >= DayLength
    <3> DEFINE r == cur + j - DayLength
    <3>1. r \in 0..DayLength - 1 /\ r # TargetMinute
      BY <1>2, <2>1, <2>3, <2>4, SchedulerAssumption
    <3>2. DayLength * days + DayLength = DayLength * (days + 1) /\ days + 1 \in Nat
      BY <1>2, SchedulerAssumption
    <3>3. m = DayLength * (days + 1) + r
      BY <2>1, <3>2, <3>1, <1>2, SchedulerAssumption
    <3>4. (DayLength * (days + 1) + r) % DayLength = r
      BY <3>1, <3>2, MinuteOfTheDay, SchedulerAssumption
    <3> QED  BY <3>1, <3>3, <3>4
  <2> QED  BY <2>1, <2>2, <2>3, <1>2, SchedulerAssumption
<1> QED  BY <1>1, <1>3, <1>5, <1>6, <1>7

\* Two different minutes of one name are a day apart.
LEMMA DayApart ==
  ASSUME NEW a \in Nat, NEW b \in Nat, a < b, a % DayLength = b % DayLength
  PROVE  b >= a + DayLength
<1> DEFINE n == a \div DayLength
           m == b \div DayLength
<1>0. n \in Nat /\ a = DayLength * n + (a % DayLength) /\ a % DayLength \in 0..DayLength - 1
  BY WholeDays, SchedulerAssumption
<1>1. m \in Nat /\ b = DayLength * m + (b % DayLength)
  BY WholeDays, SchedulerAssumption
<1> DEFINE r == a % DayLength
<1>6. n \in Nat /\ m \in Nat /\ r \in Nat /\ a = DayLength * n + r /\ b = DayLength * m + r
  BY <1>0, <1>1, SchedulerAssumption
<1> HIDE DEF n, m, r
<1>2. b - a = DayLength * (m - n)
  BY <1>6, SchedulerAssumption
<1>3. m > n
  <2>1. SUFFICES ASSUME m <= n PROVE FALSE
    BY <1>6
  <2>2. n - m \in Nat /\ DayLength * (n - m) >= 0 /\ DayLength * (n - m) = a - b
    BY <1>6, <1>2, <2>1, SchedulerAssumption
  <2> QED  BY <2>2
<1>4. m - n \in Nat /\ m - n >= 1
  BY <1>6, <1>3
<1>5. DayLength * (m - n) >= DayLength
  BY <1>4, SchedulerAssumption
<1> QED  BY <1>2, <1>5, SchedulerAssumption

\* The stages of the loop after its sleep.
Stages == {"hunt", "patrol", "dream"}

\* A cycle began where the wait before it ended, and the loop waits anew after it.
IsCycle(c) == c.at = c.since + SecondsUntilNext(c.since)

LoopInv ==
  /\ tick \in Nat
  /\ loop \in [at : {"decide", "sleep", "stopped"} \cup Stages, since : Nat, wake : Nat]
  /\ loop.since <= tick
  /\ loop.at = "sleep" => loop.wake = loop.since + SecondsUntilNext(loop.since)

CycleInv(i) ==
  /\ cycles[i].since \in Nat /\ cycles[i].at \in Nat
  /\ IsCycle(cycles[i])
  /\ cycles[i].at <= tick
  /\ loop.at = "sleep" => cycles[i].at <= loop.since
  /\ i > 1 => cycles[i - 1].at <= cycles[i].since

SchedulerInv ==
  /\ LoopInv
  /\ cycles \in Seq([since : Nat, at : Nat])
  /\ \A i \in 1..Len(cycles) : CycleInv(i)

\* A cycle began where the wait before it ended, and the waits follow one another.
LEMMA SchedulerInvHolds == SchedulerSpec => []SchedulerInv
<1>1. SchedulerInit => SchedulerInv
  BY SchedulerAssumption DEF SchedulerInit, SchedulerAt, SchedulerInv, LoopInv, Stages
<1>2. SchedulerInv /\ [SchedulerNext]_schedulerVars => SchedulerInv'
  <2> SUFFICES ASSUME SchedulerInv, [SchedulerNext]_schedulerVars
               PROVE  SchedulerInv'
    OBVIOUS
  <2>0. SecondsUntilNext(tick) \in Nat
    BY WholeDays, SchedulerAssumption DEF SchedulerInv, LoopInv, SecondsUntilNext, Minute
  <2>a. tick' \in Nat /\ tick' >= tick
    BY DEF SchedulerInv, LoopInv, SchedulerNext, Sleep, Trigger, EndOfStage, CtrlC, HalfMinute, schedulerVars
  <2>b. LoopInv'
    BY <2>0 DEF SchedulerInv, LoopInv, SchedulerNext, Sleep, Trigger, EndOfStage, CtrlC, HalfMinute, schedulerVars,
                Loop, Proceeded, Stages
  <2>c. loop'.at = "sleep" => \/ loop'.since = tick
                              \/ loop.at = "sleep" /\ loop'.since = loop.since
    BY DEF SchedulerInv, LoopInv, SchedulerNext, Sleep, Trigger, EndOfStage, CtrlC, HalfMinute, schedulerVars,
           Loop, Proceeded, Stages
  <2>d. ASSUME NEW i \in 1..Len(cycles) PROVE cycles[i].at <= tick'
    <3>1. cycles[i].at \in Nat /\ cycles[i].at <= tick /\ tick \in Nat
      BY DEF SchedulerInv, LoopInv, CycleInv
    <3> QED  BY ONLY <2>a, <3>1
  <2>1. CASE Trigger
    <3> DEFINE c == [since |-> loop.since, at |-> tick]
    <3>1. c \in [since : Nat, at : Nat] /\ IsCycle(c) /\ cycles' = Append(cycles, c) /\ tick' = tick
      BY <2>1 DEF Trigger, SchedulerInv, LoopInv, IsCycle
    <3>2. /\ cycles \in Seq([since : Nat, at : Nat]) /\ Len(cycles) \in Nat
          /\ cycles' \in Seq([since : Nat, at : Nat])
          /\ Len(cycles') = Len(cycles) + 1
          /\ cycles'[Len(cycles) + 1] = c
          /\ \A i \in 1..Len(cycles) : cycles'[i] = cycles[i]
      BY <3>1, AppendProperties, LenProperties DEF SchedulerInv
    <3>3. loop'.at # "sleep"
      BY <2>1 DEF Trigger, Loop
    <3>4. ASSUME NEW i \in 1..Len(cycles') PROVE CycleInv(i)'
      <4>1. CASE i = Len(cycles) + 1
        <5>1. ASSUME i > 1 PROVE cycles'[i - 1].at <= loop.since
          <6>1. i - 1 \in 1..Len(cycles)
            BY <3>2, <4>1, <5>1
          <6>2. cycles[i - 1].at <= loop.since
            BY <6>1, <2>1 DEF SchedulerInv, CycleInv, Trigger
          <6> QED  BY <6>1, <6>2, <3>2
        <5> QED  BY <5>1, <4>1, <3>1, <3>2, <3>3 DEF CycleInv, SchedulerInv, LoopInv, IsCycle
      <4>2. CASE i # Len(cycles) + 1
        <5>4. i \in 1..Len(cycles)
          BY <3>2, <4>2
        <5>5. Len(cycles) \in Nat
          BY <3>2
        <5>1. i \in 1..Len(cycles) /\ (i > 1 => i - 1 \in 1..Len(cycles))
          BY ONLY <5>4, <5>5
        <5>2. cycles'[i] = cycles[i] /\ (i > 1 => cycles'[i - 1] = cycles[i - 1])
          BY <3>2, <5>1
        <5>3. CycleInv(i)
          BY <5>1 DEF SchedulerInv
        <5> QED  BY <5>1, <5>2, <5>3, <3>1, <3>3 DEF CycleInv, IsCycle
      <4> QED  BY <4>1, <4>2
    <3> QED  BY <3>2, <3>4, <2>b DEF SchedulerInv
  <2>2. CASE UNCHANGED cycles
    <3>1. ASSUME NEW i \in 1..Len(cycles) PROVE CycleInv(i)'
      <4>1. CycleInv(i) /\ cycles[i].at <= tick'
        BY <2>d DEF SchedulerInv
      <4>2. loop'.at = "sleep" => cycles[i].at <= loop'.since
        BY <4>1, <2>c DEF CycleInv
      <4> QED  BY <4>1, <4>2, <2>2 DEF CycleInv, IsCycle
    <3> QED  BY <3>1, <2>2, <2>b DEF SchedulerInv
  <2> QED  BY <2>1, <2>2 DEF SchedulerNext, Sleep, EndOfStage, CtrlC, HalfMinute, schedulerVars
<1> QED  BY <1>1, <1>2, PTL DEF SchedulerSpec

\* The loop of the scheduler (scheduler/mod.rs) begins a cycle at the wanted minute of a
\* day only, at the first one after its wait began, and once a day at most, however long
\* a cycle takes and however the length of a day and the wanted minute are chosen.
THEOREM CyclesAreAsScheduled == SchedulerSpec => []RunsAreScheduled
<1>1. SchedulerInv => RunsAreScheduled
  <2> SUFFICES ASSUME SchedulerInv, NEW i \in DOMAIN cycles
               PROVE  /\ Minute(cycles[i].at) % DayLength = TargetMinute
                      /\ Minute(cycles[i].at) > Minute(cycles[i].since)
                      /\ \A m \in Minute(cycles[i].since) + 1..Minute(cycles[i].at) - 1 : m % DayLength # TargetMinute
                      /\ i > 1 => Minute(cycles[i].at) >= Minute(cycles[i - 1].at) + DayLength
    BY DEF RunsAreScheduled
  <2>0. DOMAIN cycles = 1..Len(cycles) /\ Len(cycles) \in Nat
    BY LenProperties DEF SchedulerInv
  <2>5. i \in 1..Len(cycles) /\ CycleInv(i)
    BY <2>0 DEF SchedulerInv
  <2>1. i \in 1..Len(cycles) /\ cycles[i].since \in Nat
        /\ cycles[i].at = cycles[i].since + SecondsUntilNext(cycles[i].since)
    BY <2>5 DEF CycleInv, IsCycle
  <2> HIDE DEF SchedulerInv
  <2>2. /\ Minute(cycles[i].at) \in Nat /\ Minute(cycles[i].since) \in Nat
        /\ Minute(cycles[i].at) % DayLength = TargetMinute
        /\ Minute(cycles[i].at) > Minute(cycles[i].since)
        /\ \A m \in Minute(cycles[i].since) + 1..Minute(cycles[i].at) - 1 : m % DayLength # TargetMinute
    BY <2>1, WaitEndsInTime
  <2>3. ASSUME i > 1 PROVE Minute(cycles[i].at) >= Minute(cycles[i - 1].at) + DayLength
    <3>1. i - 1 \in 1..Len(cycles)
      BY <2>0, <2>3
    <3>2. /\ cycles[i - 1].since \in Nat
          /\ cycles[i - 1].at = cycles[i - 1].since + SecondsUntilNext(cycles[i - 1].since)
          /\ cycles[i - 1].at <= cycles[i].since
      BY <3>1, <2>3, <2>5 DEF SchedulerInv, CycleInv, IsCycle
    <3>3. cycles[i - 1].at \in Nat /\ Minute(cycles[i - 1].at) \in Nat /\ Minute(cycles[i - 1].at) % DayLength = TargetMinute
      BY <3>2, WaitEndsInTime
    <3>4. Minute(cycles[i - 1].at) <= Minute(cycles[i].since)
      BY <3>2, <3>3, <2>1 DEF Minute
    <3>5. Minute(cycles[i - 1].at) < Minute(cycles[i].at)
      BY <3>4, <2>2, <3>3
    <3> QED  BY <3>5, <3>3, <2>2, DayApart
  <2> QED  BY <2>2, <2>3
<1> QED  BY <1>1, SchedulerInvHolds, PTL

(***************************************************************************)
(* Requests: a call in progress has made the changes of the requests behind*)
(* it, and none of those ahead.  First, the table of operations.           *)
(***************************************************************************)
WritingMethods == {"POST", "PUT", "PATCH", "DELETE"}

HostEffects ==
  {"none", "fork", "branch", "file", "pull", "close", "edit", "comment", "dismissal", "delete", "issue"}

RequestRecords ==
  [method : {"GET"} \cup WritingMethods, effect : HostEffects, needed : BOOLEAN, error : {"ends", "absence"}]

\* Operations that only read, among them those of the tools that need no grant.
ReadOnly ==
  {"get_contributing_guide", "ensure_rate_limit", "search_repositories", "get_repo_details",
   "get_file_tree_verbose", "get_file_content", "get_open_issues", "get_pr_comments",
   "get_pr_review_comments", "get_pr_reviews", "get_authenticated_user"}

\* What is passed over changes nothing.
IsRequest(o, r) ==
  /\ r \in RequestRecords
  /\ r.error = "absence" => r.effect = "none"
  /\ o \in ReadOnly => r.method = "GET" /\ r.effect = "none"

IsOperation(o, s) == s \in Seq(RequestRecords) /\ Len(s) >= 1 /\ \A i \in 1..Len(s) : IsRequest(o, s[i])

IsTable(f) == \A o \in DOMAIN f : IsOperation(o, f[o])

\* Operations of one, two or three requests.
LEMMA ShortOperations ==
  ASSUME NEW o, NEW a, NEW b, NEW c, IsRequest(o, a), IsRequest(o, b), IsRequest(o, c)
  PROVE  IsOperation(o, <<a>>) /\ IsOperation(o, <<a, b>>) /\ IsOperation(o, <<a, b, c>>)
<1>1. {a, b, c} \subseteq RequestRecords
  BY DEF IsRequest
<1>2. IsOperation(o, <<a>>)
  <2>1. <<a>> \in Seq(RequestRecords) /\ Len(<<a>>) = 1 /\ <<a>>[1] = a
    BY <1>1
  <2> QED  BY <2>1 DEF IsOperation
<1>3. IsOperation(o, <<a, b>>)
  <2>1. <<a, b>> \in Seq(RequestRecords) /\ Len(<<a, b>>) = 2 /\ <<a, b>>[1] = a /\ <<a, b>>[2] = b
    BY <1>1
  <2> QED  BY <2>1 DEF IsOperation
<1>4. IsOperation(o, <<a, b, c>>)
  <2>1. <<a, b, c>> \in Seq(RequestRecords) /\ Len(<<a, b, c>>) = 3
        /\ <<a, b, c>>[1] = a /\ <<a, b, c>>[2] = b /\ <<a, b, c>>[3] = c
    BY <1>1
  <2> QED  BY <2>1 DEF IsOperation
<1> QED  BY <1>2, <1>3, <1>4

\* An entry of a joined table is that of one of its parts.
LEMMA JoinedEntries ==
  ASSUME NEW tables
  PROVE  /\ DOMAIN Joined(tables) = UNION {DOMAIN t : t \in tables}
         /\ \A key \in DOMAIN Joined(tables) : \E t \in tables : key \in DOMAIN t /\ Joined(tables)[key] = t[key]
<1> DEFINE all == UNION {DOMAIN t : t \in tables}
<1>1. /\ DOMAIN Joined(tables) = all
      /\ \A key \in all : Joined(tables)[key] = (CHOOSE t \in tables : key \in DOMAIN t)[key]
  BY DEF Joined
<1>2. ASSUME NEW key \in all
      PROVE  /\ (CHOOSE t \in tables : key \in DOMAIN t) \in tables
             /\ key \in DOMAIN (CHOOSE t \in tables : key \in DOMAIN t)
  <2>1. \E t \in tables : key \in DOMAIN t
    OBVIOUS
  <2> QED  BY <2>1
<1> QED  BY <1>1, <1>2

\* Requests that read.
LEMMA Reads ==
  ASSUME NEW o
  PROVE  IsRequest(o, Get) /\ IsRequest(o, Needed(Get)) /\ IsRequest(o, IsAbsence(Get))
<1>0. Get = [method |-> "GET", effect |-> "none", needed |-> FALSE, error |-> "ends"]
  BY DEF Get, Request
<1>1. Get \in RequestRecords
  BY <1>0 DEF RequestRecords, WritingMethods, HostEffects
<1>3. Get.method = "GET" /\ Get.effect = "none" /\ Get.error = "ends"
  BY <1>0
<1>2. ASSUME NEW r \in RequestRecords
      PROVE  /\ Needed(r) \in RequestRecords
             /\ Needed(r).method = r.method /\ Needed(r).effect = r.effect /\ Needed(r).error = r.error
             /\ IsAbsence(r) \in RequestRecords
             /\ IsAbsence(r).method = r.method /\ IsAbsence(r).effect = r.effect
  BY DEF RequestRecords, WritingMethods, HostEffects, Needed, IsAbsence
<1> QED  BY <1>1, <1>2, <1>3 DEF IsRequest

\* Requests that write.
LEMMA Writes ==
  ASSUME NEW o, o \notin ReadOnly,
         NEW method \in WritingMethods, NEW effect \in HostEffects
  PROVE  IsRequest(o, Request(method, effect)) /\ IsRequest(o, Needed(Request(method, effect)))
<1>1. Request(method, effect) \in RequestRecords /\ Request(method, effect).error = "ends"
  BY DEF RequestRecords, WritingMethods, HostEffects, Request
<1>2. /\ Needed(Request(method, effect)) \in RequestRecords
      /\ Needed(Request(method, effect)).error = "ends"
  BY <1>1 DEF Needed, RequestRecords
<1> QED  BY <1>1, <1>2 DEF IsRequest, ReadOnly

\* The operations that read.
LEMMA OperationsThatRead ==
  ASSUME NEW o
  PROVE  /\ IsOperation(o, <<Get>>) /\ IsOperation(o, <<Needed(Get)>>) /\ IsOperation(o, <<IsAbsence(Get)>>)
         /\ IsOperation(o, <<Get, Get>>) /\ IsOperation(o, <<Needed(Get), Get>>)
         /\ IsOperation(o, <<IsAbsence(Get), IsAbsence(Get), IsAbsence(Get)>>)
<1> USE Reads
<1>1. IsOperation(o, <<Get>>) /\ IsOperation(o, <<Get, Get>>)
  BY ShortOperations
<1>2. IsOperation(o, <<Needed(Get)>>) /\ IsOperation(o, <<Needed(Get), Get>>)
  BY ShortOperations
<1>3. IsOperation(o, <<IsAbsence(Get)>>) /\ IsOperation(o, <<IsAbsence(Get), IsAbsence(Get), IsAbsence(Get)>>)
  BY ShortOperations
<1> QED  BY <1>1, <1>2, <1>3

\* The operations with one request that writes.
LEMMA OperationsThatWrite ==
  ASSUME NEW o, o \notin ReadOnly, NEW m \in WritingMethods, NEW e \in HostEffects
  PROVE  /\ IsOperation(o, <<Request(m, e)>>) /\ IsOperation(o, <<Needed(Request(m, e))>>)
         /\ IsOperation(o, <<Get, Request(m, e)>>) /\ IsOperation(o, <<Get, Needed(Get), Request(m, e)>>)
<1> USE Reads, Writes
<1>1. IsOperation(o, <<Request(m, e)>>)
  BY ShortOperations
<1>2. IsOperation(o, <<Needed(Request(m, e))>>)
  BY ShortOperations
<1>3. IsOperation(o, <<Get, Request(m, e)>>)
  BY ShortOperations
<1>4. IsOperation(o, <<Get, Needed(Get), Request(m, e)>>)
  BY ShortOperations
<1> QED  BY <1>1, <1>2, <1>3, <1>4

\* The operations with two of them.
LEMMA OperationsThatWriteTwice ==
  ASSUME NEW o, o \notin ReadOnly, NEW m \in WritingMethods, NEW e \in HostEffects,
         NEW n \in WritingMethods, NEW f \in HostEffects
  PROVE  IsOperation(o, <<Request(m, e), Request(n, f)>>)
BY ShortOperations, Writes

\* Every operation of the table is a sequence of such requests.
LEMMA TheOperations == IsTable(Operations)
<1>1. IsTable(RateLimitOperations)
  <2>1. IsOperation("check_rate_limit", <<Get>>)
    BY OperationsThatRead
  <2>2. IsOperation("ensure_rate_limit", <<Needed(Get)>>)
    BY OperationsThatRead
  <2> QED
    BY ONLY <2>1, <2>2 DEF RateLimitOperations, IsTable
<1>2. IsTable(SearchOperations)
  <2>1. IsOperation("search_repositories", <<Get>>)
    BY OperationsThatRead
  <2>2. IsOperation("get_repo_details", <<Get>>)
    BY OperationsThatRead
  <2>3. IsOperation("get_file_tree_verbose", <<Get, Get>>)
    BY OperationsThatRead
  <2> QED
    BY ONLY <2>1, <2>2, <2>3 DEF SearchOperations, IsTable
<1>3. IsTable(FileOperations)
  <2>1. IsOperation("get_file_content", <<Get>>)
    BY OperationsThatRead
  <2>2. IsOperation("get_file_content_with_sha", <<Get>>)
    BY OperationsThatRead
  <2>3. IsOperation("get_open_issues", <<Get>>)
    BY OperationsThatRead
  <2> QED
    BY ONLY <2>1, <2>2, <2>3 DEF FileOperations, IsTable
<1>4. IsTable(GuideOperations)
  <2>1. IsOperation("get_issue", <<Needed(Get)>>)
    BY OperationsThatRead
  <2>2. IsOperation("get_contributing_guide", <<IsAbsence(Get), IsAbsence(Get), IsAbsence(Get)>>)
    BY OperationsThatRead
  <2> QED
    BY ONLY <2>1, <2>2 DEF GuideOperations, IsTable
<1>5. IsTable(ForkAndBranchOperations)
  <2>1. IsOperation("fork_repository", <<Request("POST", "fork")>>)
    BY OperationsThatWrite DEF WritingMethods, HostEffects, ReadOnly
  <2>2. IsOperation("create_branch", <<Get, Needed(Get), Request("POST", "branch")>>)
    BY OperationsThatWrite DEF WritingMethods, HostEffects, ReadOnly
  <2>3. IsOperation("create_branch_at_sha", <<Request("POST", "branch")>>)
    BY OperationsThatWrite DEF WritingMethods, HostEffects, ReadOnly
  <2> QED
    BY ONLY <2>1, <2>2, <2>3 DEF ForkAndBranchOperations, IsTable
<1>6. IsTable(CommitAndPullOperations)
  <2>1. IsOperation("create_or_update_file", <<Request("PUT", "file")>>)
    BY OperationsThatWrite DEF WritingMethods, HostEffects, ReadOnly
  <2>2. IsOperation("create_pull_request", <<Get, Request("POST", "pull")>>)
    BY OperationsThatWrite DEF WritingMethods, HostEffects, ReadOnly
  <2>3. IsOperation("close_pull_request", <<Request("PATCH", "close")>>)
    BY OperationsThatWrite DEF WritingMethods, HostEffects, ReadOnly
  <2>4. IsOperation("update_pull_request", <<Request("PATCH", "edit")>>)
    BY OperationsThatWrite DEF WritingMethods, HostEffects, ReadOnly
  <2> QED
    BY ONLY <2>1, <2>2, <2>3, <2>4 DEF CommitAndPullOperations, IsTable
<1>7. IsTable(CommentOperations)
  <2>1. IsOperation("get_pr_comments", <<Get>>)
    BY OperationsThatRead
  <2>2. IsOperation("create_pr_comment", <<Request("POST", "comment")>>)
    BY OperationsThatWrite DEF WritingMethods, HostEffects, ReadOnly
  <2>3. IsOperation("get_pr_reviews", <<Get>>)
    BY OperationsThatRead
  <2>4. IsOperation("get_pr_review_comments", <<Get>>)
    BY OperationsThatRead
  <2>5. IsOperation("create_pr_review_comment_reply", <<Request("POST", "comment")>>)
    BY OperationsThatWrite DEF WritingMethods, HostEffects, ReadOnly
  <2> QED
    BY ONLY <2>1, <2>2, <2>3, <2>4, <2>5 DEF CommentOperations, IsTable
<1>8. IsTable(ReviewOperations)
  <2>1. IsOperation("dismiss_review", <<Request("PUT", "dismissal")>>)
    BY OperationsThatWrite DEF WritingMethods, HostEffects, ReadOnly
  <2>2. IsOperation("check_cla_signed", <<Needed(Get), Get>>)
    BY OperationsThatRead
  <2>3. IsOperation("get_branch_info", <<Get>>)
    BY OperationsThatRead
  <2>4. IsOperation("get_pr_diff", <<Get>>)
    BY OperationsThatRead
  <2>5. IsOperation("get_authenticated_user", <<Get>>)
    BY OperationsThatRead
  <2> QED
    BY ONLY <2>1, <2>2, <2>3, <2>4, <2>5 DEF ReviewOperations, IsTable
<1>9. IsTable(ListOperations)
  <2>1. IsOperation("list_pull_requests", <<Get>>)
    BY OperationsThatRead
  <2>2. IsOperation("get_combined_status", <<IsAbsence(Get)>>)
    BY OperationsThatRead
  <2> QED
    BY ONLY <2>1, <2>2 DEF ListOperations, IsTable
<1>10. IsTable(ForkOperations)
  <2>1. IsOperation("list_user_forks", <<Get>>)
    BY OperationsThatRead
  <2>2. IsOperation("delete_repository", <<Request("DELETE", "delete")>>)
    BY OperationsThatWrite DEF WritingMethods, HostEffects, ReadOnly
  <2>3. IsOperation("search_issues", <<Get>>)
    BY OperationsThatRead
  <2> QED
    BY ONLY <2>1, <2>2, <2>3 DEF ForkOperations, IsTable
<1>11. IsTable(GraphQlOperations)
  <2>1. IsOperation("search_issues_graphql", <<Needed(Request("POST", "none"))>>)
    BY OperationsThatWrite DEF WritingMethods, HostEffects, ReadOnly
  <2> QED
    BY ONLY <2>1 DEF GraphQlOperations, IsTable
<1>12. IsTable(IssueOperations)
  <2>1. IsOperation("get_file_sha", <<Get>>)
    BY OperationsThatRead
  <2>2. IsOperation("get_pr_details", <<Get>>)
    BY OperationsThatRead
  <2>3. IsOperation("get_assigned_issues", <<Get>>)
    BY OperationsThatRead
  <2>4. IsOperation("create_issue", <<Request("POST", "issue")>>)
    BY OperationsThatWrite DEF WritingMethods, HostEffects, ReadOnly
  <2>5. IsOperation("create_issue_with_labels", <<Request("POST", "issue")>>)
    BY OperationsThatWrite DEF WritingMethods, HostEffects, ReadOnly
  <2>6. IsOperation("close_issue", <<Request("POST", "comment"), Request("PATCH", "close")>>)
    BY OperationsThatWriteTwice DEF WritingMethods, HostEffects, ReadOnly
  <2>7. IsOperation("get_issue_comments", <<Get>>)
    BY OperationsThatRead
  <2>8. IsOperation("get_issue_timeline", <<Get>>)
    BY OperationsThatRead
  <2>9. IsOperation("list_issues", <<Get>>)
    BY OperationsThatRead
  <2> QED
    BY ONLY <2>1, <2>2, <2>3, <2>4, <2>5, <2>6, <2>7, <2>8, <2>9 DEF IssueOperations, IsTable
<1> DEFINE tables == {RateLimitOperations, SearchOperations, FileOperations, GuideOperations,
                      ForkAndBranchOperations, CommitAndPullOperations, CommentOperations, ReviewOperations,
                      ListOperations, ForkOperations, GraphQlOperations, IssueOperations}
<1>13. \A t \in tables : IsTable(t)
  BY <1>1, <1>2, <1>3, <1>4, <1>5, <1>6, <1>7, <1>8, <1>9, <1>10, <1>11, <1>12
<1>14. Operations = Joined(tables)
  BY DEF Operations
<1> HIDE DEF tables
<1> QED  BY <1>13, <1>14, JoinedEntries DEF IsTable

(***************************************************************************)
(* The callers                                                             *)
(***************************************************************************)
Endings == {"none", "ok", "lost", "limited", "failing", "refused", "unreadable"}

CallRecords ==
  [at : {"idle", "start", "asleep", "ready", "over"}, operation : DOMAIN Operations \cup {"none"},
   request : Nat, attempt : Nat, until : Nat, times : UNION {[1..n -> Nat] : n \in Nat}, ending : Endings]

Steps(call) == 1..Len(Sequence(call))

IsOnce(request) == request.method \in {"POST", "PATCH"}

\* What was done for an operation that began: up to the request that is under way each
\* change was made, those behind it were not asked for, and what must not be repeated
\* was done once at most, and not at all while it may yet be asked for.
Accounted(call) ==
  /\ call.operation \in DOMAIN Operations
  /\ call.times \in [Steps(call) -> Nat]
  /\ call.request \in Steps(call)
  /\ \A i \in Steps(call) :
       /\ IsOnce(Sequence(call)[i]) => call.times[i] <= 1
       /\ i > call.request => call.times[i] = 0
       /\ i < call.request /\ Sequence(call)[i].effect # "none" => call.times[i] > 0

Pending(call) ==
  /\ call.ending = "none"
  /\ IsOnce(Sequence(call)[call.request]) => call.times[call.request] = 0

Told(call) ==
  /\ call.ending = "ok" => \A i \in Steps(call) : Sequence(call)[i].effect # "none" => call.times[i] > 0
  /\ call.ending \in {"limited", "refused"} /\ IsOnce(Sequence(call)[call.request]) =>
       call.times[call.request] = 0

CallInv(call) ==
  /\ call \in CallRecords
  /\ call.at = "idle" => call = Idle
  /\ call.at # "idle" => Accounted(call)
  /\ call.at \in {"start", "asleep", "ready"} => Pending(call)
  /\ call.at = "over" => Told(call)

RequestsInv ==
  /\ budget \in [low : BOOLEAN, reset : Nat]
  /\ moment \in Nat
  /\ calls \in [Askers -> CallRecords]
  /\ \A c \in Askers : CallInv(calls[c])

\* The requests of a call.
LEMMA AnOperation ==
  ASSUME NEW call \in CallRecords, call.operation \in DOMAIN Operations
  PROVE  /\ Sequence(call) \in Seq(RequestRecords)
         /\ Len(Sequence(call)) \in Nat /\ 1 \in Steps(call)
         /\ \A i \in Steps(call) : IsRequest(call.operation, Sequence(call)[i])
<1>1. IsOperation(call.operation, Operations[call.operation])
  BY TheOperations DEF IsTable
<1>2. Sequence(call) = Operations[call.operation]
  BY DEF Sequence
<1> QED  BY <1>1, <1>2, LenProperties DEF IsOperation, Steps

\* Changes of a call that concern neither its operation nor what was done.
LEMMA SameAccount ==
  ASSUME NEW call \in CallRecords, NEW d \in CallRecords,
         d.operation = call.operation, d.times = call.times
  PROVE  /\ Sequence(d) = Sequence(call) /\ Steps(d) = Steps(call)
         /\ d.request = call.request /\ Accounted(call) => Accounted(d)
         /\ d.request = call.request /\ d.ending = call.ending /\ Pending(call) => Pending(d)
<1>1. Sequence(d) = Sequence(call) /\ Steps(d) = Steps(call)
  BY DEF Sequence, Steps
<1> QED  BY <1>1 DEF Accounted, Pending

\* A call that ends.
LEMMA EndedCall ==
  ASSUME NEW call \in CallRecords, NEW e \in Endings
  PROVE  LET d == End(call, e)
         IN /\ d \in CallRecords /\ d.at = "over" /\ d.operation = call.operation /\ d.request = call.request
            /\ d.times = call.times /\ d.ending = e
BY DEF End, CallRecords

\* A call that goes on with its next request.
LEMMA NextCall ==
  ASSUME NEW call \in CallRecords
  PROVE  LET d == [call EXCEPT !.at = "start", !.request = @ + 1, !.attempt = 1]
         IN /\ d \in CallRecords /\ d.at = "start" /\ d.operation = call.operation
            /\ d.request = call.request + 1
            /\ d.times = call.times /\ d.ending = call.ending
<1>1. ASSUME NEW r \in Nat
      PROVE  LET d == [call EXCEPT !.at = "start", !.request = r, !.attempt = 1]
             IN /\ d \in CallRecords /\ d.at = "start" /\ d.operation = call.operation
                /\ d.request = r
                /\ d.times = call.times /\ d.ending = call.ending
  BY DEF CallRecords
<1>2. call.request + 1 \in Nat
  BY DEF CallRecords
<1> QED  BY ONLY <1>1, <1>2, Zenon

\* A call that asks again.
LEMMA RetriedCall ==
  ASSUME NEW call \in CallRecords, NEW u \in Nat
  PROVE  LET d == [call EXCEPT !.at = "asleep", !.attempt = @ + 1, !.until = u]
         IN /\ d \in CallRecords /\ d.at = "asleep" /\ d.operation = call.operation /\ d.request = call.request
            /\ d.times = call.times /\ d.ending = call.ending
<1>1. ASSUME NEW r \in Nat
      PROVE  LET d == [call EXCEPT !.at = "asleep", !.attempt = r, !.until = u]
             IN /\ d \in CallRecords /\ d.at = "asleep" /\ d.operation = call.operation
                /\ d.request = call.request
                /\ d.times = call.times /\ d.ending = call.ending
  BY DEF CallRecords
<1>2. call.attempt + 1 \in Nat
  BY DEF CallRecords
<1> QED  BY ONLY <1>1, <1>2, Zenon

\* A call whose request the host carried out.
LEMMA DoneCall ==
  ASSUME NEW call \in CallRecords, Accounted(call), NEW t \in Nat
  PROVE  LET d == [call EXCEPT !.times[call.request] = t]
         IN /\ d \in CallRecords /\ d.at = call.at /\ d.operation = call.operation /\ d.request = call.request
            /\ d.times = [call.times EXCEPT ![call.request] = t] /\ d.ending = call.ending
<1> DEFINE times == [call.times EXCEPT ![call.request] = t]
           d == [call EXCEPT !.times = times]
<1>1. times \in [Steps(call) -> Nat] /\ Len(Sequence(call)) \in Nat
  BY AnOperation DEF Accounted
<1>2. times \in UNION {[1..n -> Nat] : n \in Nat}
  BY <1>1 DEF Steps
<1> HIDE DEF times
<1>3. d \in CallRecords /\ d.at = call.at /\ d.operation = call.operation /\ d.request = call.request
      /\ d.times = times /\ d.ending = call.ending
  BY <1>2 DEF CallRecords
<1> QED  BY <1>3 DEF times

\* A call whose request succeeded goes on, or tells that all was done.
LEMMA ProceedingCall ==
  ASSUME NEW call \in CallRecords, Accounted(call), call.ending = "none",
         Sequence(call)[call.request].effect # "none" => call.times[call.request] > 0
  PROVE  CallInv(Proceed(call))
<1> DEFINE s == Sequence(call)
           d == [call EXCEPT !.at = "start", !.request = @ + 1, !.attempt = 1]
           e == End(call, "ok")
<1>1. Len(s) \in Nat /\ call.request \in 1..Len(s) /\ call.operation \in DOMAIN Operations
  BY AnOperation DEF Accounted, Steps
<1>2. CASE call.request < Len(s)
  <2>1. /\ d \in CallRecords /\ d.at = "start" /\ d.operation = call.operation
        /\ d.request = call.request + 1 /\ d.times = call.times /\ d.ending = call.ending
    BY NextCall
  <2>2. Proceed(call) = d
    BY <1>2 DEF Proceed
  <2> HIDE DEF d
  <2>3. Sequence(d) = s /\ Steps(d) = Steps(call)
    BY <2>1, SameAccount
  <2>4. Accounted(d)
    BY <2>1, <2>3, <1>1, <1>2 DEF Accounted, Steps
  <2>5. Pending(d)
    BY <2>1, <2>3, <1>1, <1>2 DEF Accounted, Pending, Steps
  <2> QED  BY <2>1, <2>2, <2>4, <2>5 DEF CallInv
<1>3. CASE ~(call.request < Len(s))
  <2>1. /\ e \in CallRecords /\ e.at = "over" /\ e.operation = call.operation /\ e.request = call.request
        /\ e.times = call.times /\ e.ending = "ok"
    BY EndedCall DEF Endings
  <2>2. Proceed(call) = e
    BY <1>3 DEF Proceed
  <2> HIDE DEF e
  <2>3. Sequence(e) = s /\ Steps(e) = Steps(call) /\ Accounted(e)
    BY <2>1, SameAccount
  <2>4. call.request = Len(s)
    BY <1>1, <1>3
  <2>5. Told(e)
    BY <2>1, <2>3, <2>4 DEF Accounted, Told, Steps
  <2> QED  BY <2>1, <2>2, <2>3, <2>5 DEF CallInv
<1> QED  BY <1>2, <1>3

\* A call that ends tells what was done.
LEMMA EndingCall ==
  ASSUME NEW call \in CallRecords, Accounted(call), NEW e \in Endings,
         e = "ok" => \A i \in Steps(call) : Sequence(call)[i].effect # "none" => call.times[i] > 0,
         e \in {"limited", "refused"} /\ IsOnce(Sequence(call)[call.request]) => call.times[call.request] = 0
  PROVE  CallInv(End(call, e))
<1> DEFINE d == End(call, e)
<1>1. /\ d \in CallRecords /\ d.at = "over" /\ d.operation = call.operation /\ d.request = call.request
      /\ d.times = call.times /\ d.ending = e
  BY EndedCall
<1> HIDE DEF d
<1>2. Sequence(d) = Sequence(call) /\ Steps(d) = Steps(call) /\ Accounted(d)
  BY <1>1, SameAccount
<1>3. Told(d)
  BY <1>1, <1>2 DEF Told
<1> QED  BY <1>1, <1>2, <1>3 DEF CallInv, d

Kinds == {"lost", "limited", "failing", "refused", "unreadable", "ok", "nothing"}

\* What the host answers, and how often the change is then made.
LEMMA AnswersOfTheHost ==
  ASSUME NEW request, NEW times \in Nat, NEW a \in Answered(request, times)
  PROVE  /\ a.kind \in Kinds /\ a.times \in {times, times + 1, 0}
         /\ a.kind \in {"limited", "refused"} => a.times = times
         /\ a.kind \in {"ok", "nothing"} /\ request.effect # "none" => a.times = times + 1
<1>1. CASE a \in {[kind |-> k, times |-> times] : k \in {"lost", "limited", "failing", "refused"}}
  BY <1>1 DEF Kinds
<1>2. CASE a \in {[kind |-> k, times |-> IF request.effect = "none" THEN 0 ELSE times + 1] :
                   k \in {"lost", "failing", "unreadable", "ok", "nothing"}}
  BY <1>2 DEF Kinds
<1> QED  BY <1>1, <1>2 DEF Answered

\* Every case of an attempt: accepted, asked again, read as absence, given up, failed.
LEMMA AttemptedCall ==
  ASSUME NEW before \in CallRecords, CallInv(before), before.at = "ready",
         NEW a \in Answered(Sequence(before)[before.request], before.times[before.request]),
         NEW delay, NEW u \in Nat,
         NEW call, call = [before EXCEPT !.times[before.request] = a.times]
  PROVE  CallInv(CASE a.kind \in {"ok", "nothing"} -> Accept(call, a)
            [] MayRetry(a.kind, Sequence(call)[call.request], call.attempt, delay) ->
                 [call EXCEPT !.at = "asleep", !.attempt = @ + 1, !.until = u]
            [] a.kind \notin {"ok", "nothing"} /\ Sequence(call)[call.request].error = "absence"
               /\ ~MayRetry(a.kind, Sequence(call)[call.request], call.attempt, delay) -> Proceed(call)
            [] OTHER -> End(call, a.kind))
<1> DEFINE k == before.request
           request == Sequence(call)[call.request]
           again == MayRetry(a.kind, request, call.attempt, delay)
<1>1. Accounted(before) /\ Pending(before)
  BY DEF CallInv
<1>2. k \in Steps(before) /\ before.times \in [Steps(before) -> Nat] /\ before.times[k] \in Nat
  BY <1>1 DEF Accounted
<1>3. /\ a.kind \in Kinds /\ a.times \in {before.times[k], before.times[k] + 1, 0}
      /\ a.kind \in {"limited", "refused"} => a.times = before.times[k]
      /\ a.kind \in {"ok", "nothing"} /\ Sequence(before)[k].effect # "none" => a.times = before.times[k] + 1
  BY <1>2, AnswersOfTheHost
<1>4. a.times \in Nat
  BY <1>2, <1>3
<1>5. /\ call \in CallRecords /\ call.at = "ready" /\ call.operation = before.operation /\ call.request = k
      /\ call.times = [before.times EXCEPT ![k] = a.times] /\ call.ending = before.ending
  BY <1>1, <1>4, DoneCall
<1> HIDE DEF k
<1>6. Sequence(call) = Sequence(before) /\ Steps(call) = Steps(before)
  BY <1>5 DEF Sequence, Steps
<1>7. /\ call.times \in [Steps(call) -> Nat] /\ call.times[k] = a.times
      /\ \A i \in Steps(call) : i # k => call.times[i] = before.times[i]
  BY <1>2, <1>4, <1>5, <1>6
<1>8. call.operation \in DOMAIN Operations /\ call.request \in Steps(call) /\ call.ending = "none"
  BY <1>1, <1>2, <1>5, <1>6 DEF Accounted, Pending
<1>9. /\ request = Sequence(before)[k] /\ IsRequest(call.operation, request)
      /\ Len(Sequence(call)) \in Nat /\ Steps(call) \subseteq Nat
  BY <1>5, <1>6, <1>8, AnOperation DEF Steps
<1>10. Accounted(call)
  <2>1. IsOnce(request) => a.times <= 1
    BY <1>1, <1>3, <1>9 DEF Pending, k
  <2>2. ASSUME NEW i \in Steps(call)
        PROVE  /\ IsOnce(Sequence(call)[i]) => call.times[i] <= 1
               /\ i > call.request => call.times[i] = 0
               /\ i < call.request /\ Sequence(call)[i].effect # "none" => call.times[i] > 0
    <3>1. CASE i = k
      BY <1>5, <1>7, <1>8, <1>9, <2>1, <3>1
    <3>2. CASE i # k
      BY <1>1, <1>5, <1>6, <1>7, <3>2 DEF Accounted, k
    <3> QED  BY <3>1, <3>2
  <2> QED  BY <1>7, <1>8, <2>2 DEF Accounted
<1>11. CASE a.kind \in {"ok", "nothing"}
  <2> SUFFICES CallInv(Accept(call, a))
    BY <1>11 DEF MayRetry
  <2>1. request.effect # "none" => call.times[call.request] > 0
    BY <1>2, <1>3, <1>5, <1>7, <1>9, <1>11
  <2>2. CASE a.kind = "nothing"
    <3> DEFINE e == IF call.operation = "ensure_rate_limit" THEN "limited" ELSE "unreadable"
    <3>1. e \in Endings /\ e # "ok" /\ e # "refused"
      BY DEF Endings
    <3>2. e = "limited" => ~IsOnce(request)
      BY <1>9 DEF IsRequest, IsOnce, ReadOnly
    <3>3. CallInv(End(call, e))
      BY <1>5, <1>10, <3>1, <3>2, EndingCall
    <3>4. Accept(call, a) = End(call, e)
      BY <2>2 DEF Accept
    <3> QED  BY ONLY <3>3, <3>4
  <2>3. CASE a.kind = "ok" /\ call.operation = "get_contributing_guide"
    <3>1. \A i \in Steps(call) : Sequence(call)[i].effect = "none"
      BY <1>5, <1>8, <2>3, AnOperation DEF IsRequest, ReadOnly
    <3>2. CallInv(End(call, "ok"))
      BY <1>5, <1>10, <3>1, EndingCall DEF Endings
    <3>3. Accept(call, a) = End(call, "ok")
      BY <2>3 DEF Accept
    <3> QED  BY ONLY <3>2, <3>3
  <2>4. CASE a.kind = "ok" /\ call.operation # "get_contributing_guide"
    <3>1. CallInv(Proceed(call))
      BY <1>5, <1>8, <1>10, <2>1, ProceedingCall
    <3>2. Accept(call, a) = Proceed(call)
      BY <2>4 DEF Accept
    <3> QED  BY ONLY <3>1, <3>2
  <2> QED  BY <2>2, <2>3, <2>4, <1>11
<1>12. CASE a.kind \notin {"ok", "nothing"} /\ again
  <2> DEFINE d == [call EXCEPT !.at = "asleep", !.attempt = @ + 1, !.until = u]
  <2>1. /\ d \in CallRecords /\ d.at = "asleep" /\ d.operation = call.operation /\ d.request = call.request
        /\ d.times = call.times /\ d.ending = call.ending
    <3>1. call \in CallRecords /\ u \in Nat
      BY <1>5
    <3> QED  BY ONLY <3>1, RetriedCall
  <2>2. ~IsOnce(request)
    BY <1>12 DEF MayRetry, IsRetrySafe, IsOnce
  <2> HIDE DEF d
  <2>3. Pending(call)
    BY <1>8, <2>2 DEF Pending
  <2>4. Accounted(d) /\ Pending(d)
    BY <1>5, <1>10, <2>1, <2>3, SameAccount
  <2>5. CallInv(d)
    BY <2>1, <2>4 DEF CallInv
  <2> QED  BY <2>5, <1>12 DEF d
<1>13. CASE a.kind \notin {"ok", "nothing"} /\ request.error = "absence" /\ ~again
  <2>1. request.effect = "none"
    BY <1>9, <1>13 DEF IsRequest
  <2>2. CallInv(Proceed(call))
    BY <1>5, <1>8, <1>10, <2>1, ProceedingCall
  <2> QED  BY <2>2, <1>13
<1>14. CASE a.kind \notin {"ok", "nothing"} /\ request.error # "absence" /\ ~again
  <2>1. a.kind \in Endings /\ a.kind # "ok"
    BY <1>3, <1>14 DEF Endings, Kinds
  <2>2. a.kind \in {"limited", "refused"} /\ IsOnce(request) => call.times[call.request] = 0
    BY <1>1, <1>3, <1>5, <1>7, <1>9 DEF Pending, k
  <2>3. CallInv(End(call, a.kind))
    BY <1>5, <1>10, <2>1, <2>2, EndingCall
  <2> QED  BY <2>3, <1>14
<1> QED  BY <1>11, <1>12, <1>13, <1>14

\* A call that begins has done nothing.
LEMMA BegunCall ==
  ASSUME NEW o \in DOMAIN Operations
  PROVE  CallInv([Idle EXCEPT !.at = "start", !.operation = o, !.times = [i \in DOMAIN Operations[o] |-> 0]])
<1> DEFINE times == [i \in DOMAIN Operations[o] |-> 0]
           d == [Idle EXCEPT !.at = "start", !.operation = o, !.times = times]
<1>1. /\ Operations[o] \in Seq(RequestRecords) /\ Len(Operations[o]) \in Nat /\ 1 <= Len(Operations[o])
      /\ DOMAIN Operations[o] = 1..Len(Operations[o])
  BY TheOperations, LenProperties DEF IsTable, IsOperation
<1>2. times \in [1..Len(Operations[o]) -> Nat]
  BY <1>1
<1>3. \A i \in 1..Len(Operations[o]) : times[i] = 0
  BY <1>1
<1> HIDE DEF times
<1>4. ASSUME NEW r \in [at : {"idle"}, operation : {"none"}, request : {1}, attempt : {1}, until : {0},
                          times : {<<>>}, ending : {"none"}]
      PROVE  [r EXCEPT !.at = "start", !.operation = o, !.times = times] \in
               [at : {"start"}, operation : {o}, request : {1}, attempt : {1}, until : {0}, times : {times},
                ending : {"none"}]
  OBVIOUS
<1>5. Idle \in [at : {"idle"}, operation : {"none"}, request : {1}, attempt : {1}, until : {0}, times : {<<>>},
                ending : {"none"}]
  BY DEF Idle
<1>10. d \in [at : {"start"}, operation : {o}, request : {1}, attempt : {1}, until : {0}, times : {times},
              ending : {"none"}]
  BY <1>4, <1>5
<1>11. times \in UNION {[1..n -> Nat] : n \in Nat}
  BY <1>1, <1>2
<1> HIDE DEF d
<1>6. /\ d \in CallRecords /\ d.at = "start" /\ d.operation = o /\ d.request = 1 /\ d.times = times
      /\ d.ending = "none"
  BY <1>10, <1>11 DEF CallRecords, Endings
<1>7. Sequence(d) = Operations[o] /\ Steps(d) = 1..Len(Operations[o])
  BY <1>6 DEF Sequence, Steps
<1>8. Accounted(d) /\ Pending(d)
  <2>1. \A i \in Steps(d) : d.times[i] = 0 /\ ~(i < d.request)
    BY <1>1, <1>3, <1>6, <1>7
  <2>2. d.request \in Steps(d)
    BY <1>1, <1>6, <1>7
  <2>3. d.operation \in DOMAIN Operations /\ d.times \in [Steps(d) -> Nat]
    BY <1>2, <1>6, <1>7
  <2>4. Accounted(d)
    BY <1>6, <2>1, <2>2, <2>3 DEF Accounted
  <2> QED  BY <1>6, <2>1, <2>2, <2>4 DEF Pending
<1>9. CallInv(d)
  BY <1>6, <1>8 DEF CallInv
<1> QED  BY <1>9 DEF d, times

\* A call that waits, and one that waited.
LEMMA PausedCall ==
  ASSUME NEW call, CallInv(call), call.at \in {"start", "asleep"},
         NEW w \in {"asleep", "ready"}, NEW u \in Nat,
         NEW d, d = [call EXCEPT !.at = w, !.until = u]
  PROVE  CallInv(d)
<1>1. call \in CallRecords /\ Accounted(call) /\ Pending(call)
  BY DEF CallInv
<1>2. /\ d \in CallRecords /\ d.at = w /\ d.operation = call.operation /\ d.request = call.request
      /\ d.times = call.times /\ d.ending = call.ending
  BY <1>1 DEF CallRecords
<1>3. Accounted(d) /\ Pending(d)
  BY <1>1, <1>2, SameAccount
<1> QED  BY <1>2, <1>3 DEF CallInv

\* At each moment what was done for a call is what its progress says.
LEMMA RequestsInvHolds == RequestsSpec => []RequestsInv
<1>1. RequestsInit => RequestsInv
  <2> SUFFICES ASSUME RequestsInit PROVE RequestsInv
    OBVIOUS
  <2>1. Idle \in CallRecords /\ Idle.at = "idle"
    <3>1. <<>> \in [1..0 -> Nat]
      OBVIOUS
    <3> QED  BY <3>1 DEF Idle, CallRecords, Endings
  <2>2. CallInv(Idle)
    BY <2>1 DEF CallInv
  <2> QED  BY <2>1, <2>2 DEF RequestsInit, RequestsInv
<1>2. RequestsInv /\ [RequestsNext]_requestsVars => RequestsInv'
  <2> SUFFICES ASSUME RequestsInv, [RequestsNext]_requestsVars
               PROVE  RequestsInv'
    OBVIOUS
  <2>1. ASSUME NEW c \in Askers, NEW d, CallInv(d), calls' = [calls EXCEPT ![c] = d],
               moment' \in Nat, budget' \in [low : BOOLEAN, reset : Nat]
        PROVE  RequestsInv'
    <3>1. d \in CallRecords
      BY <2>1 DEF CallInv
    <3>2. \A b \in Askers : CallInv(calls'[b])
      BY <2>1 DEF RequestsInv
    <3> QED  BY <2>1, <3>1, <3>2 DEF RequestsInv, CallInv
  <2>2. CASE Tick
    BY <2>2 DEF Tick, RequestsInv, CallInv
  <2>3. ASSUME NEW c \in Askers, NEW o \in Asked[c], Call(c, o)
        PROVE  RequestsInv'
    <3>1. o \in DOMAIN Operations
      BY RequestsAssumption DEF Askers
    <3> QED  BY <2>1, <2>3, <3>1, BegunCall DEF Call, RequestsInv
  <2>5. ASSUME NEW c \in Askers, MaybeThrottle(c)
        PROVE  RequestsInv'
    <3> DEFINE wait == IF budget.low THEN Shorter(Until(budget.reset)) ELSE 0
               w == IF wait = 0 THEN "ready" ELSE "asleep"
               u == IF wait = 0 THEN 0 ELSE moment + wait
    <3>1. wait \in Nat
      BY RequestsAssumption DEF Shorter, Until, RequestsInv
    <3>2. w \in {"asleep", "ready"} /\ u \in Nat
      BY <3>1 DEF RequestsInv
    <3>3. calls[c].at = "start" /\ CallInv(calls[c]) /\ calls \in [Askers -> CallRecords]
      BY <2>5 DEF MaybeThrottle, RequestsInv
    <3>4. calls' = [calls EXCEPT ![c].at = w, ![c].until = u] /\ UNCHANGED <<budget, moment>>
      BY <2>5 DEF MaybeThrottle
    <3> HIDE DEF w, u
    <3>5. calls' = [calls EXCEPT ![c] = [calls[c] EXCEPT !.at = w, !.until = u]]
      BY <3>3, <3>4
    <3>6. CallInv([calls[c] EXCEPT !.at = w, !.until = u])
      BY <3>2, <3>3, PausedCall
    <3> QED  BY <2>1, <3>4, <3>5, <3>6 DEF RequestsInv
  <2>6. ASSUME NEW c \in Askers, WakeUp(c)
        PROVE  RequestsInv'
    <3>3. calls[c].at = "asleep" /\ CallInv(calls[c]) /\ calls \in [Askers -> CallRecords]
      BY <2>6 DEF WakeUp, RequestsInv
    <3>4. calls' = [calls EXCEPT ![c].at = "ready", ![c].until = 0] /\ UNCHANGED <<budget, moment>>
      BY <2>6 DEF WakeUp
    <3>5. calls' = [calls EXCEPT ![c] = [calls[c] EXCEPT !.at = "ready", !.until = 0]]
      BY <3>3, <3>4
    <3>6. CallInv([calls[c] EXCEPT !.at = "ready", !.until = 0])
      BY <3>3, PausedCall
    <3> QED  BY <2>1, <3>4, <3>5, <3>6 DEF RequestsInv
  <2>7. ASSUME NEW c \in Askers, calls[c].at = "ready",
               NEW a \in Answered(Sequence(calls[c])[calls[c].request], calls[c].times[calls[c].request]),
               NEW hint \in Hints(a.kind), NEW known \in Budgets(a.kind), Attempt(c, a, hint, known)
        PROVE  RequestsInv'
    <3> DEFINE delay == IF a.kind = "lost" THEN 0 ELSE RetryDelay(hint, known)
               call == [calls[c] EXCEPT !.times[calls[c].request] = a.times]
               u == moment + Pause(a.kind, delay)
    <3>1. known \in [low : BOOLEAN, reset : Nat]
      <4>1. moment \in Nat /\ Horizon \in Nat /\ budget \in [low : BOOLEAN, reset : Nat]
        BY RequestsAssumption DEF RequestsInv
      <4>2. \A d \in {1, Horizon} : [low |-> TRUE, reset |-> moment + d] \in [low : BOOLEAN, reset : Nat]
        BY <4>1
      <4>3. [low |-> FALSE, reset |-> 0] \in [low : BOOLEAN, reset : Nat]
        OBVIOUS
      <4> QED  BY <4>1, <4>2, <4>3 DEF Budgets
    <3>2. hint \in Nat
      BY RequestsAssumption DEF Hints
    <3>3. delay \in Nat
      BY <3>1, <3>2 DEF RetryDelay, Until, RequestsInv
    <3>4. u \in Nat
      BY <3>3, RequestsAssumption DEF Pause, Shorter, RequestsInv
    <3>5. calls[c] \in CallRecords /\ CallInv(calls[c])
      BY DEF RequestsInv
    <3> DEFINE result ==
            CASE a.kind \in {"ok", "nothing"} -> Accept(call, a)
              [] MayRetry(a.kind, Sequence(call)[call.request], call.attempt, delay) ->
                   [call EXCEPT !.at = "asleep", !.attempt = @ + 1, !.until = u]
              [] a.kind \notin {"ok", "nothing"} /\ Sequence(call)[call.request].error = "absence"
                 /\ ~MayRetry(a.kind, Sequence(call)[call.request], call.attempt, delay) -> Proceed(call)
              [] OTHER -> End(call, a.kind)
    <3>6. calls' = [calls EXCEPT ![c] = result] /\ moment' = moment /\ budget' = known
      BY <2>7 DEF Attempt
    <3> HIDE DEF delay, u, call
    <3>7. CallInv(result)
      BY <2>7, <3>4, <3>5, AttemptedCall DEF call
    <3> QED  BY <2>1, <3>1, <3>6, <3>7 DEF RequestsInv
  <2>8. CASE UNCHANGED requestsVars
    BY <2>8 DEF requestsVars, RequestsInv, CallInv
  <2> QED  BY <2>2, <2>3, <2>5, <2>6, <2>7, <2>8 DEF RequestsNext
<1> QED  BY <1>1, <1>2, PTL DEF RequestsSpec

\* A caller of the GitHub client that is told success finds each needed change made; a
\* request that must not be repeated was carried out at most once, and not at all if its
\* caller is told a refusal or a rate limit: for any number of callers, any limits and
\* any number of lost answers (execute_request_with_retry and the operations of client.rs).
THEOREM CallersAreToldOutcomes == RequestsSpec => []OutcomesAreTold
<1>1. RequestsInv => OutcomesAreTold
  <2> SUFFICES ASSUME RequestsInv, NEW c \in Askers, NEW i \in DOMAIN calls[c].times
               PROVE  LET call == calls[c]
                      IN /\ call.ending = "ok" /\ Sequence(call)[i].effect # "none" => call.times[i] > 0
                         /\ Sequence(call)[i].method \in {"POST", "PATCH"} => call.times[i] <= 1
                         /\ /\ Sequence(call)[i].method \in {"POST", "PATCH"} /\ i = call.request
                            /\ call.ending \in {"limited", "refused"}
                            => call.times[i] = 0
    BY DEF OutcomesAreTold
  <2>1. CallInv(calls[c])
    BY DEF RequestsInv
  <2>2. CASE calls[c].at = "idle"
    BY <2>1, <2>2 DEF CallInv, Idle
  <2>3. CASE calls[c].at # "idle"
    <3>1. Accounted(calls[c]) /\ i \in Steps(calls[c])
      BY <2>1, <2>3 DEF CallInv, Accounted
    <3>2. calls[c].at \in {"start", "asleep", "ready", "over"}
      BY <2>1, <2>3 DEF CallInv, CallRecords
    <3>3. Pending(calls[c]) \/ Told(calls[c])
      BY <2>1, <3>2 DEF CallInv
    <3> QED  BY <3>1, <3>3 DEF Accounted, Pending, Told, IsOnce
  <2> QED  BY <2>2, <2>3
<1> QED  BY <1>1, RequestsInvHolds, PTL

(***************************************************************************)
(* Tools: which operations each is handled by, and what then may change.   *)
(***************************************************************************)
\* Operations of tools that need a grant.
ByGrant ==
  {"fork_repository", "create_branch", "create_or_update_file", "close_pull_request", "create_pr_comment",
   "dismiss_review", "list_user_forks", "delete_repository"}

\* The operations that tools use change known things, and some change nothing.
LEMMA OperationsOfTools ==
  /\ ReadOnly \cup ByGrant \subseteq DOMAIN Operations
  /\ \A o \in DOMAIN Operations : Effects(o) \subseteq HostEffects
  /\ \A o \in ReadOnly : Effects(o) = {}
<1>1. ReadOnly \cup ByGrant \subseteq DOMAIN Operations
  <2> DEFINE tables == {RateLimitOperations, SearchOperations, FileOperations, GuideOperations,
                        ForkAndBranchOperations, CommitAndPullOperations, CommentOperations, ReviewOperations,
                        ListOperations, ForkOperations, GraphQlOperations, IssueOperations}
  <2>1. {"get_contributing_guide"} \subseteq DOMAIN GuideOperations
    BY DEF GuideOperations
  <2>2. {"ensure_rate_limit"} \subseteq DOMAIN RateLimitOperations
    BY DEF RateLimitOperations
  <2>3. {"search_repositories", "get_repo_details", "get_file_tree_verbose"} \subseteq DOMAIN SearchOperations
    BY DEF SearchOperations
  <2>4. {"get_file_content", "get_open_issues"} \subseteq DOMAIN FileOperations
    BY DEF FileOperations
  <2>5. {"get_pr_comments", "get_pr_review_comments", "get_pr_reviews", "create_pr_comment"}
          \subseteq DOMAIN CommentOperations
    BY DEF CommentOperations
  <2>6. {"get_authenticated_user", "dismiss_review"} \subseteq DOMAIN ReviewOperations
    BY DEF ReviewOperations
  <2>7. {"fork_repository", "create_branch"} \subseteq DOMAIN ForkAndBranchOperations
    BY DEF ForkAndBranchOperations
  <2>8. {"create_or_update_file", "close_pull_request"} \subseteq DOMAIN CommitAndPullOperations
    BY DEF CommitAndPullOperations
  <2>9. {"list_user_forks", "delete_repository"} \subseteq DOMAIN ForkOperations
    BY DEF ForkOperations
  <2>10. DOMAIN Operations = UNION {DOMAIN t : t \in tables}
    BY JoinedEntries DEF Operations
  <2>11. {GuideOperations, RateLimitOperations, SearchOperations, FileOperations, CommentOperations,
          ReviewOperations, ForkAndBranchOperations, CommitAndPullOperations, ForkOperations} \subseteq tables
    OBVIOUS
  <2> HIDE DEF tables
  <2> QED  BY <2>1, <2>2, <2>3, <2>4, <2>5, <2>6, <2>7, <2>8, <2>9, <2>10, <2>11 DEF ReadOnly, ByGrant
<1>2. ASSUME NEW o \in DOMAIN Operations
      PROVE  /\ Effects(o) \subseteq HostEffects
             /\ o \in ReadOnly => Effects(o) = {}
  <2>1. IsOperation(o, Operations[o]) /\ DOMAIN Operations[o] = 1..Len(Operations[o])
    BY TheOperations, LenProperties DEF IsTable, IsOperation
  <2>2. \A i \in DOMAIN Operations[o] : IsRequest(o, Operations[o][i])
    BY <2>1 DEF IsOperation
  <2> QED  BY <2>2 DEF Effects, IsRequest, RequestRecords
<1> QED  BY <1>1, <1>2

\* What needs no grant only reads, and so does what passes over errors; but a cleanup.
IsHandled(tool, h) ==
  /\ \A i \in DOMAIN h.operations : h.operations[i] \in DOMAIN Operations
  /\ ~IsMutatingTool(tool) \/ (h.error = "goes on" /\ tool # "cleanup_forks") =>
       \A i \in DOMAIN h.operations : h.operations[i] \in ReadOnly

\* Tools without an operation.
LEMMA HandledLocally ==
  ASSUME NEW tool
  PROVE  IsHandled(tool, Locally)
BY DEF IsHandled, Handled, Locally

\* Sequences of one.
LEMMA OneEntry ==
  ASSUME NEW o
  PROVE  \A i \in DOMAIN <<o>> : <<o>>[i] = o
OBVIOUS

\* Tools of one operation.
LEMMA HandledByOne ==
  ASSUME NEW tool, NEW o \in ReadOnly \cup ByGrant, NEW e,
         o \in ReadOnly \/ (IsMutatingTool(tool) /\ e # "goes on")
  PROVE  IsHandled(tool, Handled(<<o>>, e))
<1>1. Handled(<<o>>, e).operations = <<o>> /\ Handled(<<o>>, e).error = e
  BY DEF Handled
<1>2. \A i \in DOMAIN <<o>> : <<o>>[i] = o
  BY OneEntry
<1>3. o \in DOMAIN Operations
  BY OperationsOfTools
<1> HIDE DEF Handled
<1> QED  BY <1>1, <1>2, <1>3 DEF IsHandled

\* Every tool that is advertised is handled, and no other is.
LEMMA TheTools ==
  /\ DOMAIN Calls = RepositoryTools \cup PullRequestTools \cup ReviewAndRunTools
  /\ \A tool \in DOMAIN Calls : IsHandled(tool, Calls[tool])
<1>1. \A tool \in DOMAIN RepositoryCalls : IsHandled(tool, RepositoryCalls[tool])
  <2>1. IsHandled("search_repos", Handled(<<"search_repositories">>, "ends"))
    BY HandledByOne DEF ReadOnly, ByGrant, IsMutatingTool
  <2>2. IsHandled("get_repo_info", Handled(<<"get_repo_details">>, "ends"))
    BY HandledByOne DEF ReadOnly, ByGrant, IsMutatingTool
  <2>3. IsHandled("get_file_tree", Handled(<<"get_file_tree_verbose">>, "ends"))
    BY HandledByOne DEF ReadOnly, ByGrant, IsMutatingTool
  <2>4. IsHandled("get_file_content", Handled(<<"get_file_content">>, "ends"))
    BY HandledByOne DEF ReadOnly, ByGrant, IsMutatingTool
  <2>5. IsHandled("get_open_issues", Handled(<<"get_open_issues">>, "ends"))
    BY HandledByOne DEF ReadOnly, ByGrant, IsMutatingTool
  <2>6. IsHandled("fork_repo", Handled(<<"fork_repository">>, "ends"))
    BY HandledByOne DEF ReadOnly, ByGrant, IsMutatingTool
  <2>7. IsHandled("create_branch", Handled(<<"create_branch">>, "ends"))
    BY HandledByOne DEF ReadOnly, ByGrant, IsMutatingTool
  <2>8. IsHandled("push_file_change", Handled(<<"create_or_update_file">>, "ends"))
    BY HandledByOne DEF ReadOnly, ByGrant, IsMutatingTool
  <2> QED
    BY ONLY <2>1, <2>2, <2>3, <2>4, <2>5, <2>6, <2>7, <2>8 DEF RepositoryCalls
<1>2. \A tool \in DOMAIN PolicyCalls : IsHandled(tool, PolicyCalls[tool])
  <2>1. IsHandled("get_stats", Locally)
    BY HandledLocally
  <2>2. IsHandled("list_admission_audit", Locally)
    BY HandledLocally
  <2>3. IsHandled("close_pr", Handled(<<"close_pull_request">>, "told"))
    BY HandledByOne DEF ReadOnly, ByGrant, IsMutatingTool
  <2>4. IsHandled("check_duplicate_pr", Locally)
    BY HandledLocally
  <2>5. IsHandled("check_ai_policy", Handled(<<"get_file_content">>, "ends"))
    BY HandledByOne DEF ReadOnly, ByGrant, IsMutatingTool
  <2> QED
    BY ONLY <2>1, <2>2, <2>3, <2>4, <2>5 DEF PolicyCalls
<1>3. \A tool \in DOMAIN PullRequestCalls : IsHandled(tool, PullRequestCalls[tool])
  <2>1. IsHandled("patrol_prs", Handled(<<"get_pr_comments", "get_pr_review_comments">>, "goes on"))
    BY OperationsOfTools DEF IsHandled, Handled, ReadOnly, ByGrant, IsMutatingTool
  <2>2. IsHandled("cleanup_forks", Handled(<<"list_user_forks", "get_repo_details", "delete_repository">>, "goes on"))
    BY OperationsOfTools DEF IsHandled, Handled, ReadOnly, ByGrant, IsMutatingTool
  <2>3. IsHandled("add_pr_review_comment", Handled(<<"create_pr_comment">>, "ends"))
    BY HandledByOne DEF ReadOnly, ByGrant, IsMutatingTool
  <2>4. DOMAIN PullRequestCalls =
          {"patrol_prs", "cleanup_forks", "add_pr_review_comment"}
    BY DEF PullRequestCalls
  <2>5. PullRequestCalls["patrol_prs"] = Handled(<<"get_pr_comments", "get_pr_review_comments">>, "goes on")
    BY DEF PullRequestCalls
  <2>6. PullRequestCalls["cleanup_forks"] = Handled(<<"list_user_forks", "get_repo_details", "delete_repository">>, "goes on")
    BY DEF PullRequestCalls
  <2>7. PullRequestCalls["add_pr_review_comment"] = Handled(<<"create_pr_comment">>, "ends")
    BY DEF PullRequestCalls
  <2> QED
    BY ONLY <2>1, <2>2, <2>3, <2>4, <2>5, <2>6, <2>7
<1>4. \A tool \in DOMAIN ReviewAndRunCalls : IsHandled(tool, ReviewAndRunCalls[tool])
  <2>1. IsHandled("dismiss_review", Handled(<<"dismiss_review">>, "ends"))
    BY HandledByOne DEF ReadOnly, ByGrant, IsMutatingTool
  <2>2. IsHandled("get_pr_reviews", Handled(<<"get_pr_reviews">>, "ends"))
    BY HandledByOne DEF ReadOnly, ByGrant, IsMutatingTool
  <2>3. IsHandled("get_pr_comments", Handled(<<"get_pr_comments">>, "ends"))
    BY HandledByOne DEF ReadOnly, ByGrant, IsMutatingTool
  <2>4. IsHandled("get_authenticated_user", Handled(<<"get_authenticated_user">>, "ends"))
    BY HandledByOne DEF ReadOnly, ByGrant, IsMutatingTool
  <2>5. IsHandled("list_runs", Locally)
    BY HandledLocally
  <2>6. IsHandled("inspect_run", Locally)
    BY HandledLocally
  <2>7. IsHandled("get_run_evidence", Locally)
    BY HandledLocally
  <2>8. IsHandled("inspect_consent", Handled(<<"get_file_content">>, "goes on"))
    BY HandledByOne DEF ReadOnly, ByGrant, IsMutatingTool
  <2>9. IsHandled("estimate_review_surface", Locally)
    BY HandledLocally
  <2>10. DOMAIN ReviewAndRunCalls =
          {"dismiss_review", "get_pr_reviews", "get_pr_comments", "get_authenticated_user", "list_runs", "inspect_run", "get_run_evidence", "inspect_consent", "estimate_review_surface"}
    BY DEF ReviewAndRunCalls
  <2>11. ReviewAndRunCalls["dismiss_review"] = Handled(<<"dismiss_review">>, "ends")
    BY DEF ReviewAndRunCalls
  <2>12. ReviewAndRunCalls["get_pr_reviews"] = Handled(<<"get_pr_reviews">>, "ends")
    BY DEF ReviewAndRunCalls
  <2>13. ReviewAndRunCalls["get_pr_comments"] = Handled(<<"get_pr_comments">>, "ends")
    BY DEF ReviewAndRunCalls
  <2>14. ReviewAndRunCalls["get_authenticated_user"] = Handled(<<"get_authenticated_user">>, "ends")
    BY DEF ReviewAndRunCalls
  <2>15. ReviewAndRunCalls["list_runs"] = Locally
    BY DEF ReviewAndRunCalls
  <2>16. ReviewAndRunCalls["inspect_run"] = Locally
    BY DEF ReviewAndRunCalls
  <2>17. ReviewAndRunCalls["get_run_evidence"] = Locally
    BY DEF ReviewAndRunCalls
  <2>18. ReviewAndRunCalls["inspect_consent"] = Handled(<<"get_file_content">>, "goes on")
    BY DEF ReviewAndRunCalls
  <2>19. ReviewAndRunCalls["estimate_review_surface"] = Locally
    BY DEF ReviewAndRunCalls
  <2> QED
    BY ONLY <2>1, <2>2, <2>3, <2>4, <2>5, <2>6, <2>7, <2>8, <2>9, <2>10, <2>11, <2>12, <2>13, <2>14, <2>15, <2>16, <2>17, <2>18, <2>19
<1> DEFINE tables == {RepositoryCalls, PolicyCalls, PullRequestCalls, ReviewAndRunCalls}
<1>5. Calls = Joined(tables)
  BY DEF Calls
<1>6. \A t \in tables : \A tool \in DOMAIN t : IsHandled(tool, t[tool])
  BY <1>1, <1>2, <1>3, <1>4
<1>7. UNION {DOMAIN t : t \in tables} = RepositoryTools \cup PullRequestTools \cup ReviewAndRunTools
  <2>1. DOMAIN RepositoryCalls = {"search_repos", "get_repo_info", "get_file_tree", "get_file_content", "get_open_issues", "fork_repo", "create_branch", "push_file_change"}
    BY DEF RepositoryCalls
  <2>2. DOMAIN PolicyCalls = {"get_stats", "list_admission_audit", "close_pr", "check_duplicate_pr", "check_ai_policy"}
    BY DEF PolicyCalls
  <2>3. DOMAIN PullRequestCalls = {"patrol_prs", "cleanup_forks", "add_pr_review_comment"}
    BY DEF PullRequestCalls
  <2>4. DOMAIN ReviewAndRunCalls = {"dismiss_review", "get_pr_reviews", "get_pr_comments", "get_authenticated_user", "list_runs", "inspect_run", "get_run_evidence", "inspect_consent", "estimate_review_surface"}
    BY DEF ReviewAndRunCalls
  <2>5. UNION {DOMAIN t : t \in tables} =
          DOMAIN RepositoryCalls \cup DOMAIN PolicyCalls \cup DOMAIN PullRequestCalls \cup DOMAIN ReviewAndRunCalls
    OBVIOUS
  <2> QED  BY ONLY <2>1, <2>2, <2>3, <2>4, <2>5 DEF RepositoryTools, PullRequestTools, ReviewAndRunTools
<1> HIDE DEF tables
<1> QED  BY <1>5, <1>6, <1>7, JoinedEntries

(***************************************************************************)
(* The session                                                             *)
(***************************************************************************)
Asking == {"initialize", "tools/list", "tools/call"}
LineRecords ==
  [id : Nat, method : Asking \cup {"none", "notifications/initialized"}, tool : Wanted \cup {"none"}]
AnswerRecords == [id : Nat, says : {"none", "done", "failed", "refused"}]
SessionRecords ==
  [grant : BOOLEAN, phase : {"new", "connecting", "ready", "failed"}, toServer : Seq(LineRecords),
   toClient : Seq(AnswerRecords), sent : Nat, waiting : LineRecords, asked : LineRecords,
   answer : AnswerRecords, changed : SUBSET HostEffects, late : BOOLEAN]

Initialized == Line(0, "notifications/initialized", "none")

\* An answer that suits its request.
Suitable(answer, line, grant, changed) ==
  /\ answer.id = line.id
  /\ line.method = "tools/call" => (answer.says = "refused" <=> line.tool \notin ToolDefinitions(grant))
  /\ line.method = "tools/call" /\ answer.says = "done" /\ line.tool # "cleanup_forks" =>
       \A i \in DOMAIN Calls[line.tool].operations : Effects(Calls[line.tool].operations[i]) \subseteq changed

\* Where the one exchange of the session is: with nobody, on the way to the server,
\* behind the notification at most, or on its way back.
Exchange(s) ==
  \/ s.waiting = Nobody /\ s.toClient = <<>> /\ s.toServer \in {<<>>, <<Initialized>>}
  \/ /\ s.waiting.method \in Asking /\ s.toClient = <<>>
     /\ s.toServer \in {<<s.waiting>>, <<Initialized, s.waiting>>}
  \/ /\ s.waiting.method \in Asking /\ s.toServer = <<>>
     /\ \E answer \in AnswerRecords :
          s.toClient = <<answer>> /\ Suitable(answer, s.waiting, s.grant, s.changed)

ToolsInv ==
  /\ session \in SessionRecords
  /\ session.changed # {} => session.grant
  /\ ~session.late => Exchange(session) /\ Suitable(session.answer, session.asked, session.grant, session.changed)

\* What a tool answers, and what is then changed at the host.
LEMMA OutcomesOfTools ==
  ASSUME ToolsInv, NEW tool, NEW outcome \in HandleToolCall(tool)
  PROVE  /\ outcome.says \in {"done", "failed", "refused"}
         /\ outcome.changes \subseteq HostEffects
         /\ outcome.changes # {} => session.grant
         /\ outcome.says = "refused" <=> tool \notin ToolDefinitions(session.grant)
         /\ outcome.says = "done" /\ tool # "cleanup_forks" =>
              \A i \in DOMAIN Calls[tool].operations : Effects(Calls[tool].operations[i]) \subseteq outcome.changes
<1> DEFINE refused == tool \in NonDelegableTools \/ (IsMutatingTool(tool) /\ ~session.grant) \/ tool \notin DOMAIN Calls
           handled == Calls[tool]
           all == UNION {Effects(handled.operations[i]) : i \in DOMAIN handled.operations}
<1>1. refused <=> tool \notin ToolDefinitions(session.grant)
  BY TheTools DEF ToolDefinitions
<1>2. CASE refused
  <2>1. outcome = [says |-> "refused", changes |-> {}]
    BY <1>2 DEF HandleToolCall
  <2> QED  BY <1>1, <1>2, <2>1
<1>3. CASE ~refused
  <2>1. IsHandled(tool, handled)
    BY <1>3, TheTools
  <2> HIDE DEF handled
  <2>2. all \subseteq HostEffects
    BY <2>1, OperationsOfTools DEF IsHandled
  <2>3. ~IsMutatingTool(tool) \/ (handled.error = "goes on" /\ tool # "cleanup_forks") => all = {}
    BY <2>1, OperationsOfTools DEF IsHandled
  <2>4. \/ \E c \in IF handled.error = "goes on" THEN SUBSET all ELSE {all} : outcome = [says |-> "done", changes |-> c]
        \/ \E c \in SUBSET all : outcome = [says |-> "failed", changes |-> c]
    BY <1>3 DEF HandleToolCall, handled
  <2>5. \A i \in DOMAIN handled.operations : Effects(handled.operations[i]) \subseteq all
    OBVIOUS
  <2>6. IsMutatingTool(tool) => session.grant
    BY <1>3 DEF ToolsInv
  <2> HIDE DEF all
  <2>7. /\ outcome.says \in {"done", "failed"} /\ outcome.changes \subseteq all
        /\ outcome.says = "done" /\ handled.error # "goes on" => outcome.changes = all
    <3>1. CASE \E c \in IF handled.error = "goes on" THEN SUBSET all ELSE {all} : outcome = [says |-> "done", changes |-> c]
      <4>1. PICK c \in IF handled.error = "goes on" THEN SUBSET all ELSE {all} : outcome = [says |-> "done", changes |-> c]
        BY <3>1
      <4>2. outcome.says = "done" /\ outcome.changes = c
        BY <4>1
      <4>3. c \subseteq all /\ (handled.error # "goes on" => c = all)
        OBVIOUS
      <4> QED  BY <4>2, <4>3
    <3>2. CASE \E c \in SUBSET all : outcome = [says |-> "failed", changes |-> c]
      <4>1. PICK c \in SUBSET all : outcome = [says |-> "failed", changes |-> c]
        BY <3>2
      <4>2. outcome.says = "failed" /\ outcome.changes = c
        BY <4>1
      <4> QED  BY <4>2
    <3> QED  BY <2>4, <3>1, <3>2
  <2>8. outcome.says = "done" /\ tool # "cleanup_forks" => outcome.changes = all
    <3>1. ASSUME outcome.says = "done", tool # "cleanup_forks" PROVE outcome.changes = all
      <4>1. CASE handled.error = "goes on"
        BY <2>3, <2>7, <3>1, <4>1
      <4>2. CASE handled.error # "goes on"
        BY <2>7, <3>1, <4>2
      <4> QED  BY <4>1, <4>2
    <3> QED  BY <3>1
  <2>9. all # {} => session.grant
    BY <2>3, <2>6
  <2>10. \A i \in DOMAIN Calls[tool].operations : Effects(Calls[tool].operations[i]) \subseteq all
    BY <2>5 DEF handled
  <2>11. outcome.says # "refused" /\ tool \in ToolDefinitions(session.grant)
    BY <1>1, <1>3, <2>7
  <2> QED  BY <2>2, <2>7, <2>8, <2>9, <2>10, <2>11
<1> QED  BY <1>2, <1>3

\* What was changed stays changed.
LEMMA StillSuits ==
  ASSUME NEW answer, NEW line, NEW grant, NEW changed, NEW more, changed \subseteq more,
         Suitable(answer, line, grant, changed)
  PROVE  Suitable(answer, line, grant, more)
BY DEF Suitable

\* The first line of a pipe, and the rest.
LEMMA PipesOfLines ==
  ASSUME NEW s \in Seq(LineRecords), s # <<>>
  PROVE  Head(s) \in LineRecords /\ Tail(s) \in Seq(LineRecords)
BY HeadTailProperties

\* Pipes of one line or two.
LEMMA ShortPipes ==
  ASSUME NEW a, NEW b
  PROVE  /\ Head(<<a>>) = a /\ Tail(<<a>>) = <<>>
         /\ Head(<<a, b>>) = a /\ Tail(<<a, b>>) = <<b>>
         /\ <<a>> # <<>> /\ <<a, b>> # <<>>
         /\ Append(<<>>, a) = <<a>> /\ Append(<<a>>, b) = <<a, b>>
<1>1. Head(<<a>>) = a /\ Head(<<a, b>>) = a /\ <<a>> # <<>> /\ <<a, b>> # <<>>
  OBVIOUS
<1>2. Tail(<<a>>) = <<>>
  OBVIOUS
<1>3. Tail(<<a, b>>) = <<b>>
  OBVIOUS
<1>4. Append(<<>>, a) = <<a>>
  <2> DEFINE t == Append(<<>>, a)
  <2>1. <<>> \in Seq({a}) /\ Len(<<>>) = 0 /\ <<a>> \in Seq({a}) /\ Len(<<a>>) = 1 /\ <<a>>[1] = a
    OBVIOUS
  <2>2. t \in Seq({a}) /\ Len(t) = 1 /\ t[1] = a
    BY <2>1, AppendProperties
  <2> HIDE DEF t
  <2>3. t = <<a>>
    BY <2>1, <2>2, SeqEqual
  <2> QED  BY <2>3 DEF t
<1>5. Append(<<a>>, b) = <<a, b>>
  <2> DEFINE t == Append(<<a>>, b)
  <2>1. <<a>> \in Seq({a, b}) /\ Len(<<a>>) = 1 /\ <<a>>[1] = a
    OBVIOUS
  <2>2. <<a, b>> \in Seq({a, b}) /\ Len(<<a, b>>) = 2 /\ <<a, b>>[1] = a /\ <<a, b>>[2] = b
    OBVIOUS
  <2>3. t \in Seq({a, b}) /\ Len(t) = 2 /\ t[1] = a /\ t[2] = b
    BY <2>1, AppendProperties
  <2> HIDE DEF t
  <2>4. t = <<a, b>>
    BY <2>2, <2>3, SeqEqual
  <2> QED  BY <2>4 DEF t
<1> QED  BY <1>1, <1>2, <1>3, <1>4, <1>5

\* A request is sent when nobody waits: it is the last line of the pipe.
LEMMA FreshRequest ==
  ASSUME ToolsInv, NEW phase \in {"connecting", "ready"}, NEW method \in Asking, NEW tool \in Wanted \cup {"none"},
         Send(phase, method, tool)
  PROVE  ToolsInv'
<1> DEFINE line == Line(session.sent + 1, method, tool)
<1>1. /\ session \in SessionRecords /\ session.waiting = Nobody
      /\ session' = [session EXCEPT !.phase = phase, !.sent = @ + 1, !.waiting = line, !.toServer = Append(@, line)]
  BY DEF ToolsInv, Send
<1>2. line \in LineRecords /\ line.method \in Asking /\ session.sent + 1 \in Nat
  BY <1>1 DEF Line, LineRecords, SessionRecords
<1> DEFINE sent == session.sent + 1
<1> HIDE DEF line, sent
<1>3. Append(session.toServer, line) \in Seq(LineRecords)
  BY <1>1, <1>2, AppendProperties DEF SessionRecords
<1>4. /\ session' \in SessionRecords
      /\ session'.grant = session.grant /\ session'.changed = session.changed /\ session'.late = session.late
      /\ session'.asked = session.asked /\ session'.answer = session.answer
      /\ session'.waiting = line /\ session'.toServer = Append(session.toServer, line)
      /\ session'.toClient = session.toClient
  <2>1. session' = [session EXCEPT !.phase = phase, !.sent = sent, !.waiting = line,
                                   !.toServer = Append(session.toServer, line)]
    BY <1>1 DEF sent
  <2>2. sent \in Nat
    BY <1>2 DEF sent
  <2> QED  BY <1>1, <1>2, <1>3, <2>1, <2>2 DEF SessionRecords
<1>5. ASSUME ~session.late PROVE Exchange(session')
  <2>1. session.toClient = <<>> /\ session.toServer \in {<<>>, <<Initialized>>}
    BY <1>1, <1>5 DEF ToolsInv, Exchange, Nobody, Line, Asking
  <2>2. session'.toServer \in {<<line>>, <<Initialized, line>>}
    <3>1. Append(<<>>, line) = <<line>> /\ Append(<<Initialized>>, line) = <<Initialized, line>>
      BY ShortPipes
    <3>2. session'.toServer = Append(session.toServer, line)
      BY <1>4
    <3> QED  BY ONLY <2>1, <3>1, <3>2
  <2> QED  BY <1>2, <1>4, <2>1, <2>2 DEF Exchange
<1> QED  BY <1>4, <1>5 DEF ToolsInv

\* The server takes a line: the notification of the client, or the one request.
LEMMA ServedLine ==
  ASSUME ToolsInv, Serve
  PROVE  ToolsInv'
<1> DEFINE line == Head(session.toServer)
<1>1. /\ session \in SessionRecords /\ session.toServer # <<>>
      /\ line \in LineRecords /\ Tail(session.toServer) \in Seq(LineRecords)
  BY PipesOfLines DEF ToolsInv, Serve, SessionRecords
<1>2. ASSUME ~session.late
      PROVE  \/ /\ session.waiting.method \in Asking /\ session.toClient = <<>>
                /\ session.toServer = <<session.waiting>> /\ line = session.waiting
                /\ Tail(session.toServer) = <<>>
             \/ /\ session.waiting.method \in Asking /\ session.toClient = <<>>
                /\ session.toServer = <<Initialized, session.waiting>> /\ line = Initialized
                /\ Tail(session.toServer) = <<session.waiting>>
             \/ /\ session.waiting = Nobody /\ session.toClient = <<>>
                /\ line = Initialized /\ Tail(session.toServer) = <<>>
  <2>1. Exchange(session) /\ session.toServer # <<>>
    BY <1>1, <1>2 DEF ToolsInv
  <2>2. CASE session.waiting = Nobody /\ session.toClient = <<>> /\ session.toServer \in {<<>>, <<Initialized>>}
    BY <2>1, <2>2, ShortPipes
  <2>3. CASE /\ session.waiting.method \in Asking /\ session.toClient = <<>>
             /\ session.toServer \in {<<session.waiting>>, <<Initialized, session.waiting>>}
    <3>1. CASE session.toServer = <<session.waiting>>
      <4>1. Head(<<session.waiting>>) = session.waiting /\ Tail(<<session.waiting>>) = <<>>
        BY ShortPipes
      <4>2. line = session.waiting /\ Tail(session.toServer) = <<>>
        BY ONLY <3>1, <4>1 DEF line
      <4> QED  BY <2>3, <3>1, <4>2
    <3>2. CASE session.toServer = <<Initialized, session.waiting>>
      <4>1. /\ Head(<<Initialized, session.waiting>>) = Initialized
            /\ Tail(<<Initialized, session.waiting>>) = <<session.waiting>>
        BY ShortPipes
      <4>2. line = Initialized /\ Tail(session.toServer) = <<session.waiting>>
        BY ONLY <3>2, <4>1 DEF line
      <4> QED  BY <2>3, <3>2, <4>2
    <3> QED  BY <2>3, <3>1, <3>2
  <2> QED  BY <2>1, <2>2, <2>3 DEF Exchange
<1> HIDE DEF line
<1>3. CASE ~IsAnswered(line.method)
  <2>1. session' = [session EXCEPT !.toServer = Tail(@)]
    BY <1>3 DEF Serve, line
  <2>2. /\ session' \in SessionRecords
        /\ session'.grant = session.grant /\ session'.changed = session.changed /\ session'.late = session.late
        /\ session'.asked = session.asked /\ session'.answer = session.answer /\ session'.waiting = session.waiting
        /\ session'.toServer = Tail(session.toServer) /\ session'.toClient = session.toClient
    BY <1>1, <2>1 DEF SessionRecords
  <2>3. ASSUME ~session.late PROVE Exchange(session')
    BY <1>2, <1>3, <2>2, <2>3 DEF Exchange, IsAnswered, Asking
  <2> QED  BY <2>2, <2>3 DEF ToolsInv
<1>4. CASE IsAnswered(line.method)
  <2>1. PICK outcome \in IF line.method = "tools/call" THEN HandleToolCall(line.tool)
                         ELSE {[says |-> IF line.method \in {"initialize", "tools/list"} THEN "done" ELSE "refused",
                                changes |-> {}]} :
          session' = [session EXCEPT !.toServer = Tail(@),
                                     !.toClient = Append(@, Answer(line.id, outcome.says)),
                                     !.changed = @ \cup outcome.changes]
    BY <1>4 DEF Serve, line
  <2>2. /\ outcome.says \in {"done", "failed", "refused"}
        /\ outcome.changes \subseteq HostEffects
        /\ outcome.changes # {} => session.grant
        /\ line.method = "tools/call" => (outcome.says = "refused" <=> line.tool \notin ToolDefinitions(session.grant))
        /\ line.method = "tools/call" /\ outcome.says = "done" /\ line.tool # "cleanup_forks" =>
              \A i \in DOMAIN Calls[line.tool].operations :
                Effects(Calls[line.tool].operations[i]) \subseteq outcome.changes
    <3>1. CASE line.method = "tools/call"
      BY <2>1, <3>1, OutcomesOfTools
    <3>2. CASE line.method # "tools/call"
      BY <2>1, <3>2
    <3> QED  BY <3>1, <3>2
  <2> DEFINE answer == Answer(line.id, outcome.says)
             changed == session.changed \cup outcome.changes
  <2>3. answer \in AnswerRecords /\ answer.id = line.id /\ answer.says = outcome.says
    BY <1>1, <2>2 DEF Answer, AnswerRecords, LineRecords
  <2>4. Suitable(answer, line, session.grant, changed)
    BY <2>2, <2>3 DEF Suitable
  <2> HIDE DEF answer
  <2>5. Append(session.toClient, answer) \in Seq(AnswerRecords)
    BY <1>1, <2>3, AppendProperties DEF SessionRecords
  <2>6. session' = [session EXCEPT !.toServer = Tail(@), !.toClient = Append(@, answer), !.changed = changed]
    BY <2>1 DEF answer
  <2>7. /\ session' \in SessionRecords
        /\ session'.grant = session.grant /\ session'.changed = changed /\ session'.late = session.late
        /\ session'.asked = session.asked /\ session'.answer = session.answer /\ session'.waiting = session.waiting
        /\ session'.toServer = Tail(session.toServer) /\ session'.toClient = Append(session.toClient, answer)
    BY <1>1, <2>2, <2>5, <2>6 DEF SessionRecords
  <2>8. ASSUME ~session.late PROVE Exchange(session')
    <3>1. line # Initialized
      BY <1>4 DEF IsAnswered, Initialized, Line
    <3>2. session.toClient = <<>> /\ session.waiting.method \in Asking /\ line = session.waiting
          /\ Tail(session.toServer) = <<>>
      BY <1>2, <2>8, <3>1
    <3>3. session'.toClient = <<answer>>
      BY <2>7, <3>2, ShortPipes
    <3> QED  BY <2>3, <2>4, <2>7, <3>2, <3>3 DEF Exchange
  <2>9. ASSUME ~session.late PROVE Suitable(session'.answer, session'.asked, session'.grant, session'.changed)
    BY <2>7, <2>9, StillSuits DEF ToolsInv
  <2>10. session'.changed # {} => session'.grant
    BY <2>2, <2>7 DEF ToolsInv
  <2> QED  BY <2>7, <2>8, <2>9, <2>10 DEF ToolsInv
<1> QED  BY <1>3, <1>4

\* The client that never gave up takes the one answer there is.
LEMMA ReceivedAnswer ==
  ASSUME ToolsInv, Receive
  PROVE  ToolsInv'
<1> DEFINE toServer == IF session.phase = "connecting" THEN Append(session.toServer, Initialized) ELSE session.toServer
           answer == Head(session.toClient)
<1>1. /\ session \in SessionRecords /\ session.waiting # Nobody /\ session.toClient # <<>>
      /\ session' = [session EXCEPT
           !.phase = "ready", !.toClient = <<>>, !.waiting = Nobody,
           !.asked = session.waiting, !.answer = answer, !.toServer = toServer]
  BY DEF ToolsInv, Receive, Initialized
<1>2. Initialized \in LineRecords /\ Nobody \in LineRecords
  BY DEF Initialized, Nobody, Line, LineRecords
<1>3. toServer \in Seq(LineRecords)
  BY <1>1, <1>2, AppendProperties DEF SessionRecords
<1>4. answer \in AnswerRecords
  BY <1>1, HeadTailProperties DEF SessionRecords
<1> HIDE DEF toServer, answer
<1>5. /\ session' \in SessionRecords
      /\ session'.grant = session.grant /\ session'.changed = session.changed /\ session'.late = session.late
      /\ session'.asked = session.waiting /\ session'.answer = answer /\ session'.waiting = Nobody
      /\ session'.toServer = toServer /\ session'.toClient = <<>>
  <2>1. <<>> \in Seq(AnswerRecords)
    OBVIOUS
  <2> QED  BY <1>1, <1>2, <1>3, <1>4, <2>1 DEF SessionRecords
<1>6. ASSUME ~session.late
      PROVE  Exchange(session') /\ Suitable(session'.answer, session'.asked, session'.grant, session'.changed)
  <2>1. /\ session.toServer = <<>>
        /\ \E a \in AnswerRecords :
             session.toClient = <<a>> /\ Suitable(a, session.waiting, session.grant, session.changed)
    BY <1>1, <1>6 DEF ToolsInv, Exchange
  <2>2. Suitable(answer, session.waiting, session.grant, session.changed)
    BY <2>1, ShortPipes DEF answer
  <2>3. toServer \in {<<>>, <<Initialized>>}
    BY <2>1, ShortPipes DEF toServer
  <2> QED  BY <1>5, <2>2, <2>3 DEF Exchange
<1> QED  BY <1>5, <1>6 DEF ToolsInv

\* Until the client gives up there is at most one exchange, and its answer suits it.
LEMMA ToolsInvHolds == ToolsSpec => []ToolsInv
<1>1. ToolsInit => ToolsInv
  <2> SUFFICES ASSUME NEW grant \in BOOLEAN, SessionAt(grant, "new")
               PROVE  ToolsInv
    BY DEF ToolsInit
  <2>1. Nobody \in LineRecords /\ Nobody.id = 0 /\ Nobody.method = "none"
    BY DEF Nobody, Line, LineRecords
  <2>2. Answer(0, "none") \in AnswerRecords /\ Answer(0, "none").id = 0
    BY DEF Answer, AnswerRecords
  <2>3. <<>> \in Seq(LineRecords) /\ <<>> \in Seq(AnswerRecords)
    OBVIOUS
  <2>4. /\ session \in SessionRecords /\ session.changed = {} /\ session.waiting = Nobody
        /\ session.toServer = <<>> /\ session.toClient = <<>>
        /\ session.asked = Nobody /\ session.answer = Answer(0, "none")
    BY <2>1, <2>2, <2>3 DEF SessionAt, SessionRecords
  <2> QED  BY <2>1, <2>2, <2>4 DEF ToolsInv, Exchange, Suitable
<1>2. ToolsInv /\ [ToolsNext]_toolsVars => ToolsInv'
  <2> SUFFICES ASSUME ToolsInv, [ToolsNext]_toolsVars
               PROVE  ToolsInv'
    OBVIOUS
  <2>1. CASE Serve
    BY <2>1, ServedLine
  <2>2. CASE Connect
    BY <2>2, FreshRequest DEF Connect, Asking
  <2>3. CASE ListTools
    BY <2>3, FreshRequest DEF ListTools, Asking
  <2>4. ASSUME NEW tool \in Wanted, CallTool(tool) PROVE ToolsInv'
    BY <2>4, FreshRequest DEF CallTool, Asking
  <2>5. CASE Receive
    BY <2>5, ReceivedAnswer
  <2>6. CASE GiveUp
    <3> DEFINE phase == IF session.phase = "connecting" THEN "failed" ELSE session.phase
    <3>1. session \in SessionRecords
          /\ session' = [session EXCEPT !.waiting = Nobody, !.late = TRUE, !.phase = phase]
      BY <2>6 DEF GiveUp, ToolsInv
    <3>2. Nobody \in LineRecords
      BY DEF Nobody, Line, LineRecords
    <3>3. phase \in {"new", "connecting", "ready", "failed"}
      BY <3>1 DEF SessionRecords
    <3> HIDE DEF phase
    <3>4. session' \in SessionRecords /\ session'.late /\ session'.grant = session.grant
          /\ session'.changed = session.changed
      BY <3>1, <3>2, <3>3 DEF SessionRecords
    <3> QED  BY <3>4 DEF ToolsInv
  <2>7. CASE UNCHANGED toolsVars
    BY <2>7 DEF toolsVars, ToolsInv
  <2> QED  BY <2>1, <2>2, <2>3, <2>4, <2>5, <2>6, <2>7 DEF ToolsNext
<1> QED  BY <1>1, <1>2, PTL DEF ToolsSpec

\* A client of the MCP server that never gave up is answered what it asked for, is refused
\* a tool if and only if the list it is shown lacks it, finds done what it is told was
\* done (but by a cleanup), and changes nothing without a grant: for any tools and any
\* number of requests (send_request of mcp/client.rs, handle_tool_call of mcp/server.rs).
THEOREM ClientsAreAnswered == ToolsSpec => []AnswersAreToTheirRequests
<1>1. ToolsInv => AnswersAreToTheirRequests
  BY DEF ToolsInv, Suitable, AnswersAreToTheirRequests
<1> QED  BY <1>1, ToolsInvHolds, PTL

(***************************************************************************)
(* The snapshot of a run (Snapshot): what was fetched of the base tree.     *)
(***************************************************************************)
\* The names by which the ecosystems are told.
EcosystemFiles ==
  {"Cargo.toml", "package.json", "pnpm-lock.yaml", "yarn.lock", "bun.lockb", "bun.lock", "pyproject.toml",
   "setup.py", "requirements.txt", "go.mod", "pom.xml", "build.gradle", "build.gradle.kts"}

LEMMA SameEcosystems ==
  ASSUME NEW some, NEW all, \A n \in EcosystemFiles : n \in some <=> n \in all,
         "settings.gradle" \notin some, "settings.gradle" \notin all
  PROVE  Ecosystems(some) = Ecosystems(all)
<1>1. ASSUME NEW names, names \subseteq EcosystemFiles \cup {"settings.gradle"}
      PROVE  (names \cap some # {}) <=> (names \cap all # {})
  BY <1>1
<1>2. PackageManager(some) = PackageManager(all)
  <2>1. ({"bun.lockb", "bun.lock"} \cap some # {}) <=> ({"bun.lockb", "bun.lock"} \cap all # {})
    BY <1>1 DEF EcosystemFiles
  <2>2. ({"pnpm-lock.yaml", "yarn.lock"} \cap some # {}) <=> ({"pnpm-lock.yaml", "yarn.lock"} \cap all # {})
    BY <1>1 DEF EcosystemFiles
  <2>3. /\ "pnpm-lock.yaml" \in some <=> "pnpm-lock.yaml" \in all
        /\ "yarn.lock" \in some <=> "yarn.lock" \in all
    BY DEF EcosystemFiles
  <2> QED  BY <2>1, <2>2, <2>3 DEF PackageManager
<1> DEFINE When(has, names, eco) == IF names \cap has # {} THEN <<eco>> ELSE <<>>
<1>3. /\ When(some, {"Cargo.toml"}, "cargo") = When(all, {"Cargo.toml"}, "cargo")
      /\ When(some, {"pyproject.toml", "setup.py", "requirements.txt"}, "python")
           = When(all, {"pyproject.toml", "setup.py", "requirements.txt"}, "python")
      /\ When(some, {"go.mod"}, "go") = When(all, {"go.mod"}, "go")
      /\ When(some, {"pom.xml"}, "maven") = When(all, {"pom.xml"}, "maven")
      /\ When(some, {"build.gradle", "build.gradle.kts", "settings.gradle"}, "gradle")
           = When(all, {"build.gradle", "build.gradle.kts", "settings.gradle"}, "gradle")
  <2>1. /\ ({"Cargo.toml"} \cap some # {}) <=> ({"Cargo.toml"} \cap all # {})
        /\ ({"pyproject.toml", "setup.py", "requirements.txt"} \cap some # {})
             <=> ({"pyproject.toml", "setup.py", "requirements.txt"} \cap all # {})
        /\ ({"go.mod"} \cap some # {}) <=> ({"go.mod"} \cap all # {})
        /\ ({"pom.xml"} \cap some # {}) <=> ({"pom.xml"} \cap all # {})
        /\ ({"build.gradle", "build.gradle.kts", "settings.gradle"} \cap some # {})
             <=> ({"build.gradle", "build.gradle.kts", "settings.gradle"} \cap all # {})
    BY <1>1 DEF EcosystemFiles
  <2> QED  BY <2>1
<1>4. When(some, {"package.json"}, PackageManager(some)) = When(all, {"package.json"}, PackageManager(all))
  <2>1. ({"package.json"} \cap some # {}) <=> ({"package.json"} \cap all # {})
    BY <1>1 DEF EcosystemFiles
  <2> QED  BY <1>2, <2>1
<1>5. \A has : Ecosystems(has) = When(has, {"Cargo.toml"}, "cargo")
                                   \o When(has, {"package.json"}, PackageManager(has))
                                   \o When(has, {"pyproject.toml", "setup.py", "requirements.txt"}, "python")
                                   \o When(has, {"go.mod"}, "go") \o When(has, {"pom.xml"}, "maven")
                                   \o When(has, {"build.gradle", "build.gradle.kts", "settings.gradle"}, "gradle")
  BY DEF Ecosystems
<1> HIDE DEF When
<1> QED  BY <1>3, <1>4, <1>5

TreeInv == \E tree \in Attested, permit \in Permits : attested = [tree |-> tree, permit |-> permit]

\* Every file that was listed and looked at is there or was skipped.
FetchInv ==
  /\ fetched = [files |-> fetched.files, skipped |-> fetched.skipped, truncated |-> fetched.truncated,
                next |-> fetched.next, listed |-> fetched.listed]
  /\ IsFiniteSet(fetched.files) /\ fetched.files \subseteq TreePaths
  /\ fetched.next \in Nat \ {0} /\ fetched.listed \in 0..Len(Nodes)
  /\ step # "list" => (fetched.truncated <=> fetched.listed < Len(Nodes))
  /\ \A i \in Blobs : i < fetched.next =>
       Nodes[i].path \in fetched.files \/ \E s \in fetched.skipped : s.path = Nodes[i].path
  /\ HasWorkspace => fetched.next > fetched.listed /\ MaterializationGaps(fetched, attested.permit) = {}
  /\ step = "list" => fetched = Nothing

LEMMA NodesAreAList ==
  ASSUME TreeInv
  PROVE  Len(Nodes) \in Nat /\ DOMAIN Nodes = 1..Len(Nodes) /\ \A i \in Blobs : Nodes[i].text # Missing
<1>1. PICK tree \in Attested : Nodes = tree
  BY DEF TreeInv, Nodes
<1>2. \E S : tree \in Seq(S)
  BY SnapshotAssumption
<1> QED  BY <1>1, <1>2, SnapshotAssumption, LenProperties DEF Blobs

\* With a snapshot that has no gap every file is there that may matter.
LEMMA WhatMattersIsThere ==
  ASSUME TreeInv, FetchInv, HasWorkspace, NEW p \in TreePaths,
         \/ p \in attested.permit.paths
         \/ IsTestPath(p) /\ attested.permit.tests
         \/ IsDependencyManifest(p) \/ IsLockfile(p)
  PROVE  p \in fetched.files
<1>1. PICK i \in Blobs : Nodes[i].path = p
  BY DEF TreePaths
<1>2. MaterializationGaps(fetched, attested.permit) = {}
  BY DEF FetchInv
<1>3. ~fetched.truncated
  BY <1>2 DEF MaterializationGaps
<1>4. i < fetched.next
  BY <1>3, NodesAreAList DEF FetchInv, HasWorkspace, Blobs
<1>5. ASSUME NEW s \in fetched.skipped, s.path = p PROVE FALSE
  BY <1>2, <1>5 DEF MaterializationGaps
<1> QED  BY <1>1, <1>4, <1>5 DEF FetchInv

LEMMA ChecksAreOfTheTree ==
  ASSUME TreeInv, FetchInv
  PROVE  ChecksAreTheProjects
<1> SUFFICES ASSUME HasWorkspace
             PROVE  /\ Ecosystems(fetched.files \ {"settings.gradle"}) = Ecosystems(TreePaths \ {"settings.gradle"})
                    /\ \A p \in TreePaths : (p \in attested.permit.paths \/ (IsTestPath(p) /\ attested.permit.tests)) =>
                         p \in fetched.files
  BY DEF ChecksAreTheProjects
<1>1. \A n \in EcosystemFiles : IsDependencyManifest(n) \/ IsLockfile(n)
  BY DEF EcosystemFiles, IsDependencyManifest, IsLockfile
<1>2. \A n \in EcosystemFiles : n # "settings.gradle"
  BY DEF EcosystemFiles
<1>3. \A n \in EcosystemFiles : n \in fetched.files \ {"settings.gradle"} <=> n \in TreePaths \ {"settings.gradle"}
  BY <1>1, <1>2, WhatMattersIsThere DEF FetchInv
<1>4. Ecosystems(fetched.files \ {"settings.gradle"}) = Ecosystems(TreePaths \ {"settings.gradle"})
  BY <1>3, SameEcosystems
<1> QED  BY <1>4, WhatMattersIsThere

LEMMA FetchInvStarts ==
  ASSUME SnapshotInit
  PROVE  TreeInv /\ FetchInv
<1>1. PICK tree \in Attested, permit \in Permits : SnapshotAt(tree, permit)
  BY DEF SnapshotInit
<1>2. TreeInv
  BY <1>1 DEF TreeInv, SnapshotAt
<1>3. /\ fetched = Nothing /\ step = "list"
      /\ Len(Nodes) \in Nat
  BY <1>1, <1>2, NodesAreAList DEF SnapshotAt
<1>4. IsFiniteSet({})
  BY FS_EmptySet
<1> QED  BY <1>2, <1>3, <1>4 DEF FetchInv, Nothing, HasWorkspace, Blobs

\* What an unchanged snapshot goes on to hold.
LEMMA FetchInvStays ==
  ASSUME FetchInv, attested' = attested, fetched' = fetched, HasWorkspace, step' # "list"
  PROVE  FetchInv'
BY DEF FetchInv, HasWorkspace, MaterializationGaps, Nodes, Blobs, TreePaths

\* A record of what was fetched, with one field changed.
LEMMA FetchedExcept ==
  ASSUME NEW f, f = [files |-> f.files, skipped |-> f.skipped, truncated |-> f.truncated,
                     next |-> f.next, listed |-> f.listed], NEW v
  PROVE  /\ [f EXCEPT !.files = @ \cup {v}]
              = [files |-> f.files \cup {v}, skipped |-> f.skipped, truncated |-> f.truncated,
                 next |-> f.next, listed |-> f.listed]
         /\ [f EXCEPT !.skipped = @ \cup {v}]
              = [files |-> f.files, skipped |-> f.skipped \cup {v}, truncated |-> f.truncated,
                 next |-> f.next, listed |-> f.listed]
<1> DEFINE R == [files : {f.files, f.files \cup {v}}, skipped : {f.skipped, f.skipped \cup {v}},
                 truncated : {f.truncated}, next : {f.next}, listed : {f.listed}]
<1>1. f \in R
  OBVIOUS
<1>2. [f EXCEPT !.files = @ \cup {v}] \in R /\ [f EXCEPT !.skipped = @ \cup {v}] \in R
  BY <1>1
<1> QED  BY <1>1, <1>2

LEMMA ListedExcept ==
  ASSUME NEW n, NEW cut
  PROVE  [Nothing EXCEPT !.listed = n, !.truncated = cut]
           = [files |-> {}, skipped |-> {}, truncated |-> cut, next |-> 1, listed |-> n]
<1> DEFINE R == [files : {{}}, skipped : {{}}, truncated : {FALSE, cut}, next : {1}, listed : {0, n}]
           some == [Nothing EXCEPT !.listed = n]
<1>1. Nothing \in R
  BY DEF Nothing
<1>2. some \in R /\ some.listed = n
  BY <1>1
<1>3. [Nothing EXCEPT !.listed = n, !.truncated = cut] = [some EXCEPT !.truncated = cut]
  OBVIOUS
<1> HIDE DEF some
<1>4. [some EXCEPT !.truncated = cut] \in R
  BY <1>2
<1>5. [some EXCEPT !.truncated = cut].listed = n /\ [some EXCEPT !.truncated = cut].truncated = cut
  BY <1>2
<1> QED  BY <1>3, <1>4, <1>5

LEMMA FetchInvNext ==
  ASSUME TreeInv, FetchInv, [SnapshotNext]_snapshotVars
  PROVE  TreeInv' /\ FetchInv'
<1>1. attested' = attested
  BY DEF SnapshotNext, snapshotVars, FetchListing, FetchNext, Materialize, Solve, Judge, Revise, HumanReview, Propose
<1>2. TreeInv'
  BY <1>1 DEF TreeInv
<1>3. Nodes' = Nodes /\ Blobs' = Blobs /\ TreePaths' = TreePaths
  BY <1>1 DEF Nodes, Blobs, TreePaths
<1>4. CASE FetchListing
  <2>1. PICK n \in 0..Len(Nodes) : fetched' = [Nothing EXCEPT !.listed = n, !.truncated = (n < Len(Nodes))]
    BY <1>4 DEF FetchListing
  <2>2. PICK cut \in BOOLEAN :
          /\ cut <=> n < Len(Nodes)
          /\ fetched' = [files |-> {}, skipped |-> {}, truncated |-> cut, next |-> 1, listed |-> n]
    <3>1. (n < Len(Nodes)) \in BOOLEAN /\ ((n < Len(Nodes)) <=> n < Len(Nodes))
      OBVIOUS
    <3> QED  BY ONLY <2>1, <3>1, ListedExcept, Zenon
  <2>3. step' = "fetch"
    BY <1>4 DEF FetchListing
  <2>4. IsFiniteSet({})
    BY FS_EmptySet
  <2>5. Len(Nodes) \in Nat
    BY NodesAreAList
  <2>6. \A i \in Blobs : ~(i < 1)
    BY NodesAreAList DEF Blobs
  <2>7. ~HasWorkspace'
    BY <2>3 DEF HasWorkspace
  <2> QED  BY ONLY <1>2, <1>3, <2>2, <2>3, <2>4, <2>5, <2>6, <2>7, n \in 0..Len(Nodes) DEF FetchInv
<1>5. CASE FetchNext
  <2> DEFINE node == Nodes[fetched.next]
  <2>1. PICK got \in Fetch(node) : fetched' = [got EXCEPT !.next = @ + 1]
    BY <1>5 DEF FetchNext
  <2>2. /\ step = "fetch" /\ step' = "fetch" /\ fetched.next <= fetched.listed
        /\ fetched.next \in DOMAIN Nodes
    BY <1>5, NodesAreAList DEF FetchNext, FetchInv
  <2> DEFINE Got(read, skipped) ==
        [files |-> read, skipped |-> skipped, truncated |-> fetched.truncated,
         next |-> fetched.next, listed |-> fetched.listed]
  <2>3. \E read, skipped :
          /\ got = Got(read, skipped)
          /\ read \in {fetched.files, fetched.files \cup {node.path}}
          /\ fetched.skipped \subseteq skipped
          /\ node.type # "blob" => read = fetched.files
          /\ node.type = "blob" => node.path \in read \/ \E s \in skipped : s.path = node.path
    <3>0. fetched = [files |-> fetched.files, skipped |-> fetched.skipped, truncated |-> fetched.truncated,
                     next |-> fetched.next, listed |-> fetched.listed]
      BY DEF FetchInv
    <3>1. \A reason : Skipped(node.path, reason) =
                        Got(fetched.files, fetched.skipped \cup {[path |-> node.path, reason |-> reason]})
      BY ONLY <3>0, FetchedExcept DEF Skipped
    <3>2. [fetched EXCEPT !.files = @ \cup {node.path}] = Got(fetched.files \cup {node.path}, fetched.skipped)
      BY ONLY <3>0, FetchedExcept
    <3>3. fetched = Got(fetched.files, fetched.skipped)
      BY DEF FetchInv
    <3>4. Cardinality(fetched.files) \in Nat /\ FileLimit \in Nat
      BY FS_CardinalityType, SnapshotAssumption DEF FetchInv
    <3>5. \/ node.type # "blob" /\ got = fetched
          \/ node.type = "blob" /\ \E reason : got = Skipped(node.path, reason)
          \/ node.type = "blob" /\ got = [fetched EXCEPT !.files = @ \cup {node.path}]
      <4>1. \/ Cardinality(fetched.files) >= FileLimit
            \/ Cardinality(fetched.files) < FileLimit
        BY <3>4
      <4> HIDE DEF node
      <4>2. CASE node.type # "blob"
        BY <4>2, <2>1 DEF Fetch
      <4>3. CASE node.type = "blob" /\ Cardinality(fetched.files) >= FileLimit
        BY <4>3, <2>1, <3>4 DEF Fetch
      <4>4. CASE node.type = "blob" /\ Cardinality(fetched.files) < FileLimit
        BY <4>4, <2>1, <3>4 DEF Fetch
      <4> QED  BY <4>1, <4>2, <4>3, <4>4
    <3> HIDE DEF Got, node
    <3>6. CASE node.type # "blob" /\ got = fetched
      BY <3>3, <3>6
    <3>7. CASE node.type = "blob" /\ \E reason : got = Skipped(node.path, reason)
      <4>1. PICK reason : got = Skipped(node.path, reason)
        BY <3>7
      <4> DEFINE s == [path |-> node.path, reason |-> reason]
      <4>2. s.path = node.path /\ s \in fetched.skipped \cup {s}
        OBVIOUS
      <4> QED  BY <3>1, <3>7, <4>1, <4>2
    <3>8. CASE node.type = "blob" /\ got = [fetched EXCEPT !.files = @ \cup {node.path}]
      BY <3>2, <3>8
    <3> QED  BY <3>5, <3>6, <3>7, <3>8
  <2>4. PICK read, skipped :
          /\ got = Got(read, skipped)
          /\ read \in {fetched.files, fetched.files \cup {node.path}}
          /\ fetched.skipped \subseteq skipped
          /\ node.type # "blob" => read = fetched.files
          /\ node.type = "blob" => node.path \in read \/ \E s \in skipped : s.path = node.path
    BY <2>3
  <2>5. fetched' = [files |-> read, skipped |-> skipped, truncated |-> fetched.truncated,
                    next |-> fetched.next + 1, listed |-> fetched.listed]
    BY <2>1, <2>4
  <2>6. IsFiniteSet(read)
    <3>1. IsFiniteSet(fetched.files)
      BY DEF FetchInv
    <3>2. IsFiniteSet(fetched.files \cup {node.path})
      BY ONLY <3>1, FS_AddElement
    <3> QED  BY ONLY <2>4, <3>1, <3>2
  <2>7. read \subseteq TreePaths
    BY <2>2, <2>4 DEF FetchInv, TreePaths, Blobs
  <2>8. \A i \in Blobs : i < fetched.next + 1 =>
          Nodes[i].path \in read \/ \E s \in skipped : s.path = Nodes[i].path
    <3> SUFFICES ASSUME NEW i \in Blobs, i < fetched.next + 1
                 PROVE  Nodes[i].path \in read \/ \E s \in skipped : s.path = Nodes[i].path
      OBVIOUS
    <3>1. i \in Nat
      BY NodesAreAList DEF Blobs
    <3>2. CASE i < fetched.next
      BY <3>2, <2>4 DEF FetchInv
    <3>3. CASE i = fetched.next
      BY <3>3, <2>4 DEF Blobs
    <3> QED  BY <3>1, <3>2, <3>3 DEF FetchInv
  <2>9. ~HasWorkspace' /\ step' # "list" /\ step # "list"
    BY <2>2 DEF HasWorkspace
  <2>10. /\ fetched.next + 1 \in Nat \ {0} /\ fetched.listed \in 0..Len(Nodes)
         /\ fetched.truncated <=> fetched.listed < Len(Nodes)
    BY <2>9 DEF FetchInv
  <2> QED  BY ONLY <1>3, <2>5, <2>6, <2>7, <2>8, <2>9, <2>10, <1>2 DEF FetchInv
<1>6. CASE Materialize
  <2>1. /\ step = "fetch" /\ fetched' = fetched /\ step' \in {"solve", "blocked"}
        /\ fetched.next > fetched.listed
        /\ step' = "solve" => MaterializationGaps(fetched, attested.permit) = {}
    BY <1>6 DEF Materialize
  <2>2. MaterializationGaps(fetched, attested.permit)' = MaterializationGaps(fetched, attested.permit)
    BY <1>1, <2>1 DEF MaterializationGaps
  <2> QED  BY <1>2, <1>3, <2>1, <2>2 DEF FetchInv, HasWorkspace
<1>7. ASSUME HasWorkspace, fetched' = fetched, step' # "list" PROVE FetchInv'
  BY <1>1, <1>7, FetchInvStays
<1>8. CASE Solve
  BY <1>2, <1>7, <1>8 DEF Solve, Propose, HasWorkspace
<1>9. CASE Judge
  BY <1>2, <1>7, <1>9 DEF Judge, HasWorkspace
<1>10. CASE Revise
  BY <1>2, <1>7, <1>10 DEF Revise, Propose, HasWorkspace
<1>11. CASE HumanReview
  BY <1>2, <1>7, <1>11 DEF HumanReview, HasWorkspace
<1>12. CASE UNCHANGED snapshotVars
  BY <1>12, <1>2, <1>3 DEF snapshotVars, FetchInv, HasWorkspace, MaterializationGaps
<1> QED  BY <1>4, <1>5, <1>6, <1>8, <1>9, <1>10, <1>11, <1>12 DEF SnapshotNext

\* The checks of a run are those of the whole project.
THEOREM SnapshotIsTheProject == SnapshotSpec => []ChecksAreTheProjects
<1>1. SnapshotInit => TreeInv /\ FetchInv
  BY FetchInvStarts
<1>2. TreeInv /\ FetchInv /\ [SnapshotNext]_snapshotVars => (TreeInv /\ FetchInv)'
  BY FetchInvNext
<1>3. TreeInv /\ FetchInv => ChecksAreTheProjects
  BY ChecksAreOfTheTree
<1> QED  BY <1>1, <1>2, <1>3, PTL DEF SnapshotSpec

(***************************************************************************)
(* The candidate and what is shown of it                                   *)
(***************************************************************************)
Members(s) == {s[i] : i \in DOMAIN s}

IsSomeList(s) == s \in Seq(Members(s))

Distinct(s) == \A i, j \in DOMAIN s : s[i].path = s[j].path => i = j

\* What two lists joined hold.
LEMMA MembersOfJoined ==
  ASSUME NEW s, IsSomeList(s), NEW t, IsSomeList(t)
  PROVE  /\ IsSomeList(s \o t)
         /\ Members(s \o t) = Members(s) \cup Members(t)
         /\ Distinct(s \o t) =>
              Distinct(s) /\ \A c \in Members(s), d \in Members(t) : c.path # d.path
<1> DEFINE S == Members(s) \cup Members(t)
           m == Len(s)
           n == Len(t)
<1>1. s \in Seq(S) /\ t \in Seq(S)
  BY DEF IsSomeList
<1>2. m \in Nat /\ n \in Nat /\ DOMAIN s = 1..m /\ DOMAIN t = 1..n
  BY <1>1, LenProperties
<1> DEFINE st == s \o t
<1>3. st \in Seq(S) /\ Len(st) = m + n
      /\ \A i \in 1..(m + n) : st[i] = IF i <= m THEN s[i] ELSE t[i - m]
  BY <1>1, ConcatProperties
<1>4. DOMAIN st = 1..(m + n)
  BY <1>3, LenProperties
<1> HIDE DEF st, m, n, S
<1>5. \A i \in 1..m : i \in 1..(m + n) /\ st[i] = s[i]
  BY <1>2, <1>3
<1>6. \A j \in 1..n : m + j \in 1..(m + n) /\ st[m + j] = t[j] /\ m + j > m
  <2> SUFFICES ASSUME NEW j \in 1..n PROVE m + j \in 1..(m + n) /\ st[m + j] = t[j] /\ m + j > m
    OBVIOUS
  <2>1. m + j \in 1..(m + n) /\ m + j > m /\ ~(m + j <= m) /\ (m + j) - m = j
    BY ONLY <1>2, j \in 1..n
  <2> QED  BY <2>1, <1>3
<1>7. ASSUME NEW i \in 1..(m + n) PROVE (\E k \in 1..m : i = k) \/ (\E j \in 1..n : i = m + j)
  <2>1. CASE i <= m
    BY ONLY <2>1, <1>2, i \in 1..(m + n)
  <2>2. CASE ~(i <= m)
    <3>1. i - m \in 1..n /\ i = m + (i - m)
      BY ONLY <2>2, <1>2, i \in 1..(m + n)
    <3> QED  BY <3>1
  <2> QED  BY <2>1, <2>2
<1>8. Members(st) = Members(s) \cup Members(t)
  <2>1. ASSUME NEW c \in Members(st) PROVE c \in Members(s) \cup Members(t)
    <3>1. PICK i \in 1..(m + n) : c = st[i]
      BY <1>4 DEF Members
    <3> QED  BY <1>2, <1>5, <1>6, <1>7, <3>1 DEF Members
  <2>2. ASSUME NEW c \in Members(s) PROVE c \in Members(st)
    BY <1>2, <1>4, <1>5 DEF Members
  <2>3. ASSUME NEW c \in Members(t) PROVE c \in Members(st)
    BY <1>2, <1>4, <1>6 DEF Members
  <2> QED  BY <2>1, <2>2, <2>3
<1>9. IsSomeList(st)
  BY <1>3, <1>8 DEF IsSomeList, S
<1>10. ASSUME Distinct(st) PROVE Distinct(s) /\ \A c \in Members(s), d \in Members(t) : c.path # d.path
  <2>1. Distinct(s)
    BY <1>2, <1>4, <1>5, <1>10 DEF Distinct
  <2>2. ASSUME NEW c \in Members(s), NEW d \in Members(t), c.path = d.path PROVE FALSE
    <3>1. PICK i \in 1..m : c = s[i]
      BY <1>2 DEF Members
    <3>2. PICK j \in 1..n : d = t[j]
      BY <1>2 DEF Members
    <3>3. i # m + j
      BY <1>2, <1>6
    <3> QED  BY <1>4, <1>5, <1>6, <1>10, <2>2, <3>1, <3>2, <3>3 DEF Distinct
  <2> QED  BY <2>1, <2>2
<1> QED  BY <1>8, <1>9, <1>10 DEF st

\* The changes of a candidate, or its tests, are those of its members that are.
LEMMA ThoseAreThose ==
  ASSUME NEW changes, IsSomeList(changes), NEW test
  PROVE  IsSomeList(Those(changes, test)) /\ Members(Those(changes, test)) = {c \in Members(changes) : c.test = test}
<1> DEFINE n == Len(changes)
           C == Members(changes)
           V == Seq(C)
           IsUpto(f) == f = [k \in 0..n |->
             IF k = 0 THEN <<>>
             ELSE IF changes[k].test = test THEN Append(f[k - 1], changes[k]) ELSE f[k - 1]]
           folds == [k \in 1..n |-> [before \in V |->
             IF changes[k].test = test THEN Append(before, changes[k]) ELSE before]]
           Upto(s, k) == s \in V /\ Members(s) = {changes[i] : i \in {j \in 1..k : changes[j].test = test}}
<1>1. n \in Nat /\ DOMAIN changes = 1..n /\ <<>> \in V /\ \A k \in 1..n : changes[k] \in C
  <2>1. changes \in Seq(C)
    BY DEF IsSomeList
  <2> QED  BY <2>1, LenProperties, EmptySeq DEF Members
<1>2. folds \in [1..n -> [V -> V]]
  BY <1>1, AppendProperties
<1>3. PICK g : IsFold(g, n, V, <<>>, folds)
  <2> HIDE DEF n, folds, V
  <2> QED  BY <1>1, <1>2, FoldExists
<1>4. IsUpto(g)
  <2>1. /\ g \in [0..n -> V] /\ g[0] = <<>>
        /\ \A k \in 1..n : g[k] = IF changes[k].test = test THEN Append(g[k - 1], changes[k]) ELSE g[k - 1]
    <3>1. ASSUME NEW k \in 1..n PROVE g[k] = folds[k][g[k - 1]] /\ g[k - 1] \in V
      <4>1. k - 1 \in 0..n
        BY <1>1
      <4> QED  BY <1>3, <4>1 DEF IsFold
    <3> QED  BY <1>3, <3>1 DEF IsFold
  <2> HIDE DEF V, n
  <2>2. \A k \in 0..n : k = 0 \/ k \in 1..n
    BY <1>1
  <2> QED  BY <2>1, <2>2
<1> DEFINE f == CHOOSE h : IsUpto(h)
<1>5. IsUpto(f)
  <2> HIDE DEF IsUpto
  <2> QED  BY <1>4
<1>6. Those(changes, test) = f[n]
  BY DEF Those
<1> HIDE DEF f
<1> DEFINE S == {k \in Nat : k <= n => Upto(f[k], k)}
<1>7. 0 \in S
  <2>1. Members(<<>>) = {}
    BY DEF Members
  <2> QED  BY <1>1, <1>5, <2>1
<1>8. ASSUME NEW k \in Nat, k \in S, k + 1 <= n PROVE Upto(f[k + 1], k + 1)
  <2> DEFINE before == f[k]
  <2>1. Upto(before, k) /\ k + 1 \in 1..n
    BY <1>1, <1>8
  <2>2. f[k + 1] = IF changes[k + 1].test = test THEN Append(before, changes[k + 1]) ELSE before
    <3>1. k + 1 \in 0..n /\ k + 1 # 0 /\ (k + 1) - 1 = k
      BY <1>8
    <3> QED  BY <1>5, <3>1
  <2> HIDE DEF before
  <2> DEFINE In(m) == {j \in 1..m : changes[j].test = test}
  <2>3. In(k + 1) = IF changes[k + 1].test = test THEN In(k) \cup {k + 1} ELSE In(k)
    <3>1. 1..(k + 1) = (1..k) \cup {k + 1}
      BY <1>8
    <3> QED  BY <3>1
  <2>4. CASE changes[k + 1].test = test
    <3>1. before \in Seq(C) /\ changes[k + 1] \in C /\ Len(before) \in Nat /\ DOMAIN before = 1..Len(before)
      BY <1>1, <2>1, LenProperties
    <3> DEFINE after == Append(before, changes[k + 1])
    <3>2. /\ after \in Seq(C) /\ Len(after) = Len(before) + 1
          /\ \A i \in 1..Len(before) : after[i] = before[i]
          /\ after[Len(before) + 1] = changes[k + 1]
      BY <3>1, AppendProperties
    <3>3. DOMAIN after = 1..(Len(before) + 1)
      BY <3>2, LenProperties
    <3> HIDE DEF after
    <3>4. DOMAIN after = DOMAIN before \cup {Len(before) + 1}
      BY <3>1, <3>3
    <3>5. Members(after) = Members(before) \cup {changes[k + 1]}
      BY <3>1, <3>2, <3>4 DEF Members
    <3> HIDE DEF In
    <3>6. Members(after) = {changes[i] : i \in In(k + 1)}
      BY <2>1, <2>3, <2>4, <3>5 DEF In
    <3> QED  BY <2>2, <2>4, <3>2, <3>6 DEF after, In
  <2>5. CASE changes[k + 1].test # test
    BY <2>1, <2>2, <2>3, <2>5
  <2> QED  BY <2>4, <2>5
<1>9. \A k \in Nat : k \in S => k + 1 \in S
  <2> HIDE DEF Upto
  <2> QED  BY <1>8
<1> HIDE DEF S
<1>10. n \in S
  BY <1>1, <1>7, <1>9, Induction
<1>11. Upto(f[n], n)
  BY <1>1, <1>10 DEF S
<1>12. {changes[i] : i \in {j \in 1..n : changes[j].test = test}} = {c \in C : c.test = test}
  BY <1>1 DEF Members
<1>13. \A s : s \in V /\ Members(s) \subseteq C => s \in Seq(Members(s))
  <2> SUFFICES ASSUME NEW s \in V PROVE s \in Seq(Members(s))
    OBVIOUS
  <2>1. Len(s) \in Nat /\ DOMAIN s = 1..Len(s) /\ s \in [1..Len(s) -> C]
    BY LenProperties
  <2>2. s \in [1..Len(s) -> Members(s)]
    BY <2>1 DEF Members
  <2> QED  BY <2>1, <2>2, SeqDef
<1> QED  BY <1>6, <1>11, <1>12, <1>13 DEF IsSomeList

\* A list of as many.
LEMMA ListLike ==
  ASSUME NEW s, IsSomeList(s), NEW b, b = [i \in DOMAIN s |-> b[i]]
  PROVE  IsSomeList(b) /\ DOMAIN b = DOMAIN s /\ Members(b) = {b[i] : i \in DOMAIN s}
<1>1. Len(s) \in Nat /\ DOMAIN s = 1..Len(s)
  BY LenProperties DEF IsSomeList
<1>2. DOMAIN b = DOMAIN s /\ Members(b) = {b[i] : i \in DOMAIN s}
  BY DEF Members
<1>3. b \in [1..Len(s) -> Members(b)]
  BY <1>1, <1>2
<1>4. b \in Seq(Members(b))
  BY <1>1, <1>3, SeqDef
<1> QED  BY <1>2, <1>4 DEF IsSomeList

\* A path of the tree is one with a text.
LEMMA BaseTexts ==
  ASSUME TreeInv
  PROVE  \A p : p \in TreePaths <=> BaseText(p) # Missing
<1> SUFFICES ASSUME NEW p PROVE p \in TreePaths <=> BaseText(p) # Missing
  OBVIOUS
<1>1. CASE p \in TreePaths
  <2> DEFINE C == {n \in {Nodes[i] : i \in Blobs} : n.path = p}
             node == CHOOSE n \in {Nodes[i] : i \in Blobs} : n.path = p
  <2>1. \E i \in Blobs : Nodes[i].path = p
    BY <1>1 DEF TreePaths
  <2>2. node \in {Nodes[i] : i \in Blobs}
    BY <2>1
  <2>3. BaseText(p) = node.text
    BY <2>1 DEF BaseText
  <2> HIDE DEF node
  <2>4. node.text # Missing
    BY <2>2, NodesAreAList
  <2> QED  BY <1>1, <2>3, <2>4
<1>2. CASE p \notin TreePaths
  BY <1>2 DEF TreePaths, BaseText
<1> QED  BY <1>1, <1>2

\* A change of the candidate is a record of its own.
IsChange(c) ==
  /\ c = [path |-> c.path, text |-> c.text, test |-> c.test, original |-> c.original, isNew |-> c.isNew]
  /\ c.test \in BOOLEAN

\* The candidate is a list of changes, one for a path, and what a human was shown.
CandidateInv ==
  /\ IsSomeList(proposed) /\ Distinct(proposed)
  /\ \A c \in Members(proposed) : IsChange(c)
  /\ step \in {"list", "fetch", "solve"} => proposed = <<>>
  /\ displayed # <<>> => step \in {"approved", "declined"} /\ displayed = DisplayContribution(proposed)
  /\ HasWorkspace => fetched.files \subseteq DOMAIN work

\* Files are those of the base but for what changes make of them.
IsBaseWith(tree, changes) ==
  /\ \A c \in changes :
       /\ c.original = BaseText(c.path) /\ (c.isNew <=> BaseText(c.path) = Missing)
       /\ c.path \in DOMAIN tree /\ tree[c.path] = c.text
  /\ \A p \in DOMAIN tree : tree[p] = BaseText(p) \/ \E c \in changes : c.path = p

\* Whether the base of every path that may change is known.
Known == attested.permit.paths # {} \/ TreePaths \subseteq fetched.files

WorkInv == HasWorkspace /\ Known /\ ~forgotten => IsBaseWith(work, Members(proposed))

\* What counts as the original of a path is its text in the base.
LEMMA BaseOfIsBase ==
  ASSUME TreeInv, FetchInv, CandidateInv, IsBaseWith(work, Members(proposed)), HasWorkspace, Known,
         NEW p, Allows(attested.permit, p)
  PROVE  BaseOf(p) = BaseText(p)
<1>1. p \in TreePaths => p \in fetched.files
  BY WhatMattersIsThere DEF Known, Allows
<1>2. p \in TreePaths => p \in DOMAIN work
  BY <1>1 DEF CandidateInv
<1>3. Members(proposed) = {proposed[i] : i \in DOMAIN proposed} /\ DOMAIN Preimages = {c.path : c \in Members(proposed)}
  BY DEF Members, Preimages
<1>4. CASE p \in DOMAIN Preimages
  <2> DEFINE mine == CHOOSE c \in {proposed[i] : i \in DOMAIN proposed} : c.path = p
  <2>1. mine \in Members(proposed) /\ mine.path = p
    BY <1>3, <1>4
  <2>2. BaseOf(p) = mine.original
    BY <1>4 DEF BaseOf, Preimages
  <2> HIDE DEF mine
  <2> QED  BY <2>1, <2>2 DEF IsBaseWith
<1>5. CASE p \notin DOMAIN Preimages
  <2>1. BaseOf(p) = OnDisk(p)
    BY <1>5 DEF BaseOf
  <2>2. CASE p \in DOMAIN work
    <3>1. work[p] = BaseText(p)
      BY <1>3, <1>5, <2>2 DEF IsBaseWith
    <3> QED  BY <2>1, <2>2, <3>1 DEF OnDisk
  <2>3. CASE p \notin DOMAIN work
    BY <1>2, <2>1, <2>3, BaseTexts DEF OnDisk
  <2> QED  BY <2>2, <2>3
<1> QED  BY <1>4, <1>5

\* What a model answers is a list of changes.
IsAnswer(changes) == IsSomeList(changes) /\ \A c \in Members(changes) : c.test \in BOOLEAN

\* A candidate of bound changes and the tests of the one before.
LEMMA ProposedIsOfTheBase ==
  ASSUME TreeInv, FetchInv, CandidateInv, WorkInv, HasWorkspace,
         NEW changes, IsAnswer(changes),
         NEW kept, IsSomeList(kept), Members(kept) = {c \in Members(proposed) : c.test},
         Propose(changes, kept), step' = "validate"
  PROVE  /\ IsSomeList(proposed') /\ Distinct(proposed')
         /\ \A c \in Members(proposed') : IsChange(c)
         /\ DOMAIN work \subseteq DOMAIN work'
         /\ (/\ Known /\ ~forgotten
             /\ \A c \in Members(proposed) : ~c.test => \E d \in Members(changes) : d.path = c.path)
            => IsBaseWith(work', Members(proposed'))
<1> DEFINE bound == [i \in DOMAIN changes |-> Bound(changes[i])]
<1>1. /\ Admissible(bound \o kept) /\ work' = WithFiles(bound) /\ proposed' = bound \o kept
  BY DEF Propose
<1>2. /\ IsSomeList(bound) /\ DOMAIN bound = DOMAIN changes
      /\ Members(bound) = {bound[i] : i \in DOMAIN changes}
  BY ListLike DEF IsAnswer
<1>3. ASSUME NEW i \in DOMAIN changes
      PROVE  bound[i] = [path |-> changes[i].path, text |-> changes[i].text, test |-> changes[i].test,
                         original |-> BaseOf(changes[i].path), isNew |-> BaseOf(changes[i].path) = Missing]
  BY DEF Bound
<1> HIDE DEF bound
<1>4. /\ IsSomeList(proposed') /\ Members(proposed') = Members(bound) \cup Members(kept)
      /\ Distinct(proposed') => Distinct(bound) /\ \A c \in Members(bound), d \in Members(kept) : c.path # d.path
  BY <1>1, <1>2, MembersOfJoined
<1>5. Distinct(proposed')
  BY <1>1 DEF Admissible, Distinct
<1>6. ASSUME NEW c \in Members(bound)
      PROVE  /\ \E i \in DOMAIN changes : c.path = changes[i].path /\ c = bound[i]
             /\ c.original = BaseOf(c.path) /\ (c.isNew <=> BaseOf(c.path) = Missing)
             /\ IsChange(c)
  <2>1. PICK i \in DOMAIN changes : c = bound[i]
    BY <1>2
  <2>2. changes[i].test \in BOOLEAN
    BY DEF IsAnswer, Members
  <2>3. PICK new \in BOOLEAN :
          /\ new <=> BaseOf(changes[i].path) = Missing
          /\ c = [path |-> changes[i].path, text |-> changes[i].text, test |-> changes[i].test,
                  original |-> BaseOf(changes[i].path), isNew |-> new]
    <3>1. /\ (BaseOf(changes[i].path) = Missing) \in BOOLEAN
          /\ (BaseOf(changes[i].path) = Missing) <=> BaseOf(changes[i].path) = Missing
      OBVIOUS
    <3> QED  BY ONLY <1>3, <2>1, <3>1, Zenon
  <2>4. IsChange(c)
    BY <2>2, <2>3 DEF IsChange
  <2>5. c.path = changes[i].path /\ c.original = BaseOf(changes[i].path) /\ c.isNew = new
    BY ONLY <2>3
  <2>6. c.isNew <=> BaseOf(c.path) = Missing
    BY ONLY <2>3, <2>5, Zenon
  <2> QED  BY ONLY <2>1, <2>4, <2>5, <2>6, c.original = BaseOf(c.path)
<1>7. \A c \in Members(proposed') : IsChange(c)
  BY <1>4, <1>6 DEF CandidateInv
<1>8. /\ DOMAIN work' = DOMAIN work \cup {c.path : c \in Members(bound)}
      /\ \A c \in Members(bound) : work'[c.path] = c.text
      /\ \A p \in DOMAIN work : (\A c \in Members(bound) : c.path # p) => work'[p] = work[p]
  <2>1. {c.path : c \in Members(bound)} = {bound[i].path : i \in DOMAIN bound}
    BY DEF Members
  <2>2. work' = [p \in DOMAIN work \cup {bound[i].path : i \in DOMAIN bound} |->
                   IF \E i \in DOMAIN bound : bound[i].path = p
                   THEN bound[CHOOSE i \in DOMAIN bound : bound[i].path = p].text ELSE work[p]]
    BY <1>1 DEF WithFiles
  <2>3. ASSUME NEW c \in Members(bound) PROVE work'[c.path] = c.text
    <3>1. PICK i \in DOMAIN bound : c = bound[i]
      BY DEF Members
    <3>2. (CHOOSE j \in DOMAIN bound : bound[j].path = c.path) = i
      BY <3>1, <1>4, <1>5 DEF Distinct
    <3> QED  BY <2>2, <3>1, <3>2
  <2>4. ASSUME NEW p \in DOMAIN work, \A c \in Members(bound) : c.path # p PROVE work'[p] = work[p]
    <3>1. ~\E i \in DOMAIN bound : bound[i].path = p
      BY <2>4 DEF Members
    <3> QED  BY <2>2, <3>1
  <2> QED  BY <2>1, <2>2, <2>3, <2>4
<1>9. ASSUME Known, ~forgotten,
             \A c \in Members(proposed) : ~c.test => \E d \in Members(changes) : d.path = c.path
      PROVE  IsBaseWith(work', Members(proposed'))
  <2>1. IsBaseWith(work, Members(proposed))
    BY <1>9 DEF WorkInv
  <2>2. ASSUME NEW c \in Members(proposed') PROVE Allows(attested.permit, c.path)
    BY <1>1 DEF Admissible, Members
  <2>3. ASSUME NEW c \in Members(bound)
        PROVE  /\ c.original = BaseText(c.path) /\ (c.isNew <=> BaseText(c.path) = Missing)
               /\ c.path \in DOMAIN work' /\ work'[c.path] = c.text
    <3>1. BaseOf(c.path) = BaseText(c.path)
      BY <1>4, <1>9, <2>1, <2>2, BaseOfIsBase
    <3> QED  BY <1>6, <1>8, <3>1
  <2>4. ASSUME NEW c \in Members(kept)
        PROVE  /\ c.original = BaseText(c.path) /\ (c.isNew <=> BaseText(c.path) = Missing)
               /\ c.path \in DOMAIN work' /\ work'[c.path] = c.text
    <3>1. /\ c.original = BaseText(c.path) /\ (c.isNew <=> BaseText(c.path) = Missing)
          /\ c.path \in DOMAIN work /\ work[c.path] = c.text
      BY <2>1 DEF IsBaseWith
    <3>2. \A d \in Members(bound) : d.path # c.path
      BY <1>4, <1>5
    <3> QED  BY <1>8, <3>1, <3>2
  <2>5. ASSUME NEW p \in DOMAIN work', \A c \in Members(proposed') : c.path # p
        PROVE  work'[p] = BaseText(p)
    <3>1. \A c \in Members(bound) : c.path # p
      BY <1>4, <2>5
    <3>2. p \in DOMAIN work /\ work'[p] = work[p]
      BY <1>8, <3>1
    <3>3. ASSUME NEW c \in Members(proposed), c.path = p PROVE FALSE
      <4>1. c.test \in BOOLEAN
        BY DEF CandidateInv, IsChange
      <4>2. CASE c.test
        BY <1>4, <2>5, <3>3, <4>2
      <4>3. CASE ~c.test
        <5>1. PICK d \in Members(changes) : d.path = p
          BY <1>9, <3>3, <4>3
        <5>2. PICK i \in DOMAIN changes : d = changes[i]
          BY <5>1 DEF Members
        <5>3. bound[i].path = p /\ bound[i] \in Members(bound)
          BY <1>2, <1>3, <5>1, <5>2
        <5> QED  BY <3>1, <5>3
      <4> QED  BY <4>2, <4>3
    <3> QED  BY <2>1, <3>2, <3>3 DEF IsBaseWith
  <2> QED  BY <1>4, <2>3, <2>4, <2>5 DEF IsBaseWith
<1> QED  BY <1>4, <1>5, <1>7, <1>8, <1>9

SnapshotInv == TreeInv /\ FetchInv /\ CandidateInv /\ WorkInv

LEMMA SnapshotInvStarts ==
  ASSUME SnapshotInit
  PROVE  SnapshotInv
<1>1. PICK tree \in Attested, permit \in Permits : SnapshotAt(tree, permit)
  BY DEF SnapshotInit
<1>2. Members(<<>>) = {} /\ IsSomeList(<<>>) /\ Distinct(<<>>)
  BY EmptySeq DEF Members, IsSomeList, Distinct
<1> QED  BY <1>1, <1>2, FetchInvStarts DEF SnapshotInv, CandidateInv, WorkInv, HasWorkspace, SnapshotAt

\* A revision takes the answer's changes as no tests.
LEMMA RevisedChanges ==
  ASSUME NEW changes \in Proposals,
         NEW revised, revised = [i \in DOMAIN changes |-> [changes[i] EXCEPT !.test = FALSE]]
  PROVE  IsAnswer(changes) /\ IsAnswer(revised) /\ {c.path : c \in Members(revised)} = {c.path : c \in Members(changes)}
<1>1. /\ IsSomeList(changes)
      /\ \A i \in DOMAIN changes :
           DOMAIN changes[i] = {"path", "quote", "text", "test", "deletes"} /\ changes[i].test \in BOOLEAN
  BY SnapshotAssumption DEF IsSomeList, Members
<1>2. IsAnswer(changes)
  BY <1>1 DEF IsAnswer, Members
<1>3. \A i \in DOMAIN changes : revised[i] = [changes[i] EXCEPT !.test = FALSE]
  OBVIOUS
<1>4. ASSUME NEW c, DOMAIN c = {"path", "quote", "text", "test", "deletes"}
      PROVE  [c EXCEPT !.test = FALSE].test = FALSE /\ [c EXCEPT !.test = FALSE].path = c.path
  BY <1>4
<1>5. \A i \in DOMAIN changes : revised[i].test = FALSE /\ revised[i].path = changes[i].path
  BY <1>1, <1>3, <1>4
<1>6. revised = [i \in DOMAIN changes |-> revised[i]]
  OBVIOUS
<1>7. IsSomeList(revised) /\ DOMAIN revised = DOMAIN changes /\ Members(revised) = {revised[i] : i \in DOMAIN changes}
  BY ONLY <1>1, <1>6, ListLike
<1>8. IsAnswer(revised)
  BY <1>5, <1>7 DEF IsAnswer
<1>9. {c.path : c \in Members(revised)} = {c.path : c \in Members(changes)}
  BY <1>5, <1>7 DEF Members
<1> QED  BY <1>2, <1>8, <1>9

LEMMA SnapshotInvNext ==
  ASSUME SnapshotInv, [SnapshotNext]_snapshotVars
  PROVE  SnapshotInv'
<1> USE DEF SnapshotInv
<1>1. TreeInv' /\ FetchInv'
  BY FetchInvNext
<1>2. attested' = attested
  BY DEF SnapshotNext, snapshotVars, FetchListing, FetchNext, Materialize, Solve, Judge, Revise, HumanReview, Propose
<1>3. TreePaths' = TreePaths /\ \A p : BaseText(p)' = BaseText(p)
  BY <1>2 DEF TreePaths, BaseText, Nodes, Blobs
<1>4. ASSUME UNCHANGED <<fetched, work, proposed, displayed, forgotten>>,
             step' \in {"list", "fetch", "solve"} => proposed = <<>>,
             displayed = <<>>, HasWorkspace' => HasWorkspace
      PROVE  CandidateInv' /\ WorkInv'
  <2>1. CandidateInv'
    BY <1>4 DEF CandidateInv
  <2>2. HasWorkspace' /\ Known' /\ ~forgotten' => HasWorkspace /\ Known /\ ~forgotten
    BY <1>2, <1>3, <1>4 DEF Known
  <2>3. IsBaseWith(work, Members(proposed)) => IsBaseWith(work, Members(proposed))'
    BY <1>3, <1>4 DEF IsBaseWith
  <2> QED  BY <2>1, <2>2, <2>3, <1>4 DEF WorkInv
<1>5. ASSUME step \in {"list", "fetch", "solve", "validate", "revise", "review"}
      PROVE  displayed = <<>>
  BY <1>5 DEF CandidateInv
<1>6. ASSUME NEW changes, IsAnswer(changes),
             NEW kept, IsSomeList(kept), Members(kept) = {c \in Members(proposed) : c.test},
             step \in {"solve", "revise"}, Propose(changes, kept), displayed' = displayed,
             ~forgotten' => /\ ~forgotten
                            /\ \A c \in Members(proposed) : ~c.test => \E d \in Members(changes) : d.path = c.path
      PROVE  CandidateInv' /\ WorkInv'
  <2>1. CASE step' = "blocked"
    <3>1. proposed' = proposed
      BY <1>6, <2>1 DEF Propose
    <3> QED  BY <1>5, <1>6, <2>1, <3>1 DEF CandidateInv, WorkInv, HasWorkspace
  <2>2. CASE step' # "blocked"
    <3>1. step' = "validate" /\ fetched' = fetched
      BY <1>6, <2>2 DEF Propose
    <3>2. HasWorkspace
      BY <1>6 DEF HasWorkspace
    <3>3. /\ IsSomeList(proposed') /\ Distinct(proposed')
          /\ \A c \in Members(proposed') : IsChange(c)
          /\ DOMAIN work \subseteq DOMAIN work'
          /\ (/\ Known /\ ~forgotten
              /\ \A c \in Members(proposed) : ~c.test => \E d \in Members(changes) : d.path = c.path)
             => IsBaseWith(work', Members(proposed'))
      BY <1>6, <3>1, <3>2, ProposedIsOfTheBase
    <3>4. CandidateInv'
      BY <1>5, <1>6, <3>1, <3>2, <3>3 DEF CandidateInv
    <3>5. Known' => Known
      BY <1>2, <1>3, <3>1 DEF Known
    <3>6. IsBaseWith(work', Members(proposed')) => IsBaseWith(work, Members(proposed))'
      BY <1>3 DEF IsBaseWith
    <3>7. WorkInv'
      BY <1>6, <3>3, <3>5, <3>6 DEF WorkInv
    <3> QED  BY <3>4, <3>7
  <2> QED  BY <2>1, <2>2
<1>7. CASE FetchListing
  <2>1. /\ step = "list" /\ step' = "fetch" /\ UNCHANGED <<proposed, displayed>>
    BY <1>7 DEF FetchListing
  <2> QED  BY <1>1, <1>5, <2>1 DEF CandidateInv, WorkInv, HasWorkspace
<1>8. CASE FetchNext
  <2>1. /\ step = "fetch" /\ step' = "fetch" /\ UNCHANGED <<proposed, displayed>>
    BY <1>8 DEF FetchNext
  <2> QED  BY <1>1, <1>5, <2>1 DEF CandidateInv, WorkInv, HasWorkspace
<1>9. CASE Materialize
  <2>1. /\ step = "fetch" /\ step' \in {"solve", "blocked"} /\ UNCHANGED <<fetched, proposed, displayed>>
        /\ work' = [p \in fetched.files |-> BaseText(p)]
    BY <1>9 DEF Materialize
  <2>2. proposed' = <<>> /\ Members(<<>>) = {} /\ displayed' = <<>>
    BY <1>5, <2>1 DEF CandidateInv, Members
  <2>3. IsBaseWith(work, Members(proposed))'
    BY <1>3, <2>1, <2>2 DEF IsBaseWith
  <2> QED  BY <1>1, <2>1, <2>2, <2>3 DEF CandidateInv, WorkInv
<1>10. CASE Solve
  <2>1. PICK changes \in Proposals : Propose(changes, <<>>)
    BY <1>10 DEF Solve
  <2>2. /\ proposed = <<>> /\ Members(<<>>) = {} /\ IsSomeList(<<>>)
    BY <1>10, EmptySeq DEF Solve, CandidateInv, Members, IsSomeList
  <2>3. IsAnswer(changes)
    BY RevisedChanges
  <2>4. step = "solve" /\ UNCHANGED <<displayed, forgotten>>
    BY <1>10 DEF Solve
  <2> QED  BY <1>1, <1>6, <2>1, <2>2, <2>3, <2>4
<1>11. CASE Judge
  <2>1. /\ step = "validate" /\ step' \in {"review", "revise", "blocked"}
        /\ UNCHANGED <<fetched, work, proposed, displayed, forgotten>>
    BY <1>11 DEF Judge
  <2>2. HasWorkspace
    BY <2>1 DEF HasWorkspace
  <2> QED  BY <1>1, <1>4, <1>5, <2>1, <2>2
<1>12. CASE Revise
  <2>1. PICK changes \in Proposals :
          LET revised == [i \in DOMAIN changes |-> [changes[i] EXCEPT !.test = FALSE]]
              paths == {changes[i].path : i \in DOMAIN changes}
          IN /\ Propose(revised, Those(proposed, TRUE))
             /\ forgotten' = (forgotten \/ \E i \in DOMAIN proposed :
                                ~proposed[i].test /\ proposed[i].path \notin paths)
    BY <1>12 DEF Revise
  <2> DEFINE revised == [i \in DOMAIN changes |-> [changes[i] EXCEPT !.test = FALSE]]
             kept == Those(proposed, TRUE)
  <2>2. /\ Propose(revised, kept)
        /\ forgotten' = (forgotten \/ \E i \in DOMAIN proposed :
                           ~proposed[i].test /\ proposed[i].path \notin {changes[j].path : j \in DOMAIN changes})
    BY <2>1
  <2>3. IsAnswer(revised) /\ {c.path : c \in Members(revised)} = {c.path : c \in Members(changes)}
    BY RevisedChanges
  <2>4. IsSomeList(kept) /\ Members(kept) = {c \in Members(proposed) : c.test = TRUE}
    BY ThoseAreThose DEF CandidateInv
  <2>5. {c \in Members(proposed) : c.test = TRUE} = {c \in Members(proposed) : c.test}
    BY DEF CandidateInv, IsChange
  <2> HIDE DEF revised, kept
  <2>6. ASSUME ~forgotten'
        PROVE  /\ ~forgotten
               /\ \A c \in Members(proposed) : ~c.test => \E d \in Members(revised) : d.path = c.path
    <3>1. \A c \in Members(proposed) : ~c.test => c.path \in {d.path : d \in Members(changes)}
      BY <2>2, <2>6 DEF Members
    <3> QED  BY <2>2, <2>3, <2>6, <3>1
  <2>7. step = "revise" /\ UNCHANGED displayed
    BY <1>12 DEF Revise
  <2> QED  BY <1>1, <1>6, <2>2, <2>3, <2>4, <2>5, <2>6, <2>7
<1>13. CASE HumanReview
  <2>1. /\ step = "review" /\ step' \in {"approved", "declined"} /\ UNCHANGED <<fetched, work, proposed, forgotten>>
        /\ displayed' \in {displayed, DisplayContribution(proposed)}
    BY <1>13 DEF HumanReview
  <2>2. displayed = <<>>
    BY <1>5, <2>1
  <2>3. HasWorkspace
    BY <2>1 DEF HasWorkspace
  <2>4. CandidateInv'
    BY <2>1, <2>2, <2>3 DEF CandidateInv
  <2>5. Known' => Known
    BY <1>2, <1>3, <2>1 DEF Known
  <2>6. IsBaseWith(work, Members(proposed)) => IsBaseWith(work, Members(proposed))'
    BY <1>3, <2>1 DEF IsBaseWith
  <2>7. WorkInv'
    BY <2>1, <2>3, <2>5, <2>6 DEF WorkInv
  <2> QED  BY <1>1, <2>4, <2>7
<1>14. CASE UNCHANGED snapshotVars
  <2>1. CandidateInv'
    BY <1>14 DEF snapshotVars, CandidateInv, HasWorkspace
  <2>2. WorkInv'
    BY <1>3, <1>14 DEF snapshotVars, WorkInv, IsBaseWith, HasWorkspace, Known
  <2> QED  BY <1>1, <2>1, <2>2
<1> QED  BY <1>1, <1>7, <1>8, <1>9, <1>10, <1>11, <1>12, <1>13, <1>14 DEF SnapshotNext

LEMMA ReviewIsShown ==
  ASSUME SnapshotInv
  PROVE  ReviewIsOfTheChange
<1> DEFINE inBase == [i \in DOMAIN proposed |-> [proposed[i] EXCEPT !.original = BaseText(proposed[i].path)]]
           changed == {p \in DOMAIN work : work[p] # BaseText(p)}
<1> SUFFICES ASSUME step \in {"review", "approved", "declined"}, Known, ~forgotten
             PROVE  /\ \A i \in DOMAIN proposed :
                         /\ proposed[i].original = inBase[i].original
                         /\ proposed[i].isNew <=> proposed[i].path \notin TreePaths
                         /\ work[proposed[i].path] = proposed[i].text
                    /\ changed \subseteq {proposed[i].path : i \in DOMAIN proposed}
                    /\ displayed # <<>> => {[path |-> p, text |-> work[p]] : p \in changed} \subseteq
                                             {displayed[i] : i \in DOMAIN displayed}
                    /\ Surface(proposed) = Surface(inBase)
  BY DEF ReviewIsOfTheChange, Known
<1>1. IsBaseWith(work, Members(proposed))
  BY DEF SnapshotInv, WorkInv, HasWorkspace
<1>2. ASSUME NEW i \in DOMAIN proposed
      PROVE  /\ proposed[i].original = BaseText(proposed[i].path)
             /\ proposed[i].isNew <=> proposed[i].path \notin TreePaths
             /\ work[proposed[i].path] = proposed[i].text
             /\ [proposed[i] EXCEPT !.original = BaseText(proposed[i].path)] = proposed[i]
  <2>1. proposed[i] \in Members(proposed)
    BY DEF Members
  <2>2. /\ proposed[i].original = BaseText(proposed[i].path)
        /\ proposed[i].isNew <=> proposed[i].path \notin TreePaths
        /\ work[proposed[i].path] = proposed[i].text
    BY <1>1, <2>1, BaseTexts DEF IsBaseWith, SnapshotInv
  <2>3. ASSUME NEW c, IsChange(c), NEW x, x = c.original PROVE [c EXCEPT !.original = x] = c
    BY <2>3 DEF IsChange
  <2>4. IsChange(proposed[i])
    BY <2>1 DEF SnapshotInv, CandidateInv
  <2> QED  BY <2>2, <2>3, <2>4
<1>3. inBase = proposed
  <2>1. proposed = [i \in DOMAIN proposed |-> proposed[i]]
    <3>1. proposed \in Seq(Members(proposed))
      BY DEF SnapshotInv, CandidateInv, IsSomeList
    <3>2. proposed \in [1..Len(proposed) -> Members(proposed)]
      BY <3>1, LenProperties
    <3> QED  BY <3>2
  <2> QED  BY <1>2, <2>1
<1>4. changed \subseteq {proposed[i].path : i \in DOMAIN proposed}
  BY <1>1 DEF IsBaseWith, Members
<1>5. ASSUME displayed # <<>>
      PROVE  {[path |-> p, text |-> work[p]] : p \in changed} \subseteq {displayed[i] : i \in DOMAIN displayed}
  <2> DEFINE all == Those(proposed, FALSE) \o Those(proposed, TRUE)
  <2>1. IsSomeList(proposed) /\ \A c \in Members(proposed) : c.test \in BOOLEAN
    BY DEF SnapshotInv, CandidateInv, IsChange
  <2>2. Members(all) = {c \in Members(proposed) : c.test = FALSE} \cup {c \in Members(proposed) : c.test = TRUE}
    <3>1. ASSUME NEW test
          PROVE  IsSomeList(Those(proposed, test)) /\ Members(Those(proposed, test)) = {c \in Members(proposed) : c.test = test}
      BY <2>1, ThoseAreThose
    <3> DEFINE some == Those(proposed, FALSE)
               tests == Those(proposed, TRUE)
    <3>2. /\ IsSomeList(some) /\ Members(some) = {c \in Members(proposed) : c.test = FALSE}
          /\ IsSomeList(tests) /\ Members(tests) = {c \in Members(proposed) : c.test = TRUE}
      BY <3>1
    <3> HIDE DEF some, tests
    <3>3. Members(some \o tests) = Members(some) \cup Members(tests)
      BY <3>2, MembersOfJoined
    <3> QED  BY <3>2, <3>3 DEF some, tests
  <2>3. Members(all) = Members(proposed)
    BY <2>1, <2>2
  <2>4. displayed = [i \in DOMAIN all |-> [path |-> all[i].path, text |-> all[i].text]]
    BY <1>5 DEF SnapshotInv, CandidateInv, DisplayContribution
  <2> HIDE DEF all
  <2> SUFFICES ASSUME NEW p \in changed
               PROVE  [path |-> p, text |-> work[p]] \in {displayed[i] : i \in DOMAIN displayed}
    OBVIOUS
  <2>5. PICK c \in Members(proposed) : c.path = p
    BY <1>4 DEF Members
  <2>6. c.text = work[p]
    BY <1>1, <2>5 DEF IsBaseWith
  <2>7. PICK i \in DOMAIN all : all[i] = c
    BY <2>3, <2>5 DEF Members
  <2>8. displayed[i] = [path |-> p, text |-> work[p]] /\ i \in DOMAIN displayed
    BY <2>4, <2>5, <2>6, <2>7
  <2> QED  BY <2>8
<1> HIDE DEF inBase
<1>6. Surface(proposed) = Surface(inBase)
  BY <1>3
<1> QED  BY <1>2, <1>3, <1>4, <1>5, <1>6

\* What is reviewed is the change that the base tree gets.
THEOREM SnapshotReviewed == SnapshotSpec => []ReviewIsOfTheChange
<1>1. SnapshotInit => SnapshotInv
  BY SnapshotInvStarts
<1>2. SnapshotInv /\ [SnapshotNext]_snapshotVars => SnapshotInv'
  BY SnapshotInvNext
<1>3. SnapshotInv => ReviewIsOfTheChange
  BY ReviewIsShown
<1> QED  BY <1>1, <1>2, <1>3, PTL DEF SnapshotSpec

(***************************************************************************)
(* The context of an analysis (ContextCompressor): what is taken fits.      *)
(***************************************************************************)
\* A number below a thousand million has nine digits at most.
LEMMA NineDigits ==
  ASSUME NEW n \in Nat, n < 1000000000
  PROVE  Digits(n) \in 1..9
<1> DEFINE Has(d) == n < Powers[d] /\ (d = 1 \/ n >= Powers[d - 1])
<1>1. /\ Powers[1] = 10 /\ Powers[2] = 100 /\ Powers[3] = 1000 /\ Powers[4] = 10000 /\ Powers[5] = 100000
      /\ Powers[6] = 1000000 /\ Powers[7] = 10000000 /\ Powers[8] = 100000000 /\ Powers[9] = 1000000000
  BY DEF Powers
<1>2. \/ n < 10 \/ (n >= 10 /\ n < 100) \/ (n >= 100 /\ n < 1000) \/ (n >= 1000 /\ n < 10000)
      \/ (n >= 10000 /\ n < 100000) \/ (n >= 100000 /\ n < 1000000) \/ (n >= 1000000 /\ n < 10000000)
      \/ (n >= 10000000 /\ n < 100000000) \/ (n >= 100000000 /\ n < 1000000000)
  OBVIOUS
<1>3. \E d \in 1..9 : Has(d)
  <2>1. Has(1) \/ Has(2) \/ Has(3) \/ Has(4) \/ Has(5) \/ Has(6) \/ Has(7) \/ Has(8) \/ Has(9)
    BY <1>1, <1>2
  <2> HIDE DEF Has
  <2> QED  BY <2>1
<1> QED  BY <1>3 DEF Digits

\* The marker is no longer than the room that is kept for it.
LEMMA MarkersFit ==
  ASSUME NEW n \in Nat, n < 1000000000
  PROVE  Marker(n) \in Nat /\ Marker(n) <= MarkerSize
<1>1. n \div CharsPerToken \in Nat /\ n \div CharsPerToken < 1000000000
  BY DEF CharsPerToken
<1>2. Digits(n) \in 1..9 /\ Digits(n \div CharsPerToken) \in 1..9
  BY <1>1, NineDigits
<1> QED  BY <1>2 DEF Marker, MarkerSize

IsText(text) ==
  /\ text.chars \in Nat /\ text.width \in Nat \ {0} /\ Bytes(text) \in Nat /\ Bytes(text) < 1000000000

\* What is cut of a text: its size is a number, and within the limit if a
\* character is a byte.
LEMMA PiecesFit ==
  ASSUME NEW text, IsText(text), NEW max \in Nat
  PROVE  /\ TruncateMiddle(text, max).bytes \in Nat
         /\ text.width = 1 => TruncateMiddle(text, max).bytes <= max
         /\ Bytes(text) <= max => TruncateMiddle(text, max) = Whole(text)
<1> DEFINE size == Bytes(text)
           head == (max * 6) \div 10
           tail == Less(max, head + MarkerSize)
           first == Fewer(text.chars, head)
           last == Less(text.chars, size - tail)
<1>1. size \in Nat /\ size < 1000000000 /\ text.chars \in Nat /\ text.width \in Nat
  BY DEF IsText
<1>2. head \in Nat /\ head <= max
  OBVIOUS
<1>3. tail \in Nat /\ tail + head <= max /\ (tail > 0 => tail + head + 60 = max)
  BY <1>2 DEF Less, MarkerSize
<1>4. CASE size <= max
  <2>1. TruncateMiddle(text, max) = Whole(text)
    BY <1>4 DEF TruncateMiddle
  <2>2. Whole(text).bytes = size
    BY DEF Whole, Piece
  <2> QED  BY <1>1, <1>4, <2>1, <2>2
<1>5. CASE size > max /\ tail = 0
  <2> DEFINE n == Fewer(text.chars, max)
  <2>1. TruncateMiddle(text, max) = Piece(n, 0, n * text.width)
    BY <1>1, <1>5 DEF TruncateMiddle
  <2>2. TruncateMiddle(text, max).bytes = n * text.width
    BY <2>1 DEF Piece
  <2>3. n \in Nat /\ n <= max
    BY <1>1 DEF Fewer
  <2> HIDE DEF n
  <2>4. n * text.width \in Nat /\ (text.width = 1 => n * text.width = n)
    BY <1>1, <2>3
  <2> QED  BY <1>1, <1>5, <2>2, <2>3, <2>4
<1>6. CASE size > max /\ tail # 0
  <2> DEFINE omitted == size - head - tail
  <2>1. TruncateMiddle(text, max) = Piece(first, last, (first + last) * text.width + Marker(omitted))
    BY <1>1, <1>6 DEF TruncateMiddle
  <2>2. TruncateMiddle(text, max).bytes = (first + last) * text.width + Marker(omitted)
    BY <2>1 DEF Piece
  <2> HIDE DEF head, tail
  <2>3. omitted \in Nat /\ omitted < 1000000000
    BY <1>1, <1>2, <1>3, <1>6
  <2>4. Marker(omitted) \in Nat /\ Marker(omitted) <= 60
    BY <2>3, MarkersFit DEF MarkerSize
  <2>5. first \in Nat /\ last \in Nat /\ first <= head
    BY <1>1, <1>2, <1>3, <1>6 DEF Fewer, Less
  <2>6. text.width = 1 => last <= tail
    <3>1. text.width = 1 => size = text.chars
      BY <1>1 DEF Bytes
    <3> HIDE DEF size
    <3> QED  BY <1>1, <1>3, <1>6, <3>1 DEF Less
  <2> HIDE DEF first, last, omitted, size
  <2>7. (first + last) * text.width \in Nat /\ (text.width = 1 => (first + last) * text.width = first + last)
    BY <1>1, <2>5
  <2>8. text.width = 1 => first + last + Marker(omitted) <= max
    <3>1. tail \in Nat /\ tail > 0 /\ tail + head + 60 = max /\ head \in Nat
      BY ONLY <1>2, <1>3, <1>6
    <3> QED  BY ONLY <3>1, <2>4, <2>5, <2>6, max \in Nat
  <2> DEFINE rest == (first + last) * text.width
  <2> HIDE DEF rest
  <2>9. /\ rest + Marker(omitted) \in Nat
        /\ text.width = 1 => rest + Marker(omitted) <= max
    <3>1. rest \in Nat /\ (text.width = 1 => rest = first + last)
      BY ONLY <2>7 DEF rest
    <3> QED  BY ONLY <3>1, <2>4, <2>5, <2>8
  <2>10. ~(size <= max)
    BY ONLY <1>1, <1>6, max \in Nat
  <2> QED  BY ONLY <2>2, <2>9, <2>10 DEF rest, size
<1>7. size <= max \/ size > max
  BY <1>1
<1> QED  BY <1>4, <1>5, <1>6, <1>7

Narrow == \A f \in DOMAIN texts : texts[f].width = 1

\* Everything that is taken is no larger than what is left, and was cut for want
\* of room if it was cut.
ContextInv ==
  /\ \A f \in DOMAIN texts : IsText(texts[f])
  /\ left \subseteq DOMAIN texts /\ DOMAIN taken = DOMAIN texts \ left
  /\ used \in Nat /\ ready \in BOOLEAN
  /\ \A f \in DOMAIN taken : taken[f].bytes \in Nat /\ taken[f].bytes <= used
  /\ Narrow => used <= Budget
  /\ \A f \in DOMAIN taken, g \in left : Bytes(texts[f]) <= Bytes(texts[g])
  /\ ready => left = {} \/ Room = 0
  /\ \A f \in DOMAIN taken : ~IsWhole(f) =>
       \/ Bytes(texts[f]) > FileTokens * CharsPerToken
       \/ (used - taken[f].bytes) + Bytes(texts[f]) > Budget

LEMMA ContextInvHolds == ContextSpec => []ContextInv
<1>0. /\ Budget \in Nat /\ FileTokens * CharsPerToken \in Nat
  BY ContextAssumption DEF Budget, CharsPerToken
<1>1. ContextInit => ContextInv
  <2> SUFFICES ASSUME NEW project \in Projects, ContextAt(project) PROVE ContextInv
    BY DEF ContextInit
  <2>1. \A f \in DOMAIN texts : IsText(texts[f])
    <3> SUFFICES ASSUME NEW f \in DOMAIN project PROVE IsText(project[f])
      BY DEF ContextAt
    <3>1. /\ project[f].chars \in Nat /\ project[f].width \in Nat \ {0} /\ Bytes(project[f]) < 1000000000
      BY ContextAssumption
    <3>2. project[f].chars * project[f].width \in Nat
      BY <3>1
    <3>3. Bytes(project[f]) \in Nat
      BY ONLY <3>2 DEF Bytes
    <3> QED  BY ONLY <3>1, <3>3 DEF IsText
  <2>2. /\ left = DOMAIN texts /\ DOMAIN taken = {} /\ used = 0 /\ ready = FALSE
    BY DEF ContextAt
  <2>3. left \subseteq DOMAIN texts /\ DOMAIN taken = DOMAIN texts \ left
    BY ONLY <2>2
  <2>4. ready \in BOOLEAN /\ ~ready
    BY ONLY <2>2
  <2>5. used \in Nat /\ used <= Budget
    BY ONLY <1>0, <2>2
  <2>6. \A f \in DOMAIN taken : FALSE
    BY ONLY <2>2
  <2> QED  BY ONLY <2>1, <2>3, <2>4, <2>5, <2>6, Zenon DEF ContextInv
<1>2. ContextInv /\ [ContextNext]_contextVars => ContextInv'
  <2> SUFFICES ASSUME ContextInv, [ContextNext]_contextVars PROVE ContextInv'
    OBVIOUS
  <2>1. ASSUME NEW f \in left, TakeFile(f) PROVE ContextInv'
    <3> DEFINE piece == TruncateMiddle(texts[f], Limit)
    <3>1. /\ ~ready /\ Room > 0 /\ \A g \in left : Bytes(texts[f]) <= Bytes(texts[g])
          /\ taken' = [g \in DOMAIN taken \cup {f} |-> IF g = f THEN piece ELSE taken[g]]
          /\ used' = used + piece.bytes /\ left' = left \ {f} /\ texts' = texts /\ ready' = ready
      BY <2>1 DEF TakeFile
    <3>2. /\ Room \in Nat /\ Limit \in Nat /\ Limit <= Room /\ (Limit = Room \/ Limit = FileTokens * CharsPerToken)
          /\ Room = Budget - used /\ used \in Nat
      BY <1>0, <3>1 DEF ContextInv, Room, Limit, Less, Fewer
    <3>3. IsText(texts[f]) /\ f \in DOMAIN texts
      BY DEF ContextInv
    <3>4. /\ piece.bytes \in Nat
          /\ texts[f].width = 1 => piece.bytes <= Limit
          /\ Bytes(texts[f]) <= Limit => piece = Whole(texts[f])
      BY <3>2, <3>3, PiecesFit
    <3> HIDE DEF piece
    <3>5. used' \in Nat /\ used' >= used
      BY <3>1, <3>2, <3>4
    <3>6. Narrow' => used' <= Budget
      <4>1. Narrow' => texts[f].width = 1
        BY <3>1, <3>3 DEF Narrow
      <4> QED  BY <1>0, <3>1, <3>2, <3>4, <4>1
    <3>7. DOMAIN taken' = DOMAIN texts \ left'
      BY <3>1, <3>3 DEF ContextInv
    <3>8. ASSUME NEW g \in DOMAIN taken'
          PROVE  \/ g = f /\ taken'[g] = piece
                 \/ g # f /\ g \in DOMAIN taken /\ taken'[g] = taken[g]
      BY <3>1
    <3>9. ASSUME NEW g \in DOMAIN taken' PROVE taken'[g].bytes \in Nat /\ taken'[g].bytes <= used'
      <4>1. CASE g = f
        BY <3>1, <3>2, <3>4, <3>8, <4>1
      <4>2. CASE g # f
        <5>1. taken[g].bytes \in Nat /\ taken[g].bytes <= used /\ taken'[g] = taken[g]
          BY <3>8, <4>2 DEF ContextInv
        <5> QED  BY <3>2, <3>5, <5>1
      <4> QED  BY <4>1, <4>2
    <3>10. \A g \in DOMAIN taken', h \in left' : Bytes(texts[g]) <= Bytes(texts[h])
      BY <3>1, <3>8 DEF ContextInv
    <3>11. ASSUME NEW g \in DOMAIN taken', taken'[g] # Whole(texts[g])
           PROVE  \/ Bytes(texts[g]) > FileTokens * CharsPerToken
                  \/ (used' - taken'[g].bytes) + Bytes(texts[g]) > Budget
      <4>1. CASE g = f
        <5>1. taken'[g] = piece /\ Bytes(texts[f]) \in Nat /\ ~(Bytes(texts[f]) <= Limit)
          BY <3>3, <3>4, <3>8, <3>11, <4>1 DEF IsText
        <5>2. used' - piece.bytes = used
          BY <3>1, <3>2, <3>4
        <5> QED  BY <1>0, <3>2, <4>1, <5>1, <5>2
      <4>2. CASE g # f
        <5>1. /\ taken'[g] = taken[g] /\ g \in DOMAIN taken /\ g \in DOMAIN texts
              /\ taken[g].bytes \in Nat
          BY <3>8, <4>2 DEF ContextInv
        <5>2. \/ Bytes(texts[g]) > FileTokens * CharsPerToken
              \/ (used - taken[g].bytes) + Bytes(texts[g]) > Budget
          BY <3>11, <5>1 DEF ContextInv, IsWhole
        <5>3. Bytes(texts[g]) \in Nat
          BY <5>1 DEF ContextInv, IsText
        <5> QED  BY ONLY <1>0, <3>2, <3>5, <5>1, <5>2, <5>3
      <4> QED  BY <4>1, <4>2
    <3> QED  BY <3>1, <3>5, <3>6, <3>7, <3>9, <3>10, <3>11 DEF ContextInv, IsWhole, Budget
  <2>2. CASE CloseContext
    BY <2>2 DEF CloseContext, ContextInv, Narrow, Room, Budget, IsWhole
  <2>3. CASE UNCHANGED contextVars
    BY <2>3 DEF contextVars, ContextInv, Narrow, Room, Budget, IsWhole
  <2> QED  BY <2>1, <2>2, <2>3 DEF ContextNext
<1> QED  BY <1>1, <1>2, PTL DEF ContextSpec

\* The files of an analysis fit the budget where a character is a byte, the
\* smallest first, none cut without need.
THEOREM ContextsFit == ContextSpec => []NarrowContextFits
<1>1. ContextInv => NarrowContextFits
  <2> SUFFICES ASSUME ContextInv, Narrow PROVE NarrowContextFits
    BY DEF NarrowContextFits, Narrow
  <2>1. Budget \in Nat
    BY ContextAssumption DEF Budget, CharsPerToken
  <2>2. ready => left = {} \/ used = Budget
    BY <2>1 DEF ContextInv, Room, Less
  <2> QED  BY <2>2 DEF ContextInv, NarrowContextFits
<1> QED  BY <1>1, ContextInvHolds, PTL

(***************************************************************************)
(* The configuration (Settings): a file is a sequence of lines, and the    *)
(* commands edit lines by their names.                                     *)
(***************************************************************************)
\* A line has one of these kinds.
LineKinds == {"word", "number", "boolean", "list"}

\* What names and values of a line can be: any text, the ones written here among them.
Written ==
  {"github", "token", "max_repos_per_run", "max_prs_per_day", "llm", "provider", "model", "api_key",
   "base_url", "temperature", "vertex_project", "contribution", "max_files_per_pr", "style",
   "commit_convention", "discovery", "languages", "-", "stars_range", "scheduler", "enabled",
   "multi_model", "strategy", NoText, "20", "15", "gemini", "gemini-3-flash-preview", "0.3", "10",
   "conventional", "python", "rust", StarsRange, "false", "true", "balanced", "vertex", "openai",
   "anthropic", "ollama", "gpt-4o", "claude-3-5-sonnet-20241022", "llama3", "project", "mine", "new",
   "3", "4"}
\* Those are named because the provers know of no text that it is a STRING.
FileTexts == STRING \cup Written
FileLine == [depth : Nat, name : FileTexts, text : FileTexts, kind : LineKinds \cup {"none"}, quoted : BOOLEAN]
\* A file as the commands expect and leave it: what they answer are settings with a value.
IsEditable(file) ==
  /\ file \in Seq(FileLine)
  /\ \A i \in 1..Len(file) : file[i].name \in AnsweredNames => file[i].depth = 1 /\ file[i].kind # "none"

\* The first of some numbers is one of them, and none is less.
LEMMA FirstIsIn ==
  ASSUME NEW S, S \subseteq Nat, S # {}
  PROVE  First(S) \in S /\ \A j \in S : First(S) <= j
<1>1. \E i \in S : \A j \in S : i <= j
  BY Least
<1> QED  BY <1>1 DEF First

\* The greatest of some numbers up to a bound is one of them.
LEMMA MaxIsIn ==
  ASSUME NEW b \in Nat, NEW S, S \subseteq 0..b, S # {}
  PROVE  Max(S) \in S /\ \A j \in S : j <= Max(S)
<1> DEFINE T == {b - x : x \in S}
<1>1. PICK t \in T : \A u \in T : t <= u
  <2>0. \A x \in S : b - x \in Nat
    OBVIOUS
  <2>1. T \subseteq Nat /\ T # {}
    BY <2>0
  <2> HIDE DEF T
  <2> QED  BY <2>1, Least
<1>2. PICK x \in S : t = b - x
  BY <1>1
<1>3. ASSUME NEW y \in S PROVE y <= x /\ x >= y
  <2>1. t <= b - y
    BY <1>1
  <2> QED  BY <1>2, <2>1
<1> QED  BY <1>3 DEF Max

(***************************************************************************)
(* Files with the same sections                                            *)
(***************************************************************************)
\* The names and depths of the lines are the same.
SameLayout(f, g) ==
  /\ f \in Seq(FileLine) /\ g \in Seq(FileLine) /\ Len(g) = Len(f)
  /\ \A i \in 1..Len(f) : g[i].name = f[i].name /\ g[i].depth = f[i].depth

\* Files of one layout have the same sections ...
LEMMA SameSections ==
  ASSUME NEW f, NEW g, SameLayout(f, g)
  PROVE  \A i \in 1..Len(f) : SectionOf(g, i) = SectionOf(f, i)
<1> SUFFICES ASSUME NEW i \in 1..Len(f) PROVE SectionOf(g, i) = SectionOf(f, i)
  OBVIOUS
<1>1. Len(f) \in Nat
  BY LenProperties DEF SameLayout
<1>2. \A j \in 1..i : j \in 1..Len(f)
  BY <1>1
<1>3. Heads(g, i) = Heads(f, i)
  BY <1>2 DEF Heads, SameLayout
<1>4. CASE Heads(f, i) = {}
  BY <1>3, <1>4 DEF SectionOf
<1>5. CASE Heads(f, i) # {}
  <2>1. Heads(f, i) \subseteq 0..i /\ i \in Nat
    BY <1>1 DEF Heads
  <2>2. Max(Heads(f, i)) \in Heads(f, i)
    BY <1>5, <2>1, MaxIsIn
  <2>3. Max(Heads(f, i)) \in 1..Len(f)
    BY <1>2, <2>2 DEF Heads
  <2> QED  BY <1>3, <1>5, <2>3 DEF SectionOf, SameLayout
<1> QED  BY <1>4, <1>5

\* ... and the same lines for a key.
LEMMA SameLines ==
  ASSUME NEW f, NEW g, SameLayout(f, g), NEW key
  PROVE  LinesOf(g, key) = LinesOf(f, key)
<1>1. DOMAIN f = 1..Len(f) /\ DOMAIN g = 1..Len(f) /\ Len(f) \in Nat
  BY LenProperties DEF SameLayout
<1>3. \A i \in 1..Len(f) : (g[i].depth > 0) <=> (f[i].depth > 0)
  BY DEF SameLayout
<1>4. \A i \in 1..Len(f) : SectionOf(g, i) = SectionOf(f, i) /\ g[i].name = f[i].name
  BY SameSections DEF SameLayout
<1> QED  BY <1>1, <1>3, <1>4 DEF LinesOf

\* What is read of a key, and that it is a line of that name.
At(file, key) == {i \in LinesOf(file, key) : file[i].depth = 1}

\* What the lines of a key are, and what its text is.
LEMMA AtIs ==
  ASSUME NEW file \in Seq(FileLine), NEW key
  PROVE  /\ At(file, key) \subseteq LinesOf(file, key)
         /\ LinesOf(file, key) \subseteq 1..Len(file) /\ LinesOf(file, key) \subseteq Nat
         /\ LinesOf(file, key) # {} => First(LinesOf(file, key)) \in LinesOf(file, key)
         /\ At(file, key) # {} => First(At(file, key)) \in At(file, key)
         /\ \A i \in LinesOf(file, key) : file[i].name = key[2] /\ SectionOf(file, i) = key[1]
         /\ TextOf(file, key) = IF At(file, key) = {} THEN FieldOf(key).default ELSE file[First(At(file, key))].text
<1>1. LinesOf(file, key) \subseteq 1..Len(file) /\ Len(file) \in Nat
  BY LenProperties DEF LinesOf
<1>2. LinesOf(file, key) \subseteq Nat /\ At(file, key) \subseteq LinesOf(file, key)
  BY <1>1 DEF At
<1>3. /\ LinesOf(file, key) # {} => First(LinesOf(file, key)) \in LinesOf(file, key)
      /\ At(file, key) # {} => First(At(file, key)) \in At(file, key)
  BY <1>2, FirstIsIn
<1>4. TextOf(file, key) = IF At(file, key) = {} THEN FieldOf(key).default ELSE file[First(At(file, key))].text
  BY DEF TextOf, Setting, At
<1>5. \A i \in LinesOf(file, key) : file[i].name = key[2] /\ SectionOf(file, i) = key[1]
  BY DEF LinesOf
<1> QED  BY <1>1, <1>2, <1>3, <1>4, <1>5

\* Where the deeper lines below a line end.
IsEnd(file, i, e) ==
  /\ e \in (i + 1)..(Len(file) + 1)
  /\ \A j \in (i + 1)..(e - 1) : file[j].depth > file[i].depth
  /\ e <= Len(file) => file[e].depth <= file[i].depth

\* The depth of a line is a number.
LEMMA DepthIsNat ==
  ASSUME NEW file \in Seq(FileLine), NEW i \in 1..Len(file)
  PROVE  file[i].depth \in Nat
<1>1. file[i] \in FileLine
  BY ElementOfSeq
<1> QED  BY <1>1 DEF FileLine

\* What is below a line ends somewhere ...
LEMMA EndExists ==
  ASSUME NEW file \in Seq(FileLine), NEW i \in 1..Len(file)
  PROVE  \E e : IsEnd(file, i, e)
<1>1. Len(file) \in Nat
  BY LenProperties
<1> DEFINE S == {j \in (i + 1)..Len(file) : file[j].depth <= file[i].depth}
<1>2. CASE S = {}
  <2> DEFINE e == Len(file) + 1
  <2>1. e \in (i + 1)..(Len(file) + 1) /\ ~(e <= Len(file))
    BY <1>1
  <2>2. ASSUME NEW j \in (i + 1)..(e - 1) PROVE file[j].depth > file[i].depth
    <3>1. j \in (i + 1)..Len(file) /\ j \in 1..Len(file)
      BY <1>1
    <3>2. ~(file[j].depth <= file[i].depth)
      BY <1>2, <3>1
    <3>3. file[j].depth \in Nat /\ file[i].depth \in Nat
      BY <3>1, DepthIsNat
    <3> QED  BY <3>2, <3>3
  <2> QED  BY <2>1, <2>2 DEF IsEnd
<1>3. CASE S # {}
  <2>1. S \subseteq Nat
    <3>1. \A j \in (i + 1)..Len(file) : j \in Nat
      BY <1>1
    <3> QED  BY <3>1
  <2>2. PICK e \in S : \A k \in S : e <= k
    <3> HIDE DEF S
    <3> QED  BY <1>3, <2>1, Least
  <2>3. e \in (i + 1)..Len(file) /\ file[e].depth <= file[i].depth
    BY <2>2
  <2>4. ASSUME NEW j \in (i + 1)..(e - 1) PROVE file[j].depth > file[i].depth
    <3>1. j \in (i + 1)..Len(file) /\ j \in 1..Len(file) /\ ~(e <= j)
      BY <1>1, <2>3
    <3>2. ~(file[j].depth <= file[i].depth)
      BY <2>2, <3>1
    <3>3. file[j].depth \in Nat /\ file[i].depth \in Nat
      BY <3>1, DepthIsNat
    <3> QED  BY <3>2, <3>3
  <2>5. e \in (i + 1)..(Len(file) + 1)
    BY <1>1, <2>3
  <2> QED  BY <2>3, <2>4, <2>5 DEF IsEnd
<1> QED  BY <1>2, <1>3

\* ... and is what lies between.
LEMMA BelowIs ==
  ASSUME NEW file \in Seq(FileLine), NEW i \in 1..Len(file), NEW e, IsEnd(file, i, e)
  PROVE  Below(file, i) = SubSeq(file, i + 1, e - 1)
<1>1. Len(file) \in Nat
  BY LenProperties
<1> DEFINE S == {j \in (i + 1)..Len(file) : file[j].depth <= file[i].depth}
<1>2. Below(file, i) = SubSeq(file, i + 1, IF S = {} THEN Len(file) ELSE First(S) - 1)
  BY DEF Below
<1>3. \A j \in S : e <= j
  <2> SUFFICES ASSUME NEW j \in S, ~(e <= j) PROVE FALSE
    OBVIOUS
  <2>1. j \in (i + 1)..(e - 1) /\ j \in 1..Len(file) /\ file[j].depth <= file[i].depth
    BY <1>1 DEF IsEnd
  <2>2. file[j].depth > file[i].depth
    BY <2>1 DEF IsEnd
  <2>3. file[j].depth \in Nat /\ file[i].depth \in Nat
    BY <2>1, DepthIsNat
  <2> QED  BY <2>1, <2>2, <2>3
<1>4. S \subseteq Nat
  <2>1. \A j \in (i + 1)..Len(file) : j \in Nat
    BY <1>1
  <2> QED  BY <2>1
<1>5. CASE e <= Len(file)
  <2>1. e \in S /\ e \in Nat
    BY <1>1, <1>5 DEF IsEnd
  <2>2. First(S) = e
    <3> HIDE DEF S
    <3>1. First(S) \in S /\ \A j \in S : First(S) <= j
      BY <1>4, <2>1, FirstIsIn
    <3>2. First(S) <= e /\ e <= First(S) /\ First(S) \in Nat
      BY <1>3, <1>4, <2>1, <3>1
    <3> QED  BY <2>1, <3>2
  <2> QED  BY <1>2, <2>1, <2>2
<1>6. CASE ~(e <= Len(file))
  <2>1. e = Len(file) + 1
    BY <1>1, <1>6 DEF IsEnd
  <2>2. S = {}
    BY <1>1, <1>3, <2>1
  <2>3. e - 1 = Len(file)
    BY <1>1, <2>1
  <2> QED  BY <1>2, <2>2, <2>3
<1> QED  BY <1>5, <1>6

\* Nothing is below a line that a line as high, or the end, follows.
LEMMA BelowIsEmpty ==
  ASSUME NEW file \in Seq(FileLine), NEW i \in 1..Len(file)
  PROVE  Below(file, i) = <<>> <=> (i = Len(file) \/ file[i + 1].depth <= file[i].depth)
<1>1. Len(file) \in Nat
  BY LenProperties
<1>2. PICK e : IsEnd(file, i, e)
  BY EndExists
<1>3. Below(file, i) = SubSeq(file, i + 1, e - 1)
  BY <1>2, BelowIs
<1>4. e \in (i + 1)..(Len(file) + 1) /\ e \in Nat
  BY <1>1, <1>2 DEF IsEnd
<1>5. CASE e = i + 1
  <2>1. e - 1 < i + 1 /\ i + 1 \in Int /\ e - 1 \in Int
    BY <1>5
  <2>2. Below(file, i) = <<>>
    BY <1>3, <2>1, SubSeqEmpty
  <2>3. i = Len(file) \/ file[i + 1].depth <= file[i].depth
    BY <1>1, <1>2, <1>5 DEF IsEnd
  <2> QED  BY <2>2, <2>3
<1>6. CASE e # i + 1
  <2>1. i + 1 \in (i + 1)..(e - 1) /\ i + 1 <= e - 1 /\ i + 1 \in 1..Len(file) /\ i # Len(file)
    BY <1>1, <1>4, <1>6
  <2>2. file[i + 1].depth > file[i].depth
    BY <1>2, <2>1 DEF IsEnd
  <2>3. file[i + 1].depth \in Nat /\ file[i].depth \in Nat
    BY <2>1, DepthIsNat
  <2>4. i + 1 \in Int /\ e - 1 \in Int /\ \A k \in (i + 1)..(e - 1) : file[k] \in FileLine
    <3>1. \A k \in (i + 1)..(e - 1) : k \in 1..Len(file)
      BY <1>1, <1>4
    <3>2. \A k \in 1..Len(file) : file[k] \in FileLine
      BY ElementOfSeq
    <3> QED  BY <1>4, <3>1, <3>2
  <2>5. Len(SubSeq(file, i + 1, e - 1)) = (e - 1) - (i + 1) + 1
    BY <2>1, <2>4, SubSeqProperties
  <2>6. (e - 1) - (i + 1) + 1 # 0
    BY <2>1, <1>4
  <2>7. Below(file, i) # <<>>
    BY <1>3, <2>5, <2>6, EmptySeq
  <2> QED  BY <2>1, <2>2, <2>3, <2>7
<1> QED  BY <1>5, <1>6

\* The same lines below, d lines further down.
LEMMA SameBelow ==
  ASSUME NEW f \in Seq(FileLine), NEW g \in Seq(FileLine), NEW i \in 1..Len(f), NEW d \in Nat,
         NEW e, IsEnd(f, i, e), IsEnd(g, i + d, e + d), i + d \in 1..Len(g),
         \A k \in (i + 1)..(e - 1) : g[k + d] = f[k]
  PROVE  Below(g, i + d) = Below(f, i)
<1>1. Len(f) \in Nat /\ Len(g) \in Nat
  BY LenProperties
<1>2. e \in (i + 1)..(Len(f) + 1) /\ e \in Nat
  BY <1>1 DEF IsEnd
<1>3. e + d \in (i + d + 1)..(Len(g) + 1)
  BY <1>1 DEF IsEnd
<1> DEFINE a == i + 1   z == e - 1   b == i + d + 1   y == (e + d) - 1
           s == SubSeq(f, a, z)   t == SubSeq(g, b, y)
<1>4. Below(f, i) = s /\ Below(g, i + d) = t
  <2>1. Below(f, i) = s
    BY BelowIs
  <2>2. Below(g, i + d) = SubSeq(g, (i + d) + 1, (e + d) - 1)
    BY BelowIs
  <2> QED  BY <2>1, <2>2
<1>5. /\ a \in Int /\ z \in Int /\ b \in Int /\ y \in Int /\ z - a + 1 = y - b + 1 /\ z - a + 1 \in Nat
      /\ (a <= z <=> b <= y)
      /\ b = a + d
      /\ \A k \in a..z : k \in 1..Len(f)
      /\ \A k \in b..y : k \in 1..Len(g)
      /\ \A k \in 1..(z - a + 1) : a + k - 1 \in a..z /\ a + k - 1 + d = b + k - 1
      /\ z < a => z - a + 1 = 0
  BY <1>1, <1>2, <1>3
<1>6. (\A k \in a..z : f[k] \in FileLine) /\ (\A k \in b..y : g[k] \in FileLine)
  BY <1>5, ElementOfSeq
<1>7. \A k \in a..z : g[k + d] = f[k]
  OBVIOUS
<1> HIDE DEF a, b, y, z
<1>8. /\ s \in Seq(FileLine) /\ Len(s) = IF a <= z THEN z - a + 1 ELSE 0
      /\ \A k \in 1..(z - a + 1) : s[k] = f[a + k - 1]
  <2>1. a \in Int /\ z \in Int
    BY <1>5
  <2>2. \A k \in a..z : f[k] \in FileLine
    BY <1>6
  <2> QED  BY ONLY <2>1, <2>2, SubSeqProperties
<1>9. /\ t \in Seq(FileLine) /\ Len(t) = IF b <= y THEN y - b + 1 ELSE 0
      /\ \A k \in 1..(y - b + 1) : t[k] = g[b + k - 1]
  <2>1. b \in Int /\ y \in Int
    BY <1>5
  <2>2. \A k \in b..y : g[k] \in FileLine
    BY <1>6
  <2> QED  BY ONLY <2>1, <2>2, SubSeqProperties
<1>10. Len(s) = Len(t)
  BY <1>5, <1>8, <1>9
<1>11. ASSUME NEW k \in 1..Len(s) PROVE s[k] = t[k]
  <2>1. k \in 1..(z - a + 1)
    BY <1>5, <1>8
  <2> QED  BY <1>5, <1>7, <1>8, <1>9, <2>1
<1>12. s = t
  <2> HIDE DEF s, t
  <2> QED  BY <1>8, <1>9, <1>10, <1>11, SeqEqual
<1> QED  BY <1>4, <1>12

\* The lines below a line are the same if the layout is and they are not of depth 1.
LEMMA BelowStays ==
  ASSUME NEW f, NEW g, SameLayout(f, g), NEW i \in 1..Len(f), f[i].depth = 1,
         \A j \in 1..Len(f) : f[j].depth > 1 => g[j] = f[j]
  PROVE  Below(g, i) = Below(f, i)
<1>1. f \in Seq(FileLine) /\ g \in Seq(FileLine) /\ Len(f) \in Nat /\ Len(g) = Len(f) /\ i \in Nat
  BY LenProperties DEF SameLayout
<1>2. PICK e : IsEnd(f, i, e)
  BY <1>1, EndExists
<1>3. e \in Nat /\ e \in (i + 1)..(Len(f) + 1)
  BY <1>1, <1>2 DEF IsEnd
<1>4. \A k \in (i + 1)..(e - 1) : k \in 1..Len(f)
  BY <1>1, <1>3
<1>5. e <= Len(f) => e \in 1..Len(f)
  BY <1>1, <1>3
<1>6. \A k \in 1..Len(f) : g[k].depth = f[k].depth
  BY DEF SameLayout
<1>7. IsEnd(g, i, e)
  BY <1>1, <1>2, <1>4, <1>5, <1>6 DEF IsEnd
<1>8. \A k \in (i + 1)..(e - 1) : g[k] = f[k]
  BY <1>2, <1>4 DEF IsEnd
<1>9. Below(f, i) = SubSeq(f, i + 1, e - 1) /\ Below(g, i) = SubSeq(g, i + 1, e - 1)
  BY <1>1, <1>2, <1>7, BelowIs
<1>10. i + 0 = i /\ e + 0 = e /\ \A k \in (i + 1)..(e - 1) : k + 0 = k
  BY <1>1, <1>3
<1>11. IsEnd(g, i + 0, e + 0) /\ i + 0 \in 1..Len(g) /\ \A k \in (i + 1)..(e - 1) : g[k + 0] = f[k]
  BY <1>1, <1>7, <1>8, <1>10
<1>12. 0 \in Nat
  OBVIOUS
<1>13. Below(g, i + 0) = Below(f, i)
  BY <1>1, <1>2, <1>11, <1>12, SameBelow
<1> QED  BY <1>10, <1>13

\* A setting whose lines stay is read as before.
LEMMA SettingStays ==
  ASSUME NEW f, NEW g, SameLayout(f, g), NEW key,
         \A j \in 1..Len(f) : f[j].depth > 1 => g[j] = f[j],
         \A j \in At(f, key) : g[j] = f[j]
  PROVE  Setting(g, key) = Setting(f, key)
<1>1. LinesOf(g, key) = LinesOf(f, key)
  BY SameLines
<1>2. f \in Seq(FileLine) /\ \A j \in LinesOf(f, key) : j \in 1..Len(f)
  BY AtIs DEF SameLayout
<1>3. At(g, key) = At(f, key)
  BY <1>1, <1>2 DEF At, SameLayout
<1>4. CASE At(f, key) = {}
  BY <1>3, <1>4 DEF Setting, At
<1>5. CASE At(f, key) # {}
  <2>1. First(At(f, key)) \in At(f, key)
    BY <1>2, <1>5, AtIs
  <2>2. First(At(f, key)) \in 1..Len(f) /\ f[First(At(f, key))].depth = 1
    BY <1>2, <2>1 DEF At
  <2>3. Below(g, First(At(f, key))) = Below(f, First(At(f, key)))
    BY <2>2, BelowStays
  <2>4. g[First(At(f, key))] = f[First(At(f, key))]
    BY <2>1
  <2>5. /\ Setting(f, key) = [text |-> f[First(At(f, key))].text, items |-> Below(f, First(At(f, key)))]
        /\ Setting(g, key) = [text |-> g[First(At(g, key))].text, items |-> Below(g, First(At(g, key)))]
    BY <1>3, <1>5 DEF Setting, At
  <2> QED  BY <1>3, <2>3, <2>4, <2>5
<1> QED  BY <1>4, <1>5

\* The value of a key is the one that its first line shows, and is read.
Holds(file, key, text) ==
  /\ LinesOf(file, key) # {}
  /\ file[First(LinesOf(file, key))].depth = 1
  /\ file[First(LinesOf(file, key))].text = text

\* A text that a key holds is the one that is read.
LEMMA HoldsIsRead ==
  ASSUME NEW file \in Seq(FileLine), NEW key, NEW text, Holds(file, key, text)
  PROVE  TextOf(file, key) = text /\ ExtractYamlValue(file, key) = text
<1> DEFINE a == First(LinesOf(file, key))
<1>1. a \in At(file, key) /\ LinesOf(file, key) \subseteq Nat /\ At(file, key) \subseteq LinesOf(file, key)
  BY AtIs DEF Holds, At
<1>2. \A i \in LinesOf(file, key) : a <= i
  BY <1>1, FirstIsIn DEF Holds
<1>3. First(At(file, key)) = a
  <2>1. First(At(file, key)) \in At(file, key) /\ First(At(file, key)) <= a
    <3>1. At(file, key) \subseteq Nat /\ At(file, key) # {}
      BY <1>1
    <3> HIDE DEF a
    <3> QED  BY <1>1, <3>1, FirstIsIn
  <2>2. a <= First(At(file, key)) /\ a \in Nat /\ First(At(file, key)) \in Nat
    BY <1>1, <1>2, <2>1
  <2> QED  BY <2>1, <2>2
<1>4. TextOf(file, key) = file[a].text
  BY <1>1, <1>3, AtIs
<1> QED  BY <1>4 DEF Holds, ExtractYamlValue

\* A text is held as long as the lines of its key stay.
LEMMA HoldsStays ==
  ASSUME NEW f, NEW g, SameLayout(f, g), NEW key, NEW text, Holds(f, key, text),
         \A j \in At(f, key) : g[j] = f[j]
  PROVE  Holds(g, key, text)
<1>1. LinesOf(g, key) = LinesOf(f, key)
  BY SameLines
<1>2. First(LinesOf(f, key)) \in At(f, key)
  BY AtIs DEF Holds, At, SameLayout
<1>3. g[First(LinesOf(f, key))] = f[First(LinesOf(f, key))]
  BY <1>2
<1> QED  BY <1>1, <1>3 DEF Holds

(***************************************************************************)
(* `config set'                                                            *)
(***************************************************************************)
\* A value replaced: the layout stays, and all lines but the first of the key.
LEMMA ReplaceIs ==
  ASSUME NEW f \in Seq(FileLine), NEW key, NEW value, value.text \in FileTexts, value.kind \in LineKinds,
         LinesOf(f, key) # {}, NEW g, g = ReplaceYamlValue(f, key, value), NEW a, a = First(LinesOf(f, key))
  PROVE  /\ SameLayout(f, g) /\ a \in 1..Len(f) /\ a \in LinesOf(f, key)
         /\ \A i \in 1..Len(f) : i # a => g[i] = f[i]
         /\ g[a].text = value.text /\ g[a].kind = value.kind /\ g[a].quoted = (value.kind = "word")
<1>1. a \in 1..Len(f) /\ a \in LinesOf(f, key)
  BY AtIs
<1> DEFINE line == FormatYamlValue(f[a], value)
<1>2. f[a] \in FileLine
  BY <1>1, ElementOfSeq
<1>3. /\ line.depth = f[a].depth /\ line.name = f[a].name /\ line.text = value.text
      /\ line.kind = value.kind /\ line.quoted = (value.kind = "word") /\ line \in FileLine
  <2> DEFINE l == f[a]
             q == (value.kind = "word")
             new == [l EXCEPT !.text = value.text, !.kind = value.kind, !.quoted = q]
  <2>1. l \in FileLine
    BY <1>2
  <2>2. value.kind \in LineKinds \cup {"none"}
    OBVIOUS
  <2>3. q \in BOOLEAN
    BY Zenon
  <2>4. line = new
    BY DEF FormatYamlValue
  <2> HIDE DEF l, q
  <2>5. /\ new.depth = l.depth /\ new.name = l.name /\ new.text = value.text
        /\ new.kind = value.kind /\ new.quoted = q
    BY <2>1 DEF FileLine
  <2>6. new \in FileLine
    BY <2>1, <2>2, <2>3 DEF FileLine
  <2> HIDE DEF new, line
  <2> QED  BY <2>4, <2>5, <2>6 DEF l, q
<1>5. g = [f EXCEPT ![a] = line]
  BY DEF ReplaceYamlValue
<1> HIDE DEF line
<1>6. /\ g \in Seq(FileLine) /\ Len(g) = Len(f)
      /\ \A i \in 1..Len(f) : g[i] = IF i = a THEN line ELSE f[i]
  BY <1>1, <1>3, <1>5, ExceptSeq
<1>7. g[a] = line
  BY <1>1, <1>6
<1>8. line.depth = f[a].depth /\ line.name = f[a].name
  BY <1>3
<1>9. SameLayout(f, g)
  BY <1>6, <1>8 DEF SameLayout
<1>10. g[a].text = value.text /\ g[a].kind = value.kind /\ g[a].quoted = (value.kind = "word")
  BY <1>3, <1>7
<1> QED  BY <1>1, <1>6, <1>9, <1>10

\* A file stays editable.
LEMMA ReplaceIsEditable ==
  ASSUME NEW f, IsEditable(f), NEW key, NEW value, value.text \in FileTexts, value.kind \in LineKinds,
         LinesOf(f, key) # {}, NEW g, g = ReplaceYamlValue(f, key, value)
  PROVE  IsEditable(g)
<1> DEFINE a == First(LinesOf(f, key))
<1>1. f \in Seq(FileLine)
  BY DEF IsEditable
<1>2. /\ SameLayout(f, g)
      /\ \A i \in 1..Len(f) : i # a => g[i] = f[i]
      /\ g[a].kind = value.kind
  BY <1>1, ReplaceIs
<1>3. value.kind # "none"
  BY DEF LineKinds
<1> QED  BY <1>2, <1>3 DEF IsEditable, SameLayout

\* A line is of one key.
LEMMA OneKey ==
  ASSUME NEW file, NEW key, NEW other, key = <<key[1], key[2]>>, other = <<other[1], other[2]>>,
         NEW i \in LinesOf(file, key), i \in LinesOf(file, other)
  PROVE  key = other
<1>1. key[2] = other[2] /\ key[1] = other[1]
  BY DEF LinesOf
<1> QED  BY <1>1

(***************************************************************************)
(* The schema                                                              *)
(***************************************************************************)
\* The types of fields.
Types == {"text", "number", "boolean", "list"}

\* The fields of a section that the wizard and the menu answer, and those that are numbers.
FieldsAre(fields, answered, numbers) ==
  \A n \in DOMAIN fields :
    /\ fields[n].type \in Types
    /\ n \in AnsweredNames => n \in answered \cup numbers
    /\ n \in answered => fields[n].type = "text"
    /\ n \in numbers => fields[n].type = "number"

\* The sections of the configuration (config.rs:65-104).
LEMMA SectionsAre ==
  /\ DOMAIN Schema = {"github", "llm", "analysis", "contribution", "discovery", "pipeline", "storage", "multi_model",
                      "scheduler", "quotas", "notifications", "sandbox", "web", "run", "enterprise"}
  /\ Schema["github"] = GitHubFields
  /\ Schema["llm"] = LlmFields
  /\ Schema["analysis"] = AnalysisFields
  /\ Schema["contribution"] = ContributionFields
  /\ Schema["discovery"] = DiscoveryFields
  /\ Schema["pipeline"] = PipelineFields
  /\ Schema["storage"] = StorageFields
  /\ Schema["multi_model"] = MultiModelFields
  /\ Schema["scheduler"] = SchedulerFields
  /\ Schema["quotas"] = QuotaFields
  /\ Schema["notifications"] = NotificationFields
  /\ Schema["sandbox"] = SandboxFields
  /\ Schema["web"] = WebFields
  /\ Schema["run"] = RunFields
  /\ Schema["enterprise"] = EnterpriseFields
  BY DEF Schema

\* Which of their fields the wizard and the menu answer.
LEMMA SchemaIs ==
  /\ FieldsAre(Schema["github"], {"token"}, {"max_prs_per_day"})
  /\ FieldsAre(Schema["llm"], {"provider", "model", "api_key", "base_url", "vertex_project"}, {})
  /\ FieldsAre(Schema["pipeline"], {}, {"max_repos_per_run"})
  /\ \A s \in DOMAIN Schema : s \notin {"github", "llm", "pipeline"} => FieldsAre(Schema[s], {}, {})
<1>1. FieldsAre(GitHubFields, {"token"}, {"max_prs_per_day"})
  BY DEF FieldsAre, AnsweredNames, Types, Text, Number, Flag, List, GitHubFields
<1>2. FieldsAre(LlmFields, {"provider", "model", "api_key", "base_url", "vertex_project"}, {})
  BY DEF FieldsAre, AnsweredNames, Types, Text, Number, Flag, List, LlmFields
<1>3. FieldsAre(AnalysisFields, {}, {})
  BY DEF FieldsAre, AnsweredNames, Types, Text, Number, Flag, List, AnalysisFields
<1>4. FieldsAre(ContributionFields, {}, {})
  BY DEF FieldsAre, AnsweredNames, Types, Text, Number, Flag, List, ContributionFields
<1>5. FieldsAre(DiscoveryFields, {}, {})
  BY DEF FieldsAre, AnsweredNames, Types, Text, Number, Flag, List, DiscoveryFields
<1>6. FieldsAre(PipelineFields, {}, {"max_repos_per_run"})
  BY DEF FieldsAre, AnsweredNames, Types, Text, Number, Flag, List, PipelineFields
<1>7. FieldsAre(StorageFields, {}, {})
  BY DEF FieldsAre, AnsweredNames, Types, Text, Number, Flag, List, StorageFields
<1>8. FieldsAre(MultiModelFields, {}, {})
  BY DEF FieldsAre, AnsweredNames, Types, Text, Number, Flag, List, MultiModelFields
<1>9. FieldsAre(SchedulerFields, {}, {})
  BY DEF FieldsAre, AnsweredNames, Types, Text, Number, Flag, List, SchedulerFields
<1>10. FieldsAre(QuotaFields, {}, {})
  BY DEF FieldsAre, AnsweredNames, Types, Text, Number, Flag, List, QuotaFields
<1>11. FieldsAre(NotificationFields, {}, {})
  BY DEF FieldsAre, AnsweredNames, Types, Text, Number, Flag, List, NotificationFields
<1>12. FieldsAre(SandboxFields, {}, {})
  BY DEF FieldsAre, AnsweredNames, Types, Text, Number, Flag, List, SandboxFields
<1>13. FieldsAre(WebFields, {}, {})
  BY DEF FieldsAre, AnsweredNames, Types, Text, Number, Flag, List, WebFields
<1>14. FieldsAre(RunFields, {}, {})
  BY DEF FieldsAre, AnsweredNames, Types, Text, Number, Flag, List, RunFields
<1>15. FieldsAre(EnterpriseFields, {}, {})
  BY DEF FieldsAre, AnsweredNames, Types, Text, Number, Flag, List, EnterpriseFields
<1> QED  BY <1>1, <1>2, <1>3, <1>4, <1>5, <1>6, <1>7, <1>8, <1>9, <1>10, <1>11, <1>12, <1>13, <1>14, <1>15, SectionsAre

\* A setting that is answered is one of these.
LEMMA FieldIs ==
  ASSUME NEW key, IsSetting(key)
  PROVE  /\ FieldOf(key).type \in Types
         /\ key[2] \in AnsweredNames =>
              \/ key[1] = "github" /\ key[2] = "token" /\ FieldOf(key).type = "text"
              \/ key[1] = "github" /\ key[2] = "max_prs_per_day" /\ FieldOf(key).type = "number"
              \/ /\ key[1] = "llm" /\ key[2] \in {"provider", "model", "api_key", "base_url", "vertex_project"}
                 /\ FieldOf(key).type = "text"
              \/ key[1] = "pipeline" /\ key[2] = "max_repos_per_run" /\ FieldOf(key).type = "number"
  BY SchemaIs DEF FieldsAre, IsSetting, FieldOf

\* A file still loads if the lines that differ have nothing below them and fit.
LEMMA FromYamlStays ==
  ASSUME NEW f, NEW g, SameLayout(f, g), FromYaml(f),
         \A i \in 1..Len(f) :
           \/ g[i] = f[i]
           \/ /\ f[i].depth = 1 /\ Below(f, i) = <<>>
              /\ IsSetting(<<SectionOf(f, i), f[i].name>>) =>
                   Fits(FieldOf(<<SectionOf(f, i), f[i].name>>).type, g, i)
  PROVE  FromYaml(g)
<1>1. f \in Seq(FileLine) /\ g \in Seq(FileLine) /\ Len(f) \in Nat /\ Len(g) = Len(f)
      /\ DOMAIN f = 1..Len(f) /\ DOMAIN g = 1..Len(f)
  BY LenProperties DEF SameLayout
<1>2. \A i \in 1..Len(f) : SectionOf(g, i) = SectionOf(f, i) /\ g[i].name = f[i].name /\ g[i].depth = f[i].depth
  BY SameSections DEF SameLayout
<1>3. ASSUME NEW i \in 1..Len(f) PROVE Below(g, i) = <<>> <=> Below(f, i) = <<>>
  <2>1. Below(f, i) = <<>> <=> (i = Len(f) \/ f[i + 1].depth <= f[i].depth)
    BY <1>1, BelowIsEmpty
  <2>2. i \in 1..Len(g)
    BY <1>1
  <2>3. Below(g, i) = <<>> <=> (i = Len(g) \/ g[i + 1].depth <= g[i].depth)
    BY <1>1, <2>2, BelowIsEmpty
  <2>4. i # Len(f) => i + 1 \in 1..Len(f)
    <3> DEFINE n == Len(f)
    <3>1. n \in Nat /\ i \in 1..n
      BY <1>1
    <3> HIDE DEF n
    <3>2. i # n => i + 1 \in 1..n
      BY ONLY <3>1
    <3> QED  BY <3>2 DEF n
  <2> QED  BY <1>1, <1>2, <2>1, <2>3, <2>4
<1>4. \A j \in 1..Len(f) : f[j].depth > 1 => g[j] = f[j]
  <2> SUFFICES ASSUME NEW j \in 1..Len(f), f[j].depth > 1 PROVE f[j].depth # 1
    OBVIOUS
  <2>1. f[j].depth \in Nat
    BY <1>1, DepthIsNat
  <2> QED  BY <2>1
<1> SUFFICES ASSUME NEW i \in 1..Len(f)
             PROVE  /\ g[i].kind # "none" => Below(g, i) = <<>>
                    /\ (g[i].depth = 1 /\ IsSetting(<<SectionOf(g, i), g[i].name>>)) =>
                         Fits(FieldOf(<<SectionOf(g, i), g[i].name>>).type, g, i)
  BY <1>1 DEF FromYaml
<1>5. CASE g[i] = f[i]
  <2>1. g[i].kind # "none" => Below(g, i) = <<>>
    BY <1>1, <1>3, <1>5 DEF FromYaml
  <2>2. ASSUME g[i].depth = 1, IsSetting(<<SectionOf(g, i), g[i].name>>)
        PROVE  Fits(FieldOf(<<SectionOf(g, i), g[i].name>>).type, g, i)
    <3>1. f[i].depth = 1 /\ <<SectionOf(g, i), g[i].name>> = <<SectionOf(f, i), f[i].name>>
      BY <1>2, <2>2
    <3>2. Below(g, i) = Below(f, i)
      BY <1>4, <3>1, BelowStays
    <3> DEFINE type == FieldOf(<<SectionOf(f, i), f[i].name>>).type
    <3>3. Fits(type, f, i)
      BY <1>1, <2>2, <3>1 DEF FromYaml
    <3> HIDE DEF type
    <3>4. Fits(type, g, i)
      BY <1>5, <3>2, <3>3 DEF Fits
    <3> QED  BY <3>1, <3>4 DEF type
  <2> QED  BY <2>1, <2>2
<1>6. CASE g[i] # f[i]
  <2>1. Below(g, i) = <<>>
    BY <1>3, <1>6
  <2>2. <<SectionOf(g, i), g[i].name>> = <<SectionOf(f, i), f[i].name>>
    BY <1>2
  <2> QED  BY <1>6, <2>1, <2>2
<1> QED  BY <1>5, <1>6

(***************************************************************************)
(* Answers written anew                                                    *)
(***************************************************************************)
\* The answers that are numbers, and the line written for an answer.
Numbers == {"max_prs_per_day", "max_repos_per_run"}
Renewal(name, text) == IF name \in Numbers THEN Bare(name, text, "number") ELSE Words(name, text)

\* Every line with the name of an answer is written anew.
Renewed(f, g, said) ==
  /\ g \in Seq(FileLine) /\ Len(g) = Len(f)
  /\ \A i \in 1..Len(f) :
       g[i] = IF f[i].name \in DOMAIN said THEN Renewal(f[i].name, said[f[i].name]) ELSE f[i]

\* What is said, to lines that are answered.
AreAnswers(said) == DOMAIN said \subseteq AnsweredNames /\ \A n \in DOMAIN said : said[n] \in FileTexts

\* Answers written over lines keep the layout, and leave what is deeper.
LEMMA RenewedKeepsLayout ==
  ASSUME NEW f, IsEditable(f), NEW said, AreAnswers(said), NEW g, Renewed(f, g, said)
  PROVE  /\ SameLayout(f, g) /\ IsEditable(g)
         /\ \A j \in 1..Len(f) : f[j].depth > 1 => g[j] = f[j]
<1>1. f \in Seq(FileLine) /\ g \in Seq(FileLine) /\ Len(g) = Len(f)
  BY DEF IsEditable, Renewed
<1>2. ASSUME NEW i \in 1..Len(f)
      PROVE  /\ g[i].name = f[i].name /\ g[i].depth = f[i].depth
             /\ g[i].name \in AnsweredNames => g[i].kind # "none"
             /\ f[i].depth > 1 => g[i] = f[i]
  <2>1. CASE f[i].name \in DOMAIN said
    <3>1. f[i].depth = 1 /\ ~(f[i].depth > 1)
      BY <2>1 DEF AreAnswers, IsEditable
    <3>2. g[i] = Renewal(f[i].name, said[f[i].name])
      BY <2>1 DEF Renewed
    <3> QED  BY <3>1, <3>2 DEF Renewal, Bare, Words
  <2>2. CASE f[i].name \notin DOMAIN said
    <3>1. g[i] = f[i]
      BY <2>2 DEF Renewed
    <3> QED  BY <3>1 DEF IsEditable
  <2> QED  BY <2>1, <2>2
<1>3. SameLayout(f, g)
  BY <1>1, <1>2 DEF SameLayout
<1>4. IsEditable(g)
  <2> SUFFICES ASSUME NEW i \in 1..Len(g), g[i].name \in AnsweredNames PROVE g[i].depth = 1 /\ g[i].kind # "none"
    BY <1>1 DEF IsEditable
  <2>1. i \in 1..Len(f) /\ f[i].name \in AnsweredNames
    BY <1>1, <1>2
  <2>2. f[i].depth = 1
    BY <2>1 DEF IsEditable
  <2> QED  BY <1>2, <2>1, <2>2
<1> QED  BY <1>2, <1>3, <1>4

\* A setting that was answered holds the answer, every other is read as before.
LEMMA RenewedSettings ==
  ASSUME NEW f, IsEditable(f), NEW said, AreAnswers(said), NEW g, Renewed(f, g, said), NEW key
  PROVE  /\ key[2] \in DOMAIN said /\ LinesOf(g, key) # {} => Holds(g, key, said[key[2]])
         /\ key[2] \notin DOMAIN said =>
              /\ Setting(g, key) = Setting(f, key)
              /\ \A text : Holds(f, key, text) => Holds(g, key, text)
         /\ LinesOf(g, key) = LinesOf(f, key)
<1>1. SameLayout(f, g) /\ \A j \in 1..Len(f) : f[j].depth > 1 => g[j] = f[j]
  BY RenewedKeepsLayout
<1>2. f \in Seq(FileLine) /\ g \in Seq(FileLine)
  BY <1>1 DEF SameLayout
<1>3. LinesOf(g, key) = LinesOf(f, key)
  BY <1>1, SameLines
<1>4. ASSUME key[2] \in DOMAIN said, LinesOf(g, key) # {} PROVE Holds(g, key, said[key[2]])
  <2> DEFINE a == First(LinesOf(g, key))
  <2>1. a \in LinesOf(f, key) /\ a \in 1..Len(f) /\ f[a].name = key[2]
    BY <1>2, <1>3, <1>4, AtIs
  <2>2. g[a] = Renewal(key[2], said[key[2]])
    BY <1>4, <2>1 DEF Renewed
  <2> HIDE DEF a
  <2>3. g[a].depth = 1 /\ g[a].text = said[key[2]]
    BY <2>2 DEF Renewal, Bare, Words
  <2> QED  BY <1>4, <2>3 DEF Holds, a
<1>5. ASSUME key[2] \notin DOMAIN said
      PROVE  /\ Setting(g, key) = Setting(f, key)
             /\ \A text : Holds(f, key, text) => Holds(g, key, text)
  <2>1. ASSUME NEW j \in At(f, key) PROVE g[j] = f[j]
    <3>1. j \in 1..Len(f) /\ f[j].name = key[2]
      BY <1>2, AtIs
    <3> QED  BY <1>5, <3>1 DEF Renewed
  <2>2. Setting(g, key) = Setting(f, key)
    BY <1>1, <2>1, SettingStays
  <2>3. \A text : Holds(f, key, text) => Holds(g, key, text)
    BY <1>1, <2>1, HoldsStays
  <2> QED  BY <2>2, <2>3
<1> QED  BY <1>3, <1>4, <1>5

\* The file still loads: a limit is a number, the other answers are texts.
LEMMA RenewedLoads ==
  ASSUME NEW f, IsEditable(f), NEW said, AreAnswers(said), NEW g, Renewed(f, g, said), FromYaml(f)
  PROVE  FromYaml(g)
<1>1. SameLayout(f, g)
  BY RenewedKeepsLayout
<1>2. f \in Seq(FileLine) /\ DOMAIN f = 1..Len(f)
  BY <1>1, LenProperties DEF SameLayout
<1>3. ASSUME NEW i \in 1..Len(f), g[i] # f[i]
      PROVE  /\ f[i].depth = 1 /\ Below(f, i) = <<>>
             /\ IsSetting(<<SectionOf(f, i), f[i].name>>) =>
                  Fits(FieldOf(<<SectionOf(f, i), f[i].name>>).type, g, i)
  <2>1. f[i].name \in DOMAIN said /\ g[i] = Renewal(f[i].name, said[f[i].name])
    BY <1>3 DEF Renewed
  <2>2. f[i].name \in AnsweredNames /\ f[i].depth = 1 /\ f[i].kind # "none"
    BY <2>1 DEF AreAnswers, IsEditable
  <2>3. Below(f, i) = <<>>
    BY <1>2, <2>2 DEF FromYaml
  <2>4. ASSUME IsSetting(<<SectionOf(f, i), f[i].name>>)
        PROVE  Fits(FieldOf(<<SectionOf(f, i), f[i].name>>).type, g, i)
    <3> DEFINE key == <<SectionOf(f, i), f[i].name>>
               n == f[i].name
    <3>1. key[2] = n
      OBVIOUS
    <3> HIDE DEF key
    <3>2. \/ FieldOf(key).type = "text" /\ n \notin Numbers
          \/ FieldOf(key).type = "number" /\ n \in Numbers
      BY <2>2, <2>4, <3>1, FieldIs DEF key, Numbers
    <3> HIDE DEF n
    <3>3. /\ n \in Numbers => g[i].kind = "number" /\ g[i].quoted = FALSE
          /\ n \notin Numbers => g[i].kind = "word"
      BY <2>1 DEF n, Renewal, Bare, Words
    <3>4. Fits(FieldOf(key).type, g, i)
      BY <3>2, <3>3 DEF Fits
    <3> QED  BY <3>4 DEF key
  <2> QED  BY <2>2, <2>3, <2>4
<1> QED  BY <1>1, <1>3, FromYamlStays

\* A sequence given line by line.
LEMMA LineByLine ==
  ASSUME NEW n \in Nat, NEW g, g \in [1..n -> FileLine]
  PROVE  g \in Seq(FileLine) /\ Len(g) = n
<1>1. g \in Seq(FileLine)
  BY SeqDef
<1>2. Len(g) = n
  <2>1. DOMAIN g = 1..n /\ DOMAIN g = 1..Len(g) /\ Len(g) \in Nat
    BY <1>1, LenProperties
  <2> DEFINE m == Len(g)
  <2>2. 1..n = 1..m /\ m \in Nat
    BY <2>1
  <2> HIDE DEF m
  <2>3. n <= m
    <3>1. n = 0 \/ n \in 1..m
      BY <2>2
    <3> QED  BY <2>2, <3>1
  <2>4. m <= n
    <3>1. m = 0 \/ m \in 1..n
      BY <2>2
    <3> QED  BY <2>2, <3>1
  <2>5. m = n
    BY <2>2, <2>3, <2>4
  <2> QED  BY <2>5 DEF m
<1> QED  BY <1>1, <1>2

\* The lines written are lines of a file.
LEMMA WordsAreLines ==
  ASSUME NEW name \in FileTexts, NEW text \in FileTexts
  PROVE  Words(name, text) \in FileLine /\ Bare(name, text, "number") \in FileLine
<1>1. TRUE \in BOOLEAN /\ FALSE \in BOOLEAN
  BY Zenon
<1>2. {"word", "number"} \subseteq LineKinds \cup {"none"}
  BY DEF LineKinds
<1> QED  BY <1>1, <1>2 DEF Words, Bare, FileLine

\* The names answered are names of lines.
LEMMA AnsweredAreTexts == AnsweredNames \subseteq FileTexts
  BY DEF AnsweredNames, FileTexts, Written

\* Rewritten writes the answers over the lines that have their names.
LEMMA RewrittenIs ==
  ASSUME NEW f, IsEditable(f), NEW said, AreAnswers(said), DOMAIN said \cap Numbers = {}
  PROVE  Renewed(f, Rewritten(f, said), said)
<1> DEFINE g == Rewritten(f, said)
<1>1. f \in Seq(FileLine) /\ DOMAIN f = 1..Len(f) /\ Len(f) \in Nat /\ \A i \in 1..Len(f) : f[i] \in FileLine
  BY LenProperties, ElementOfSeq DEF IsEditable
<1>2. g = [i \in 1..Len(f) |-> IF f[i].name \in DOMAIN said THEN Words(f[i].name, said[f[i].name]) ELSE f[i]]
  BY <1>1 DEF Rewritten
<1>3. ASSUME NEW i \in 1..Len(f)
      PROVE  /\ g[i] = IF f[i].name \in DOMAIN said THEN Renewal(f[i].name, said[f[i].name]) ELSE f[i]
             /\ g[i] \in FileLine
  <2>1. g[i] = IF f[i].name \in DOMAIN said THEN Words(f[i].name, said[f[i].name]) ELSE f[i]
    BY <1>2
  <2>2. CASE f[i].name \in DOMAIN said
    <3>1. f[i].name \notin Numbers /\ f[i].name \in FileTexts /\ said[f[i].name] \in FileTexts
      BY <2>2, AnsweredAreTexts DEF AreAnswers
    <3>2. Renewal(f[i].name, said[f[i].name]) = Words(f[i].name, said[f[i].name])
      BY <3>1 DEF Renewal
    <3> QED  BY <2>1, <2>2, <3>1, <3>2, WordsAreLines
  <2>3. CASE f[i].name \notin DOMAIN said
    BY <1>1, <2>1, <2>3
  <2> QED  BY <2>2, <2>3
<1>4. g \in [1..Len(f) -> FileLine]
  BY <1>2, <1>3
<1> HIDE DEF g
<1>5. g \in Seq(FileLine) /\ Len(g) = Len(f)
  BY <1>1, <1>4, LineByLine
<1>6. Renewed(f, g, said)
  BY <1>3, <1>5 DEF Renewed
<1> QED  BY <1>6 DEF g

\* What the wizard writes over the lines of the file: the provider only below its section.
Taken(file, answers) ==
  IF \E i \in Named(file, "llm") : file[i].depth = 0 THEN DOMAIN answers ELSE DOMAIN answers \ {"provider"}
Said(file, answers, limits) ==
  [n \in Taken(file, answers) \cup DOMAIN limits |-> IF n \in DOMAIN limits THEN limits[n] ELSE answers[n]]
Limited(file, answers, limits) ==
  LET rewritten == Rewritten(file, [n \in Taken(file, answers) |-> answers[n]])
  IN [i \in DOMAIN file |->
        IF file[i].name \in DOMAIN limits
        THEN Bare(file[i].name, limits[file[i].name], "number") ELSE rewritten[i]]

\* So does the wizard, with its limits.
LEMMA LimitedIs ==
  ASSUME NEW f, IsEditable(f), NEW answers, AreAnswers(answers), DOMAIN answers \cap Numbers = {},
         NEW limits, AreAnswers(limits), DOMAIN limits = Numbers
  PROVE  /\ Renewed(f, Limited(f, answers, limits), Said(f, answers, limits))
         /\ AreAnswers(Said(f, answers, limits))
<1> DEFINE kept == [n \in Taken(f, answers) |-> answers[n]]
           said == Said(f, answers, limits)
           g == Limited(f, answers, limits)
           r == Rewritten(f, kept)
<1>1. f \in Seq(FileLine) /\ DOMAIN f = 1..Len(f) /\ Len(f) \in Nat
  BY LenProperties DEF IsEditable
<1>2. DOMAIN kept \subseteq DOMAIN answers /\ DOMAIN kept = Taken(f, answers)
  BY DEF Taken
<1>3. AreAnswers(kept) /\ DOMAIN kept \cap Numbers = {}
  BY <1>2 DEF AreAnswers
<1>4. Renewed(f, r, kept)
  <2> HIDE DEF kept
  <2> QED  BY <1>3, RewrittenIs
<1>5. /\ DOMAIN said = Taken(f, answers) \cup Numbers
      /\ \A n \in Numbers : said[n] = limits[n]
      /\ \A n \in Taken(f, answers) : n \notin Numbers /\ said[n] = answers[n] /\ kept[n] = answers[n]
  BY <1>2 DEF Said
<1>6. AreAnswers(said)
  BY <1>2, <1>5 DEF AreAnswers
<1>7. g = [i \in 1..Len(f) |-> IF f[i].name \in Numbers THEN Bare(f[i].name, limits[f[i].name], "number") ELSE r[i]]
  BY <1>1 DEF Limited
<1> HIDE DEF g, said, r, kept
<1>8. ASSUME NEW i \in 1..Len(f)
      PROVE  /\ g[i] = IF f[i].name \in DOMAIN said THEN Renewal(f[i].name, said[f[i].name]) ELSE f[i]
             /\ g[i] \in FileLine
  <2>1. CASE f[i].name \in Numbers
    <3>1. g[i] = Bare(f[i].name, limits[f[i].name], "number")
      BY <1>7, <2>1
    <3>2. f[i].name \in DOMAIN said /\ said[f[i].name] = limits[f[i].name]
      BY <1>5, <2>1
    <3>3. Renewal(f[i].name, said[f[i].name]) = Bare(f[i].name, limits[f[i].name], "number")
      BY <2>1, <3>2 DEF Renewal
    <3>4. f[i].name \in FileTexts /\ limits[f[i].name] \in FileTexts
      BY <2>1, AnsweredAreTexts DEF AreAnswers
    <3> QED  BY <3>1, <3>2, <3>3, <3>4, WordsAreLines
  <2>2. CASE f[i].name \notin Numbers
    <3>1. g[i] = r[i]
      BY <1>7, <2>2
    <3>2. r[i] = IF f[i].name \in DOMAIN kept THEN Renewal(f[i].name, kept[f[i].name]) ELSE f[i]
      BY <1>4 DEF Renewed
    <3>3. f[i].name \in DOMAIN said <=> f[i].name \in DOMAIN kept
      BY <1>2, <1>5, <2>2
    <3>4. f[i].name \in DOMAIN kept => said[f[i].name] = kept[f[i].name]
      BY <1>2, <1>5
    <3>5. r[i] \in FileLine
      BY <1>1, <1>4, ElementOfSeq DEF Renewed
    <3> QED  BY <3>1, <3>2, <3>3, <3>4, <3>5
  <2> QED  BY <2>1, <2>2
<1>9. g \in [1..Len(f) -> FileLine]
  BY <1>7, <1>8
<1>10. g \in Seq(FileLine) /\ Len(g) = Len(f)
  BY <1>1, <1>9, LineByLine
<1>11. Renewed(f, g, said)
  BY <1>8, <1>10 DEF Renewed
<1> QED  BY <1>6, <1>11 DEF g, said

(***************************************************************************)
(* Sections                                                                *)
(***************************************************************************)
\* The line whose section another line is in.
IsHead(file, i, j) == j \in 1..i /\ file[j].depth = 0 /\ \A k \in (j + 1)..i : file[k].depth # 0

\* The section of a line is the name of that line.
LEMMA HeadIs ==
  ASSUME NEW file, NEW i \in Nat, NEW j, IsHead(file, i, j)
  PROVE  SectionOf(file, i) = file[j].name
<1>1. j \in Heads(file, i) /\ Heads(file, i) \subseteq 0..i /\ j \in 1..i
  BY DEF IsHead, Heads
<1>2. Max(Heads(file, i)) \in Heads(file, i) /\ j <= Max(Heads(file, i))
  BY <1>1, MaxIsIn
<1> DEFINE m == Max(Heads(file, i))
<1>3. m \in 1..i /\ file[m].depth = 0
  BY <1>2 DEF Heads
<1> HIDE DEF m
<1>4. ~(j < m)
  <2> SUFFICES ASSUME j < m PROVE FALSE
    OBVIOUS
  <2>1. m \in (j + 1)..i
    BY <1>1, <1>3
  <2> QED  BY <1>3, <2>1 DEF IsHead
<1>5. m = j
  <2>1. j <= m
    BY <1>2 DEF m
  <2> QED  BY <1>1, <1>3, <1>4, <2>1
<1> QED  BY <1>1, <1>5 DEF SectionOf, m

\* Without one there is no section.
LEMMA NoHeadIs ==
  ASSUME NEW file, NEW i, \A j \in 1..i : file[j].depth # 0
  PROVE  SectionOf(file, i) = NoText
<1>1. Heads(file, i) = {}
  BY DEF Heads
<1> QED  BY <1>1 DEF SectionOf

\* There is one or there is none.
LEMMA HeadExists ==
  ASSUME NEW file, NEW i \in Nat
  PROVE  (\E j : IsHead(file, i, j)) \/ (\A j \in 1..i : file[j].depth # 0)
<1> SUFFICES ASSUME Heads(file, i) # {} PROVE \E j : IsHead(file, i, j)
  BY DEF Heads
<1> DEFINE m == Max(Heads(file, i))
<1>1. Heads(file, i) \subseteq 0..i
  BY DEF Heads
<1>2. m \in Heads(file, i) /\ \A j \in Heads(file, i) : j <= m
  BY <1>1, MaxIsIn
<1>3. m \in 1..i /\ file[m].depth = 0
  BY <1>2 DEF Heads
<1> HIDE DEF m
<1>4. ASSUME NEW k \in (m + 1)..i PROVE file[k].depth # 0
  <2>1. k \in 1..i /\ ~(k <= m)
    BY <1>3
  <2> QED  BY <1>2, <2>1 DEF Heads
<1> QED  BY <1>3, <1>4 DEF IsHead

(***************************************************************************)
(* A line put below another                                                *)
(***************************************************************************)
Inserted(g, h, a, new) ==
  /\ g \in Seq(FileLine) /\ h \in Seq(FileLine) /\ a \in 1..Len(g) /\ Len(h) = Len(g) + 1
  /\ g[a].depth = 1 /\ new.depth = 1 /\ new.name = "base_url" /\ h[a + 1] = new
  /\ \A i \in 1..a : h[i] = g[i]
  /\ \A i \in (a + 1)..Len(g) : h[i + 1] = g[i]

\* InsertAt puts the line there and leaves the others in their order.
LEMMA InsertAtIs ==
  ASSUME NEW g \in Seq(FileLine), NEW a \in 1..Len(g), g[a].depth = 1,
         NEW new \in FileLine, new.depth = 1, new.name = "base_url"
  PROVE  Inserted(g, InsertAt(g, a + 1, new), a, new)
<1>1. Len(g) \in Nat /\ a \in Nat /\ 1 <= a /\ a <= Len(g)
  BY LenProperties
<1> DEFINE s == SubSeq(g, 1, a)
           t == SubSeq(g, a + 1, Len(g))
           u == <<new>>
           h == InsertAt(g, a + 1, new)
<1>2. (a + 1) - 1 = a
  BY <1>1
<1>3. h = (s \o u) \o t
  BY <1>2 DEF InsertAt
<1>4. \A k \in 1..Len(g) : g[k] \in FileLine
  BY ElementOfSeq
<1>5. s \in Seq(FileLine) /\ Len(s) = a /\ \A k \in 1..a : s[k] = g[k]
  <2>1. 1 \in Int /\ a \in Int /\ 1 <= a /\ a - 1 + 1 = a
    BY <1>1
  <2>2. \A k \in 1..a : k \in 1..Len(g) /\ 1 + k - 1 = k
    BY <1>1
  <2>3. \A k \in 1..a : g[k] \in FileLine
    BY <1>4, <2>2
  <2>4. /\ s \in Seq(FileLine) /\ Len(s) = IF 1 <= a THEN a - 1 + 1 ELSE 0
        /\ \A k \in 1..(a - 1 + 1) : s[k] = g[1 + k - 1]
    BY <2>1, <2>3, SubSeqProperties
  <2> HIDE DEF s
  <2> QED  BY <2>1, <2>2, <2>4
<1>6. t \in Seq(FileLine) /\ Len(t) = Len(g) - a /\ \A k \in 1..(Len(g) - a) : t[k] = g[a + k]
  <2> DEFINE b == a + 1
             n == Len(g)
  <2>1. b \in Int /\ n \in Int /\ n - b + 1 = n - a /\ (b <= n => n - b + 1 = n - a) /\ (~(b <= n) => 0 = n - a)
    BY <1>1
  <2>2. \A k \in b..n : k \in 1..Len(g)
    BY <1>1
  <2>3. \A k \in b..n : g[k] \in FileLine
    BY <1>4, <2>2
  <2>4. \A k \in 1..(n - a) : b + k - 1 = a + k
    BY <1>1
  <2>5. t = SubSeq(g, b, n)
    OBVIOUS
  <2> HIDE DEF b, n, t
  <2>6. /\ SubSeq(g, b, n) \in Seq(FileLine) /\ Len(SubSeq(g, b, n)) = IF b <= n THEN n - b + 1 ELSE 0
        /\ \A k \in 1..(n - b + 1) : SubSeq(g, b, n)[k] = g[b + k - 1]
    BY ONLY <2>1, <2>3, SubSeqProperties
  <2>7. t \in Seq(FileLine) /\ Len(t) = n - a /\ \A k \in 1..(n - a) : t[k] = g[a + k]
    BY <2>1, <2>4, <2>5, <2>6
  <2> QED  BY <2>7 DEF n
<1>7. u \in Seq(FileLine) /\ Len(u) = 1 /\ u[1] = new
  OBVIOUS
<1> HIDE DEF s, t, u, h
<1>8. /\ s \o u \in Seq(FileLine) /\ Len(s \o u) = a + 1
      /\ \A k \in 1..a : (s \o u)[k] = g[k]
      /\ (s \o u)[a + 1] = new
  <2>1. /\ s \o u \in Seq(FileLine) /\ Len(s \o u) = Len(s) + Len(u)
        /\ \A k \in 1..(Len(s) + Len(u)) : (s \o u)[k] = IF k <= Len(s) THEN s[k] ELSE u[k - Len(s)]
    BY <1>5, <1>7, ConcatProperties
  <2>2. /\ Len(s) + Len(u) = a + 1 /\ a + 1 \in 1..(a + 1) /\ ~(a + 1 <= a) /\ (a + 1) - a = 1
        /\ \A k \in 1..a : k \in 1..(a + 1) /\ k <= a
    BY <1>1, <1>5, <1>7
  <2> QED  BY <1>5, <1>7, <2>1, <2>2
<1> DEFINE x == s \o u
<1>9. /\ h \in Seq(FileLine) /\ Len(h) = Len(x) + Len(t)
      /\ \A k \in 1..(Len(x) + Len(t)) : h[k] = (IF k <= Len(x) THEN x[k] ELSE t[k - Len(x)])
  <2>1. h = x \o t /\ x \in Seq(FileLine) /\ t \in Seq(FileLine)
    BY <1>3, <1>6, <1>8
  <2> HIDE DEF x
  <2> QED  BY ONLY <2>1, ConcatProperties
<1>10. /\ x \in Seq(FileLine) /\ Len(x) = a + 1 /\ x[a + 1] = new
       /\ \A k \in 1..a : x[k] = g[k]
  BY <1>8
<1> HIDE DEF x
<1>11. Len(h) = Len(g) + 1 /\ Len(x) + Len(t) = Len(g) + 1
  BY <1>1, <1>6, <1>9, <1>10
<1>12. h[a + 1] = new
  <2>1. a + 1 \in 1..(Len(g) + 1) /\ a + 1 <= a + 1
    BY <1>1
  <2> QED  BY <1>9, <1>10, <1>11, <2>1
<1>13. ASSUME NEW i \in 1..a PROVE h[i] = g[i]
  <2>1. i \in 1..(Len(g) + 1) /\ i <= a + 1
    BY <1>1
  <2> QED  BY <1>9, <1>10, <1>11, <2>1
<1>14. ASSUME NEW i \in (a + 1)..Len(g) PROVE h[i + 1] = g[i]
  <2>1. /\ i + 1 \in 1..(Len(g) + 1) /\ ~(i + 1 <= a + 1) /\ i - a \in 1..(Len(g) - a)
        /\ (i + 1) - (a + 1) = i - a /\ a + (i - a) = i
    BY <1>1
  <2>2. h[i + 1] = t[i - a]
    BY <1>9, <1>10, <1>11, <2>1
  <2> QED  BY <1>6, <2>1, <2>2
<1> QED  BY <1>9, <1>11, <1>12, <1>13, <1>14 DEF Inserted, h

\* Where a line is then.
Down(a, i) == IF i <= a THEN i ELSE i + 1

\* Every line but the new one comes from one of the lines before.
LEMMA DownIs ==
  ASSUME NEW g, NEW h, NEW a, NEW new, Inserted(g, h, a, new)
  PROVE  /\ Len(g) \in Nat /\ Len(h) = Len(g) + 1 /\ a \in 1..Len(g) /\ a \in Nat
         /\ \A i \in 1..Len(g) : /\ Down(a, i) \in 1..Len(h) /\ Down(a, i) # a + 1
                                 /\ h[Down(a, i)] = g[i]
         /\ \A j \in 1..Len(h) : j = a + 1 \/ \E i \in 1..Len(g) : j = Down(a, i)
         /\ \A i, j \in Nat : (i <= j) <=> (Down(a, i) <= Down(a, j))
<1>1. Len(g) \in Nat /\ Len(h) = Len(g) + 1 /\ a \in 1..Len(g) /\ a \in Nat
  BY LenProperties DEF Inserted
<1>2. ASSUME NEW i \in 1..Len(g)
      PROVE  Down(a, i) \in 1..Len(h) /\ Down(a, i) # a + 1 /\ h[Down(a, i)] = g[i]
  <2>1. CASE i <= a
    <3>1. i \in 1..a /\ Down(a, i) = i /\ i \in 1..(Len(g) + 1) /\ i # a + 1
      BY <1>1, <2>1 DEF Down
    <3> QED  BY <1>1, <3>1 DEF Inserted
  <2>2. CASE ~(i <= a)
    <3>1. i \in (a + 1)..Len(g) /\ Down(a, i) = i + 1 /\ i + 1 \in 1..(Len(g) + 1) /\ i + 1 # a + 1
      BY <1>1, <2>2 DEF Down
    <3> QED  BY <1>1, <3>1 DEF Inserted
  <2> QED  BY <2>1, <2>2
<1>3. ASSUME NEW j \in 1..Len(h), j # a + 1 PROVE \E i \in 1..Len(g) : j = Down(a, i)
  <2>1. CASE j <= a
    <3>1. j \in 1..Len(g)
      BY <1>1, <2>1
    <3>2. Down(a, j) = j
      BY <2>1 DEF Down
    <3> QED  BY <3>1, <3>2
  <2>2. CASE ~(j <= a)
    <3>1. j - 1 \in 1..Len(g) /\ ~(j - 1 <= a) /\ (j - 1) + 1 = j
      BY <1>1, <1>3, <2>2
    <3>2. Down(a, j - 1) = j
      BY <3>1 DEF Down
    <3> QED  BY <3>1, <3>2
  <2> QED  BY <2>1, <2>2
<1>4. \A i, j \in Nat : (i <= j) <=> (Down(a, i) <= Down(a, j))
  BY <1>1 DEF Down
<1> QED  BY <1>1, <1>2, <1>3, <1>4

\* The lines keep their sections, the new one is in that of the line above.
LEMMA SectionsStay ==
  ASSUME NEW g, NEW h, NEW a, NEW new, Inserted(g, h, a, new)
  PROVE  /\ \A i \in 1..Len(g) : SectionOf(h, Down(a, i)) = SectionOf(g, i)
         /\ SectionOf(h, a + 1) = SectionOf(g, a)
<1>1. /\ Len(g) \in Nat /\ Len(h) = Len(g) + 1 /\ a \in 1..Len(g) /\ a \in Nat
      /\ \A i \in 1..Len(g) : Down(a, i) \in 1..Len(h) /\ Down(a, i) # a + 1 /\ h[Down(a, i)] = g[i]
      /\ \A j \in 1..Len(h) : j = a + 1 \/ \E i \in 1..Len(g) : j = Down(a, i)
  BY DownIs
<1>2. \A i, j \in Nat : (i <= j) <=> (Down(a, i) <= Down(a, j))
  BY DownIs
<1>3. h[a + 1].depth # 0 /\ g[a].depth # 0
  BY DEF Inserted
\* A line of h up to p that is not the new one is one of g up to i.
<1>4. ASSUME NEW i \in 1..Len(g), NEW p \in 1..Len(h), p = Down(a, i) \/ (p = a + 1 /\ i = a),
             NEW k \in 1..p, k # a + 1
      PROVE  \E l \in 1..i : k = Down(a, l)
  <2>1. k \in 1..Len(h)
    BY <1>1
  <2>2. PICK l \in 1..Len(g) : k = Down(a, l)
    BY <1>1, <1>4, <2>1
  <2>3. l <= i
    <3>1. CASE p = Down(a, i)
      BY <1>1, <1>2, <2>2, <3>1
    <3>2. CASE p = a + 1 /\ i = a
      <4>1. Down(a, l) <= a
        BY <1>1, <1>4, <2>2, <3>2
      <4> QED  BY <1>1, <3>2, <4>1 DEF Down
    <3> QED  BY <1>4, <3>1, <3>2
  <2>4. l \in 1..i
    BY <1>1, <2>3
  <2> QED  BY <2>2, <2>4
<1>5. ASSUME NEW i \in 1..Len(g), NEW p \in 1..Len(h), p = Down(a, i) \/ (p = a + 1 /\ i = a)
      PROVE  SectionOf(h, p) = SectionOf(g, i)
  <2>0. i \in Nat /\ p \in Nat
    BY <1>1
  <2>1. ASSUME NEW j, IsHead(g, i, j) PROVE SectionOf(h, p) = SectionOf(g, i)
    <3>1. j \in 1..i /\ g[j].depth = 0 /\ j \in 1..Len(g) /\ \A k \in (j + 1)..i : g[k].depth # 0
      BY <1>1, <2>1 DEF IsHead
    <3>2. Down(a, j) \in 1..p
      <4>1. Down(a, j) <= Down(a, i) /\ Down(a, j) \in 1..Len(h)
        BY <1>1, <1>2, <2>0, <3>1
      <4>2. Down(a, i) <= p
        <5>1. CASE p = Down(a, i)
          BY <1>1, <5>1
        <5>2. CASE p = a + 1 /\ i = a
          BY <1>1, <5>2 DEF Down
        <5> QED  BY <1>5, <5>1, <5>2
      <4>3. Down(a, i) \in Nat
        BY <1>1
      <4> QED  BY <1>1, <2>0, <4>1, <4>2, <4>3
    <3>3. ASSUME NEW k \in (Down(a, j) + 1)..p PROVE h[k].depth # 0
      <4>1. CASE k = a + 1
        BY <1>3, <4>1
      <4>2. CASE k # a + 1
        <5>1. k \in 1..p /\ ~(k <= Down(a, j)) /\ k \in Nat
          BY <1>1, <3>2
        <5>2. PICK l \in 1..i : k = Down(a, l)
          BY <1>4, <1>5, <4>2, <5>1
        <5>3. l \in Nat /\ j \in Nat /\ l \in 1..Len(g)
          BY <1>1, <3>1
        <5>4. ~(l <= j)
          BY <1>2, <5>1, <5>2, <5>3
        <5>5. l \in (j + 1)..i
          BY <2>0, <5>3, <5>4
        <5> QED  BY <1>1, <3>1, <5>2, <5>3, <5>5
      <4> QED  BY <4>1, <4>2
    <3>4. h[Down(a, j)] = g[j]
      BY <1>1, <3>1
    <3>5. IsHead(h, p, Down(a, j))
      BY <3>1, <3>2, <3>3, <3>4 DEF IsHead
    <3>6. SectionOf(h, p) = h[Down(a, j)].name
      BY <2>0, <3>5, HeadIs
    <3>7. SectionOf(g, i) = g[j].name
      BY <2>0, <2>1, HeadIs
    <3> QED  BY <3>4, <3>6, <3>7
  <2>2. ASSUME \A j \in 1..i : g[j].depth # 0 PROVE SectionOf(h, p) = SectionOf(g, i)
    <3>1. ASSUME NEW k \in 1..p PROVE h[k].depth # 0
      <4>1. CASE k = a + 1
        BY <1>3, <4>1
      <4>2. CASE k # a + 1
        <5>1. PICK l \in 1..i : k = Down(a, l)
          BY <1>4, <1>5, <4>2
        <5>2. l \in 1..Len(g)
          BY <1>1
        <5> QED  BY <1>1, <2>2, <5>1, <5>2
      <4> QED  BY <4>1, <4>2
    <3> QED  BY <2>2, <3>1, NoHeadIs
  <2> QED  BY <2>0, <2>1, <2>2, HeadExists
<1>6. a + 1 \in 1..Len(h)
  BY <1>1
<1> QED  BY <1>1, <1>5, <1>6

\* The first of the lines stays the first.
LEMMA FirstDown ==
  ASSUME NEW a \in Nat, NEW S, S \subseteq Nat, S # {}
  PROVE  First({Down(a, i) : i \in S}) = Down(a, First(S))
<1> DEFINE D == {Down(a, i) : i \in S}
           x == First(S)
           y == First(D)
<1>1. x \in S /\ \A i \in S : x <= i
  BY FirstIsIn
<1>2. \A i \in Nat : Down(a, i) \in Nat
  BY DEF Down
<1>3. \A i, j \in Nat : i <= j => Down(a, i) <= Down(a, j)
  BY DEF Down
<1>4. D \subseteq Nat /\ D # {}
  BY <1>2
<1>5. y \in D /\ \A j \in D : y <= j
  <2> HIDE DEF D
  <2> QED  BY <1>4, FirstIsIn
<1>6. Down(a, x) \in D
  <2> HIDE DEF x
  <2> QED  BY <1>1
<1>7. Down(a, x) <= y
  <2>1. PICK i \in S : y = Down(a, i)
    BY <1>5
  <2> HIDE DEF x, y
  <2> QED  BY <1>1, <1>3, <2>1
<1>8. y <= Down(a, x) /\ y \in Nat /\ Down(a, x) \in Nat
  <2> HIDE DEF x, y, D
  <2> QED  BY <1>4, <1>5, <1>6
<1>9. y = Down(a, x)
  <2> HIDE DEF x, y
  <2> QED  BY <1>7, <1>8
<1> QED  BY <1>9 DEF x, y, D

\* The lines of a key are the same, moved, and the endpoint has the new one.
LEMMA LinesDown ==
  ASSUME NEW g, NEW h, NEW a, NEW new, Inserted(g, h, a, new), NEW key
  PROVE  /\ key[2] # "base_url" => LinesOf(h, key) = {Down(a, i) : i \in LinesOf(g, key)}
         /\ key[2] = "base_url" /\ Named(g, "base_url") = {} =>
              LinesOf(h, key) = IF SectionOf(g, a) = key[1] THEN {a + 1} ELSE {}
<1>1. /\ Len(g) \in Nat /\ Len(h) = Len(g) + 1 /\ a \in 1..Len(g) /\ a \in Nat
      /\ \A i \in 1..Len(g) : Down(a, i) \in 1..Len(h) /\ h[Down(a, i)] = g[i]
      /\ \A j \in 1..Len(h) : j = a + 1 \/ \E i \in 1..Len(g) : j = Down(a, i)
  BY DownIs
<1>2. /\ \A i \in 1..Len(g) : SectionOf(h, Down(a, i)) = SectionOf(g, i)
      /\ SectionOf(h, a + 1) = SectionOf(g, a)
  BY SectionsStay
<1>3. DOMAIN g = 1..Len(g) /\ DOMAIN h = 1..Len(h) /\ a + 1 \in 1..Len(h)
  <2>1. a + 1 \in 1..Len(h)
    BY <1>1
  <2> QED  BY <2>1, LenProperties DEF Inserted
<1>4. h[a + 1].name = "base_url" /\ h[a + 1].depth > 0
  BY DEF Inserted
<1>5. \A i \in 1..Len(g) : i \in LinesOf(g, key) <=> Down(a, i) \in LinesOf(h, key)
  BY <1>1, <1>2, <1>3 DEF LinesOf
<1>6. a + 1 \in LinesOf(h, key) <=> (key[2] = "base_url" /\ SectionOf(g, a) = key[1])
  BY <1>2, <1>3, <1>4 DEF LinesOf
<1>7. LinesOf(g, key) \subseteq 1..Len(g) /\ LinesOf(h, key) \subseteq 1..Len(h)
  BY <1>3 DEF LinesOf
<1>8. ASSUME key[2] # "base_url" PROVE LinesOf(h, key) = {Down(a, i) : i \in LinesOf(g, key)}
  <2>1. ASSUME NEW j \in LinesOf(h, key) PROVE j \in {Down(a, i) : i \in LinesOf(g, key)}
    <3>1. j # a + 1 /\ j \in 1..Len(h)
      BY <1>6, <1>7, <1>8
    <3>2. PICK i \in 1..Len(g) : j = Down(a, i)
      BY <1>1, <3>1
    <3> QED  BY <1>5, <3>2
  <2> QED  BY <1>5, <1>7, <2>1
<1>9. ASSUME key[2] = "base_url", Named(g, "base_url") = {}
      PROVE  LinesOf(h, key) = IF SectionOf(g, a) = key[1] THEN {a + 1} ELSE {}
  <2>1. LinesOf(g, key) = {}
    BY <1>9 DEF LinesOf, Named
  <2>2. ASSUME NEW j \in LinesOf(h, key) PROVE j = a + 1
    <3> SUFFICES ASSUME j # a + 1 PROVE FALSE
      OBVIOUS
    <3>1. PICK i \in 1..Len(g) : j = Down(a, i)
      BY <1>1, <1>7
    <3> QED  BY <1>5, <2>1, <3>1
  <2> QED  BY <1>6, <1>9, <2>2
<1> QED  BY <1>8, <1>9

\* The texts held are held still.
LEMMA HoldsDown ==
  ASSUME NEW g, NEW h, NEW a, NEW new, Inserted(g, h, a, new), NEW key, key[2] # "base_url"
  PROVE  /\ LinesOf(h, key) = {} <=> LinesOf(g, key) = {}
         /\ \A text : Holds(g, key, text) => Holds(h, key, text)
<1>1. LinesOf(h, key) = {Down(a, i) : i \in LinesOf(g, key)}
  BY LinesDown
<1>2. g \in Seq(FileLine) /\ a \in Nat /\ \A i \in 1..Len(g) : h[Down(a, i)] = g[i]
  <2>1. g \in Seq(FileLine)
    BY DEF Inserted
  <2>2. a \in Nat /\ \A i \in 1..Len(g) : h[Down(a, i)] = g[i]
    BY DownIs
  <2> QED  BY <2>1, <2>2
<1>3. LinesOf(g, key) \subseteq Nat /\ LinesOf(g, key) \subseteq 1..Len(g)
  BY <1>2, AtIs
<1>4. ASSUME NEW text, Holds(g, key, text) PROVE Holds(h, key, text)
  <2> DEFINE x == First(LinesOf(g, key))
  <2>1. LinesOf(g, key) # {} /\ g[x].depth = 1 /\ g[x].text = text
    BY <1>4 DEF Holds
  <2>2. x \in 1..Len(g)
    BY <1>3, <2>1, FirstIsIn
  <2>3. First(LinesOf(h, key)) = Down(a, x)
    BY <1>1, <1>2, <1>3, <2>1, FirstDown
  <2>4. h[Down(a, x)] = g[x]
    BY <1>2, <2>2
  <2>5. LinesOf(h, key) # {}
    BY <1>1, <2>1
  <2> QED  BY <2>1, <2>3, <2>4, <2>5 DEF Holds
<1> QED  BY <1>1, <1>4

\* What is below a setting stays there, if nothing is below the line above.
LEMMA BelowDown ==
  ASSUME NEW g, NEW h, NEW a, NEW new, Inserted(g, h, a, new), Below(g, a) = <<>>,
         NEW i \in 1..Len(g), g[i].depth = 1
  PROVE  Below(h, Down(a, i)) = Below(g, i)
<1>1. /\ g \in Seq(FileLine) /\ h \in Seq(FileLine) /\ Len(g) \in Nat /\ Len(h) = Len(g) + 1
      /\ a \in 1..Len(g) /\ a \in Nat /\ i \in Nat
      /\ g[a].depth = 1 /\ h[a + 1].depth = 1
  BY LenProperties DEF Inserted
<1>2. \A k \in 1..a : h[k] = g[k]
  BY DEF Inserted
<1>3. \A k \in (a + 1)..Len(g) : h[k + 1] = g[k]
  BY DEF Inserted
<1>4. PICK e : IsEnd(g, i, e)
  BY <1>1, EndExists
<1>5. e \in Nat /\ e \in (i + 1)..(Len(g) + 1)
  BY <1>1, <1>4 DEF IsEnd
<1>6. CASE i < a
  <2>1. e <= a
    <3> SUFFICES ASSUME ~(e <= a) PROVE FALSE
      OBVIOUS
    <3>1. a \in (i + 1)..(e - 1)
      BY <1>1, <1>5, <1>6
    <3>2. g[a].depth > g[i].depth
      BY <1>4, <3>1 DEF IsEnd
    <3> QED  BY <1>1, <3>2
  <2>2. \A k \in (i + 1)..(e - 1) : k \in 1..a /\ k + 0 = k
    BY <1>1, <1>5, <2>1
  <2>3. e \in 1..a /\ i \in 1..a /\ e \in (i + 1)..(Len(h) + 1) /\ e <= Len(g)
    BY <1>1, <1>5, <1>6, <2>1
  <2>4. IsEnd(h, i, e)
    BY <1>2, <1>4, <2>2, <2>3 DEF IsEnd
  <2>5. 0 \in Nat /\ i + 0 = i /\ e + 0 = e /\ i \in 1..Len(h)
    BY <1>1, <1>5
  <2>6. \A k \in (i + 1)..(e - 1) : h[k + 0] = g[k]
    BY <1>2, <2>2
  <2>7. IsEnd(h, i + 0, e + 0) /\ i + 0 \in 1..Len(h)
    BY <2>4, <2>5
  <2>8. Below(h, i + 0) = Below(g, i)
    BY <1>1, <1>4, <2>5, <2>6, <2>7, SameBelow
  <2>9. Down(a, i) = i
    BY <1>1, <1>6 DEF Down
  <2> QED  BY <2>5, <2>8, <2>9
<1>7. CASE i = a
  <2>1. a \in 1..Len(h) /\ Down(a, i) = a
    BY <1>1, <1>7 DEF Down
  <2>2. h[a + 1].depth <= h[a].depth
    BY <1>1, <1>2
  <2>3. Below(h, a) = <<>>
    BY <1>1, <2>1, <2>2, BelowIsEmpty
  <2> QED  BY <1>7, <2>1, <2>3
<1>8. CASE i > a
  <2>1. i \in (a + 1)..Len(g) /\ Down(a, i) = i + 1
    BY <1>1, <1>8 DEF Down
  <2>2. \A k \in (i + 1)..(e - 1) : k \in (a + 1)..Len(g)
    BY <1>1, <1>5, <1>8
  <2>3. e <= Len(g) => e \in (a + 1)..Len(g)
    BY <1>1, <1>5, <1>8
  <2>4. \A k \in ((i + 1) + 1)..((e + 1) - 1) : k - 1 \in (i + 1)..(e - 1) /\ (k - 1) + 1 = k
    BY <1>1, <1>5
  <2>5. \A k \in ((i + 1) + 1)..((e + 1) - 1) : h[k] = g[k - 1]
    BY <1>3, <2>2, <2>4
  <2>6. h[i + 1] = g[i]
    BY <1>3, <2>1
  <2>7. e <= Len(g) => h[e + 1] = g[e]
    BY <1>3, <2>3
  <2>8. e + 1 \in ((i + 1) + 1)..(Len(h) + 1) /\ (e + 1 <= Len(h) <=> e <= Len(g)) /\ i + 1 \in 1..Len(h)
    BY <1>1, <1>5
  <2>9. ASSUME NEW k \in ((i + 1) + 1)..((e + 1) - 1) PROVE h[k].depth > h[i + 1].depth
    <3>1. g[k - 1].depth > g[i].depth
      BY <1>4, <2>4 DEF IsEnd
    <3> QED  BY <2>5, <2>6, <3>1
  <2>10. IsEnd(h, i + 1, e + 1)
    BY <1>4, <2>6, <2>7, <2>8, <2>9 DEF IsEnd
  <2>11. \A k \in (i + 1)..(e - 1) : h[k + 1] = g[k]
    BY <1>3, <2>2
  <2>12. 1 \in Nat
    OBVIOUS
  <2>13. Below(h, i + 1) = Below(g, i)
    BY <1>1, <1>4, <2>8, <2>10, <2>11, <2>12, SameBelow
  <2> QED  BY <2>1, <2>13
<1> QED  BY <1>1, <1>6, <1>7, <1>8

\* The settings read are the same.
LEMMA SettingDown ==
  ASSUME NEW g, NEW h, NEW a, NEW new, Inserted(g, h, a, new), Below(g, a) = <<>>,
         NEW key, key[2] # "base_url"
  PROVE  Setting(h, key) = Setting(g, key)
<1>1. LinesOf(h, key) = {Down(a, i) : i \in LinesOf(g, key)}
  BY LinesDown
<1>2. g \in Seq(FileLine) /\ a \in Nat /\ \A i \in 1..Len(g) : h[Down(a, i)] = g[i]
  <2>1. g \in Seq(FileLine)
    BY DEF Inserted
  <2>2. a \in Nat /\ \A i \in 1..Len(g) : h[Down(a, i)] = g[i]
    BY DownIs
  <2> QED  BY <2>1, <2>2
<1>3. /\ LinesOf(g, key) \subseteq Nat /\ LinesOf(g, key) \subseteq 1..Len(g)
      /\ At(g, key) \subseteq LinesOf(g, key)
  BY <1>2, AtIs
<1>4. \A i \in LinesOf(g, key) : h[Down(a, i)] = g[i]
  BY <1>2, <1>3
<1>5. At(h, key) = {Down(a, i) : i \in At(g, key)}
  BY <1>1, <1>4 DEF At
<1>6. CASE At(g, key) = {}
  <2>1. At(h, key) = {}
    BY <1>5, <1>6
  <2> QED  BY <1>6, <2>1 DEF Setting, At
<1>7. CASE At(g, key) # {}
  <2> DEFINE x == First(At(g, key))
             y == First(At(h, key))
  <2>1. At(g, key) \subseteq Nat
    BY <1>3
  <2>2. x \in At(g, key)
    BY <1>7, <2>1, FirstIsIn
  <2>3. x \in 1..Len(g) /\ g[x].depth = 1
    BY <1>3, <2>2 DEF At
  <2>4. y = Down(a, x)
    BY <1>2, <1>5, <1>7, <2>1, FirstDown
  <2>5. At(h, key) # {}
    BY <1>5, <1>7
  <2>6. /\ Setting(g, key) = [text |-> g[x].text, items |-> Below(g, x)]
        /\ Setting(h, key) = [text |-> h[y].text, items |-> Below(h, y)]
    BY <1>7, <2>5 DEF Setting, At
  <2> HIDE DEF x, y
  <2>7. h[Down(a, x)] = g[x]
    BY <1>2, <2>3
  <2>8. Below(h, Down(a, x)) = Below(g, x)
    BY <2>3, BelowDown
  <2> QED  BY <2>4, <2>6, <2>7, <2>8
<1> QED  BY <1>6, <1>7

\* The file still loads.
LEMMA LoadsDown ==
  ASSUME NEW g, NEW h, NEW a, NEW new, Inserted(g, h, a, new), FromYaml(g),
         g[a].kind # "none", new.kind = "word"
  PROVE  FromYaml(h)
<1>1. /\ g \in Seq(FileLine) /\ h \in Seq(FileLine) /\ Len(g) \in Nat /\ Len(h) = Len(g) + 1
      /\ a \in 1..Len(g) /\ a \in Nat /\ DOMAIN g = 1..Len(g) /\ DOMAIN h = 1..Len(h)
      /\ g[a].depth = 1 /\ h[a + 1] = new /\ new.depth = 1 /\ new.name = "base_url"
  BY LenProperties DEF Inserted
<1>0. Len(g) \in Nat /\ Len(h) = Len(g) + 1 /\ a \in Nat /\ 1 <= a /\ a <= Len(g)
  <2> DEFINE n == Len(g)
  <2>1. n \in Nat /\ a \in 1..n /\ Len(h) = n + 1
    BY <1>1
  <2> HIDE DEF n
  <2>2. a \in Nat /\ 1 <= a /\ a <= n
    BY <2>1
  <2> QED  BY <2>1, <2>2 DEF n
<1>2. \A k \in 1..a : h[k] = g[k]
  BY DEF Inserted
<1>3. \A k \in (a + 1)..Len(g) : h[k + 1] = g[k]
  BY DEF Inserted
<1>4. Below(g, a) = <<>>
  BY <1>1 DEF FromYaml
<1>5. /\ \A i \in 1..Len(g) : Down(a, i) \in 1..Len(h) /\ h[Down(a, i)] = g[i]
      /\ \A j \in 1..Len(h) : j = a + 1 \/ \E i \in 1..Len(g) : j = Down(a, i)
  BY DownIs
<1>6. /\ \A i \in 1..Len(g) : SectionOf(h, Down(a, i)) = SectionOf(g, i)
      /\ SectionOf(h, a + 1) = SectionOf(g, a)
  BY SectionsStay
<1>7. ASSUME NEW i \in 1..Len(g), g[i].kind # "none" PROVE Below(h, Down(a, i)) = <<>>
  <2>0. Below(g, i) = <<>> /\ i \in Nat /\ i \in 1..Len(g)
    <3>1. Below(g, i) = <<>>
      BY <1>1, <1>7 DEF FromYaml
    <3>2. i \in Nat
      BY <1>0
    <3> QED  BY <3>1, <3>2
  <2>1. i = Len(g) \/ g[i + 1].depth <= g[i].depth
    BY <1>1, <2>0, BelowIsEmpty
  <2>2. CASE i = a
    <3>1. g[i].depth = 1
      BY <1>1, <2>2
    <3> QED  BY <1>4, <2>0, <3>1, BelowDown
  <2>3. CASE i < a
    <3>1. i \in 1..a /\ i + 1 \in 1..a /\ i # Len(g) /\ i \in 1..Len(h) /\ Down(a, i) = i
      BY <1>0, <2>0, <2>3 DEF Down
    <3>2. h[i + 1].depth <= h[i].depth
      BY <1>2, <2>1, <3>1
    <3> QED  BY <1>1, <3>1, <3>2, BelowIsEmpty
  <2>4. CASE i > a
    <3>1. i \in (a + 1)..Len(g) /\ i + 1 \in 1..Len(h) /\ Down(a, i) = i + 1
          /\ (i = Len(g) => i + 1 = Len(h)) /\ (i # Len(g) => i + 1 \in (a + 1)..Len(g))
      BY <1>0, <2>0, <2>4 DEF Down
    <3>2. i + 1 = Len(h) \/ h[(i + 1) + 1].depth <= h[i + 1].depth
      BY <1>3, <2>1, <3>1
    <3> QED  BY <1>1, <3>1, <3>2, BelowIsEmpty
  <2> QED  BY <1>1, <2>0, <2>2, <2>3, <2>4
<1>8. Below(h, a + 1) = <<>>
  <2>1. a = Len(g) \/ g[a + 1].depth <= g[a].depth
    BY <1>1, <1>4, BelowIsEmpty
  <2>2. a + 1 \in 1..Len(h) /\ (a = Len(g) => a + 1 = Len(h)) /\ (a # Len(g) => a + 1 \in (a + 1)..Len(g))
    BY <1>0
  <2>3. a + 1 = Len(h) \/ h[(a + 1) + 1].depth <= h[a + 1].depth
    BY <1>1, <1>3, <2>1, <2>2
  <2> QED  BY <1>1, <2>2, <2>3, BelowIsEmpty
<1> SUFFICES ASSUME NEW j \in 1..Len(h)
             PROVE  /\ h[j].kind # "none" => Below(h, j) = <<>>
                    /\ (h[j].depth = 1 /\ IsSetting(<<SectionOf(h, j), h[j].name>>)) =>
                         Fits(FieldOf(<<SectionOf(h, j), h[j].name>>).type, h, j)
  BY <1>1 DEF FromYaml
<1>9. CASE j = a + 1
  <2> DEFINE key == <<SectionOf(h, j), h[j].name>>
  <2>1. ASSUME IsSetting(key) PROVE Fits(FieldOf(key).type, h, j)
    <3>1. key[2] = "base_url"
      BY <1>1, <1>9
    <3> HIDE DEF key
    <3>2. FieldOf(key).type = "text"
      BY <2>1, <3>1, FieldIs DEF AnsweredNames
    <3>3. h[j].kind = "word"
      BY <1>1, <1>9
    <3> QED  BY <3>2, <3>3 DEF Fits
  <2> QED  BY <1>8, <1>9, <2>1
<1>10. CASE j # a + 1
  <2>1. PICK i \in 1..Len(g) : j = Down(a, i)
    BY <1>5, <1>10
  <2>2. h[j] = g[i] /\ SectionOf(h, j) = SectionOf(g, i)
    BY <1>5, <1>6, <2>1
  <2>3. h[j].kind # "none" => Below(h, j) = <<>>
    BY <1>7, <2>1, <2>2
  <2>4. ASSUME h[j].depth = 1, IsSetting(<<SectionOf(h, j), h[j].name>>)
        PROVE  Fits(FieldOf(<<SectionOf(h, j), h[j].name>>).type, h, j)
    <3>1. g[i].depth = 1 /\ <<SectionOf(h, j), h[j].name>> = <<SectionOf(g, i), g[i].name>>
      BY <2>2, <2>4
    <3>2. Below(h, j) = Below(g, i)
      BY <1>4, <2>1, <3>1, BelowDown
    <3> DEFINE type == FieldOf(<<SectionOf(g, i), g[i].name>>).type
    <3>3. Fits(type, g, i)
      BY <1>1, <2>4, <3>1 DEF FromYaml
    <3> HIDE DEF type
    <3>4. Fits(type, h, j)
      BY <2>2, <3>2, <3>3 DEF Fits
    <3> QED  BY <3>1, <3>4 DEF type
  <2> QED  BY <2>3, <2>4
<1> QED  BY <1>9, <1>10

(***************************************************************************)
(* The template                                                            *)
(***************************************************************************)
\* The line of a file, by its parts.
IsLine(line, depth, name, kind) ==
  line \in FileLine /\ line.depth = depth /\ line.name = name /\ line.kind = kind

\* What the makers of lines make.
LEMMA MakersAre ==
  /\ \A n \in FileTexts : IsLine(Section(n), 0, n, "none")
  /\ \A n, t \in FileTexts : IsLine(Words(n, t), 1, n, "word") /\ IsLine(Deeper(Words(n, t)), 2, n, "word")
  /\ \A n, t \in FileTexts : \A k \in LineKinds \cup {"none"} :
       /\ IsLine(Bare(n, t, k), 1, n, k) /\ Bare(n, t, k).quoted = FALSE
       /\ IsLine(Deeper(Bare(n, t, k)), 2, n, k)
<1>1. TRUE \in BOOLEAN /\ FALSE \in BOOLEAN
  BY Zenon
<1>2. NoText \in FileTexts
  BY DEF FileTexts, Written
<1>3. ASSUME NEW n \in FileTexts PROVE IsLine(Section(n), 0, n, "none")
  BY <1>1, <1>2 DEF Section, FileLine, IsLine
<1>4. ASSUME NEW line \in FileLine PROVE IsLine(Deeper(line), 2, line.name, line.kind)
  <2> DEFINE new == [line EXCEPT !.depth = 2]
  <2>1. new \in FileLine /\ new.depth = 2 /\ new.name = line.name /\ new.kind = line.kind
    BY DEF FileLine
  <2> QED  BY <2>1 DEF Deeper, IsLine
<1>5. ASSUME NEW n \in FileTexts, NEW t \in FileTexts PROVE IsLine(Words(n, t), 1, n, "word")
  BY <1>1 DEF Words, FileLine, IsLine, LineKinds
<1>6. ASSUME NEW n \in FileTexts, NEW t \in FileTexts, NEW k \in LineKinds \cup {"none"}
      PROVE  IsLine(Bare(n, t, k), 1, n, k) /\ Bare(n, t, k).quoted = FALSE
  BY <1>1 DEF Bare, FileLine, IsLine
<1>7. ASSUME NEW n \in FileTexts, NEW t \in FileTexts PROVE IsLine(Deeper(Words(n, t)), 2, n, "word")
  <2> DEFINE line == Words(n, t)
  <2>1. line \in FileLine /\ line.name = n /\ line.kind = "word"
    BY <1>5 DEF IsLine
  <2> HIDE DEF line
  <2>2. IsLine(Deeper(line), 2, n, "word")
    BY <1>4, <2>1
  <2> QED  BY <2>2 DEF line
<1>8. ASSUME NEW n \in FileTexts, NEW t \in FileTexts, NEW k \in LineKinds \cup {"none"}
      PROVE  IsLine(Deeper(Bare(n, t, k)), 2, n, k)
  <2> DEFINE line == Bare(n, t, k)
  <2>1. line \in FileLine /\ line.name = n /\ line.kind = k
    <3>1. IsLine(Bare(n, t, k), 1, n, k)
      BY <1>6
    <3> QED  BY <3>1 DEF IsLine
  <2> HIDE DEF line
  <2>2. IsLine(Deeper(line), 2, n, k)
    BY <1>4, <2>1
  <2> QED  BY <2>2 DEF line
<1> QED  BY <1>3, <1>5, <1>6, <1>7, <1>8

\* The lines of the template (wizard.rs:473-574).
LEMMA TemplateLines ==
  /\ DefaultConfigTemplate \in Seq(FileLine) /\ Len(DefaultConfigTemplate) = 25
  /\ DefaultConfigTemplate[1] = Section("github")
  /\ DefaultConfigTemplate[2] = Words("token", NoText)
  /\ DefaultConfigTemplate[3] = Bare("max_repos_per_run", "20", "number")
  /\ DefaultConfigTemplate[4] = Bare("max_prs_per_day", "15", "number")
  /\ DefaultConfigTemplate[5] = Section("llm")
  /\ DefaultConfigTemplate[6] = Words("provider", "gemini")
  /\ DefaultConfigTemplate[7] = Words("model", "gemini-3-flash-preview")
  /\ DefaultConfigTemplate[8] = Words("api_key", NoText)
  /\ DefaultConfigTemplate[9] = Words("base_url", NoText)
  /\ DefaultConfigTemplate[10] = Bare("temperature", "0.3", "number")
  /\ DefaultConfigTemplate[11] = Words("vertex_project", NoText)
  /\ DefaultConfigTemplate[12] = Section("contribution")
  /\ DefaultConfigTemplate[13] = Bare("max_files_per_pr", "10", "number")
  /\ DefaultConfigTemplate[14] = Bare("style", NoText, "none")
  /\ DefaultConfigTemplate[15] = Deeper(Words("commit_convention", "conventional"))
  /\ DefaultConfigTemplate[16] = Section("discovery")
  /\ DefaultConfigTemplate[17] = Bare("languages", NoText, "none")
  /\ DefaultConfigTemplate[18] = Deeper(Bare("-", "python", "word"))
  /\ DefaultConfigTemplate[19] = Deeper(Bare("-", "rust", "word"))
  /\ DefaultConfigTemplate[20] = Bare("stars_range", StarsRange, "list")
  /\ DefaultConfigTemplate[21] = Section("scheduler")
  /\ DefaultConfigTemplate[22] = Bare("enabled", "false", "boolean")
  /\ DefaultConfigTemplate[23] = Section("multi_model")
  /\ DefaultConfigTemplate[24] = Bare("enabled", "true", "boolean")
  /\ DefaultConfigTemplate[25] = Words("strategy", "balanced")
<1>1. Section("github") \in FileLine
  BY MakersAre DEF IsLine, FileTexts, Written, LineKinds
<1>2. Words("token", NoText) \in FileLine
  BY MakersAre DEF IsLine, FileTexts, Written, LineKinds
<1>3. Bare("max_repos_per_run", "20", "number") \in FileLine
  BY MakersAre DEF IsLine, FileTexts, Written, LineKinds
<1>4. Bare("max_prs_per_day", "15", "number") \in FileLine
  BY MakersAre DEF IsLine, FileTexts, Written, LineKinds
<1>5. Section("llm") \in FileLine
  BY MakersAre DEF IsLine, FileTexts, Written, LineKinds
<1>6. Words("provider", "gemini") \in FileLine
  BY MakersAre DEF IsLine, FileTexts, Written, LineKinds
<1>7. Words("model", "gemini-3-flash-preview") \in FileLine
  BY MakersAre DEF IsLine, FileTexts, Written, LineKinds
<1>8. Words("api_key", NoText) \in FileLine
  BY MakersAre DEF IsLine, FileTexts, Written, LineKinds
<1>9. Words("base_url", NoText) \in FileLine
  BY MakersAre DEF IsLine, FileTexts, Written, LineKinds
<1>10. Bare("temperature", "0.3", "number") \in FileLine
  BY MakersAre DEF IsLine, FileTexts, Written, LineKinds
<1>11. Words("vertex_project", NoText) \in FileLine
  BY MakersAre DEF IsLine, FileTexts, Written, LineKinds
<1>12. Section("contribution") \in FileLine
  BY MakersAre DEF IsLine, FileTexts, Written, LineKinds
<1>13. Bare("max_files_per_pr", "10", "number") \in FileLine
  BY MakersAre DEF IsLine, FileTexts, Written, LineKinds
<1>14. Bare("style", NoText, "none") \in FileLine
  BY MakersAre DEF IsLine, FileTexts, Written, LineKinds
<1>15. Deeper(Words("commit_convention", "conventional")) \in FileLine
  BY MakersAre DEF IsLine, FileTexts, Written, LineKinds
<1>16. Section("discovery") \in FileLine
  BY MakersAre DEF IsLine, FileTexts, Written, LineKinds
<1>17. Bare("languages", NoText, "none") \in FileLine
  BY MakersAre DEF IsLine, FileTexts, Written, LineKinds
<1>18. Deeper(Bare("-", "python", "word")) \in FileLine
  BY MakersAre DEF IsLine, FileTexts, Written, LineKinds
<1>19. Deeper(Bare("-", "rust", "word")) \in FileLine
  BY MakersAre DEF IsLine, FileTexts, Written, LineKinds
<1>20. Bare("stars_range", StarsRange, "list") \in FileLine
  BY MakersAre DEF IsLine, FileTexts, Written, LineKinds
<1>21. Section("scheduler") \in FileLine
  BY MakersAre DEF IsLine, FileTexts, Written, LineKinds
<1>22. Bare("enabled", "false", "boolean") \in FileLine
  BY MakersAre DEF IsLine, FileTexts, Written, LineKinds
<1>23. Section("multi_model") \in FileLine
  BY MakersAre DEF IsLine, FileTexts, Written, LineKinds
<1>24. Bare("enabled", "true", "boolean") \in FileLine
  BY MakersAre DEF IsLine, FileTexts, Written, LineKinds
<1>25. Words("strategy", "balanced") \in FileLine
  BY MakersAre DEF IsLine, FileTexts, Written, LineKinds
<1>26. DefaultConfigTemplate \in Seq(FileLine) /\ Len(DefaultConfigTemplate) = 25
  BY <1>1, <1>2, <1>3, <1>4, <1>5, <1>6, <1>7, <1>8, <1>9, <1>10, <1>11, <1>12, <1>13, <1>14, <1>15, <1>16, <1>17, <1>18, <1>19, <1>20, <1>21, <1>22, <1>23, <1>24, <1>25
     DEF DefaultConfigTemplate
<1>31. DefaultConfigTemplate[1] = Section("github")
  BY DEF DefaultConfigTemplate
<1>32. DefaultConfigTemplate[2] = Words("token", NoText)
  BY DEF DefaultConfigTemplate
<1>33. DefaultConfigTemplate[3] = Bare("max_repos_per_run", "20", "number")
  BY DEF DefaultConfigTemplate
<1>34. DefaultConfigTemplate[4] = Bare("max_prs_per_day", "15", "number")
  BY DEF DefaultConfigTemplate
<1>35. DefaultConfigTemplate[5] = Section("llm")
  BY DEF DefaultConfigTemplate
<1>36. DefaultConfigTemplate[6] = Words("provider", "gemini")
  BY DEF DefaultConfigTemplate
<1>37. DefaultConfigTemplate[7] = Words("model", "gemini-3-flash-preview")
  BY DEF DefaultConfigTemplate
<1>38. DefaultConfigTemplate[8] = Words("api_key", NoText)
  BY DEF DefaultConfigTemplate
<1>39. DefaultConfigTemplate[9] = Words("base_url", NoText)
  BY DEF DefaultConfigTemplate
<1>40. DefaultConfigTemplate[10] = Bare("temperature", "0.3", "number")
  BY DEF DefaultConfigTemplate
<1>41. DefaultConfigTemplate[11] = Words("vertex_project", NoText)
  BY DEF DefaultConfigTemplate
<1>42. DefaultConfigTemplate[12] = Section("contribution")
  BY DEF DefaultConfigTemplate
<1>43. DefaultConfigTemplate[13] = Bare("max_files_per_pr", "10", "number")
  BY DEF DefaultConfigTemplate
<1>44. DefaultConfigTemplate[14] = Bare("style", NoText, "none")
  BY DEF DefaultConfigTemplate
<1>45. DefaultConfigTemplate[15] = Deeper(Words("commit_convention", "conventional"))
  BY DEF DefaultConfigTemplate
<1>46. DefaultConfigTemplate[16] = Section("discovery")
  BY DEF DefaultConfigTemplate
<1>47. DefaultConfigTemplate[17] = Bare("languages", NoText, "none")
  BY DEF DefaultConfigTemplate
<1>48. DefaultConfigTemplate[18] = Deeper(Bare("-", "python", "word"))
  BY DEF DefaultConfigTemplate
<1>49. DefaultConfigTemplate[19] = Deeper(Bare("-", "rust", "word"))
  BY DEF DefaultConfigTemplate
<1>50. DefaultConfigTemplate[20] = Bare("stars_range", StarsRange, "list")
  BY DEF DefaultConfigTemplate
<1>51. DefaultConfigTemplate[21] = Section("scheduler")
  BY DEF DefaultConfigTemplate
<1>52. DefaultConfigTemplate[22] = Bare("enabled", "false", "boolean")
  BY DEF DefaultConfigTemplate
<1>53. DefaultConfigTemplate[23] = Section("multi_model")
  BY DEF DefaultConfigTemplate
<1>54. DefaultConfigTemplate[24] = Bare("enabled", "true", "boolean")
  BY DEF DefaultConfigTemplate
<1>55. DefaultConfigTemplate[25] = Words("strategy", "balanced")
  BY DEF DefaultConfigTemplate
<1> QED  BY <1>26, <1>31, <1>32, <1>33, <1>34, <1>35, <1>36, <1>37, <1>38, <1>39, <1>40, <1>41, <1>42, <1>43, <1>44, <1>45, <1>46, <1>47, <1>48, <1>49, <1>50, <1>51, <1>52, <1>53, <1>54, <1>55

\* The depths, names and kinds of the template.
LEMMA TemplateParts ==
  /\ IsLine(DefaultConfigTemplate[1], 0, "github", "none")
  /\ IsLine(DefaultConfigTemplate[2], 1, "token", "word")
  /\ IsLine(DefaultConfigTemplate[3], 1, "max_repos_per_run", "number")
  /\ IsLine(DefaultConfigTemplate[4], 1, "max_prs_per_day", "number")
  /\ IsLine(DefaultConfigTemplate[5], 0, "llm", "none")
  /\ IsLine(DefaultConfigTemplate[6], 1, "provider", "word")
  /\ IsLine(DefaultConfigTemplate[7], 1, "model", "word")
  /\ IsLine(DefaultConfigTemplate[8], 1, "api_key", "word")
  /\ IsLine(DefaultConfigTemplate[9], 1, "base_url", "word")
  /\ IsLine(DefaultConfigTemplate[10], 1, "temperature", "number")
  /\ IsLine(DefaultConfigTemplate[11], 1, "vertex_project", "word")
  /\ IsLine(DefaultConfigTemplate[12], 0, "contribution", "none")
  /\ IsLine(DefaultConfigTemplate[13], 1, "max_files_per_pr", "number")
  /\ IsLine(DefaultConfigTemplate[14], 1, "style", "none")
  /\ IsLine(DefaultConfigTemplate[15], 2, "commit_convention", "word")
  /\ IsLine(DefaultConfigTemplate[16], 0, "discovery", "none")
  /\ IsLine(DefaultConfigTemplate[17], 1, "languages", "none")
  /\ IsLine(DefaultConfigTemplate[18], 2, "-", "word")
  /\ IsLine(DefaultConfigTemplate[19], 2, "-", "word")
  /\ IsLine(DefaultConfigTemplate[20], 1, "stars_range", "list")
  /\ IsLine(DefaultConfigTemplate[21], 0, "scheduler", "none")
  /\ IsLine(DefaultConfigTemplate[22], 1, "enabled", "boolean")
  /\ IsLine(DefaultConfigTemplate[23], 0, "multi_model", "none")
  /\ IsLine(DefaultConfigTemplate[24], 1, "enabled", "boolean")
  /\ IsLine(DefaultConfigTemplate[25], 1, "strategy", "word")
<1>1. IsLine(Section("github"), 0, "github", "none")
  BY MakersAre DEF FileTexts, Written, LineKinds
<1>2. IsLine(Words("token", NoText), 1, "token", "word")
  BY MakersAre DEF FileTexts, Written, LineKinds
<1>3. IsLine(Bare("max_repos_per_run", "20", "number"), 1, "max_repos_per_run", "number")
  BY MakersAre DEF FileTexts, Written, LineKinds
<1>4. IsLine(Bare("max_prs_per_day", "15", "number"), 1, "max_prs_per_day", "number")
  BY MakersAre DEF FileTexts, Written, LineKinds
<1>5. IsLine(Section("llm"), 0, "llm", "none")
  BY MakersAre DEF FileTexts, Written, LineKinds
<1>6. IsLine(Words("provider", "gemini"), 1, "provider", "word")
  BY MakersAre DEF FileTexts, Written, LineKinds
<1>7. IsLine(Words("model", "gemini-3-flash-preview"), 1, "model", "word")
  BY MakersAre DEF FileTexts, Written, LineKinds
<1>8. IsLine(Words("api_key", NoText), 1, "api_key", "word")
  BY MakersAre DEF FileTexts, Written, LineKinds
<1>9. IsLine(Words("base_url", NoText), 1, "base_url", "word")
  BY MakersAre DEF FileTexts, Written, LineKinds
<1>10. IsLine(Bare("temperature", "0.3", "number"), 1, "temperature", "number")
  BY MakersAre DEF FileTexts, Written, LineKinds
<1>11. IsLine(Words("vertex_project", NoText), 1, "vertex_project", "word")
  BY MakersAre DEF FileTexts, Written, LineKinds
<1>12. IsLine(Section("contribution"), 0, "contribution", "none")
  BY MakersAre DEF FileTexts, Written, LineKinds
<1>13. IsLine(Bare("max_files_per_pr", "10", "number"), 1, "max_files_per_pr", "number")
  BY MakersAre DEF FileTexts, Written, LineKinds
<1>14. IsLine(Bare("style", NoText, "none"), 1, "style", "none")
  BY MakersAre DEF FileTexts, Written, LineKinds
<1>15. IsLine(Deeper(Words("commit_convention", "conventional")), 2, "commit_convention", "word")
  BY MakersAre DEF FileTexts, Written, LineKinds
<1>16. IsLine(Section("discovery"), 0, "discovery", "none")
  BY MakersAre DEF FileTexts, Written, LineKinds
<1>17. IsLine(Bare("languages", NoText, "none"), 1, "languages", "none")
  BY MakersAre DEF FileTexts, Written, LineKinds
<1>18. IsLine(Deeper(Bare("-", "python", "word")), 2, "-", "word")
  BY MakersAre DEF FileTexts, Written, LineKinds
<1>19. IsLine(Deeper(Bare("-", "rust", "word")), 2, "-", "word")
  BY MakersAre DEF FileTexts, Written, LineKinds
<1>20. IsLine(Bare("stars_range", StarsRange, "list"), 1, "stars_range", "list")
  BY MakersAre DEF FileTexts, Written, LineKinds
<1>21. IsLine(Section("scheduler"), 0, "scheduler", "none")
  BY MakersAre DEF FileTexts, Written, LineKinds
<1>22. IsLine(Bare("enabled", "false", "boolean"), 1, "enabled", "boolean")
  BY MakersAre DEF FileTexts, Written, LineKinds
<1>23. IsLine(Section("multi_model"), 0, "multi_model", "none")
  BY MakersAre DEF FileTexts, Written, LineKinds
<1>24. IsLine(Bare("enabled", "true", "boolean"), 1, "enabled", "boolean")
  BY MakersAre DEF FileTexts, Written, LineKinds
<1>25. IsLine(Words("strategy", "balanced"), 1, "strategy", "word")
  BY MakersAre DEF FileTexts, Written, LineKinds
<1> QED  BY <1>1, <1>2, <1>3, <1>4, <1>5, <1>6, <1>7, <1>8, <1>9, <1>10, <1>11, <1>12, <1>13, <1>14, <1>15, <1>16, <1>17, <1>18, <1>19, <1>20, <1>21, <1>22, <1>23, <1>24, <1>25, TemplateLines

\* The template is editable.
LEMMA TemplateIsEditable == IsEditable(DefaultConfigTemplate)
<1> DEFINE T == DefaultConfigTemplate
<1>1. T \in Seq(FileLine) /\ Len(T) = 25
  BY TemplateLines
<1>2. T[1].name \in AnsweredNames => T[1].depth = 1 /\ T[1].kind # "none"
  BY TemplateParts DEF IsLine, AnsweredNames
<1>3. T[2].name \in AnsweredNames => T[2].depth = 1 /\ T[2].kind # "none"
  BY TemplateParts DEF IsLine, AnsweredNames
<1>4. T[3].name \in AnsweredNames => T[3].depth = 1 /\ T[3].kind # "none"
  BY TemplateParts DEF IsLine, AnsweredNames
<1>5. T[4].name \in AnsweredNames => T[4].depth = 1 /\ T[4].kind # "none"
  BY TemplateParts DEF IsLine, AnsweredNames
<1>6. T[5].name \in AnsweredNames => T[5].depth = 1 /\ T[5].kind # "none"
  BY TemplateParts DEF IsLine, AnsweredNames
<1>7. T[6].name \in AnsweredNames => T[6].depth = 1 /\ T[6].kind # "none"
  BY TemplateParts DEF IsLine, AnsweredNames
<1>8. T[7].name \in AnsweredNames => T[7].depth = 1 /\ T[7].kind # "none"
  BY TemplateParts DEF IsLine, AnsweredNames
<1>9. T[8].name \in AnsweredNames => T[8].depth = 1 /\ T[8].kind # "none"
  BY TemplateParts DEF IsLine, AnsweredNames
<1>10. T[9].name \in AnsweredNames => T[9].depth = 1 /\ T[9].kind # "none"
  BY TemplateParts DEF IsLine, AnsweredNames
<1>11. T[10].name \in AnsweredNames => T[10].depth = 1 /\ T[10].kind # "none"
  BY TemplateParts DEF IsLine, AnsweredNames
<1>12. T[11].name \in AnsweredNames => T[11].depth = 1 /\ T[11].kind # "none"
  BY TemplateParts DEF IsLine, AnsweredNames
<1>13. T[12].name \in AnsweredNames => T[12].depth = 1 /\ T[12].kind # "none"
  BY TemplateParts DEF IsLine, AnsweredNames
<1>14. T[13].name \in AnsweredNames => T[13].depth = 1 /\ T[13].kind # "none"
  BY TemplateParts DEF IsLine, AnsweredNames
<1>15. T[14].name \in AnsweredNames => T[14].depth = 1 /\ T[14].kind # "none"
  BY TemplateParts DEF IsLine, AnsweredNames
<1>16. T[15].name \in AnsweredNames => T[15].depth = 1 /\ T[15].kind # "none"
  BY TemplateParts DEF IsLine, AnsweredNames
<1>17. T[16].name \in AnsweredNames => T[16].depth = 1 /\ T[16].kind # "none"
  BY TemplateParts DEF IsLine, AnsweredNames
<1>18. T[17].name \in AnsweredNames => T[17].depth = 1 /\ T[17].kind # "none"
  BY TemplateParts DEF IsLine, AnsweredNames
<1>19. T[18].name \in AnsweredNames => T[18].depth = 1 /\ T[18].kind # "none"
  BY TemplateParts DEF IsLine, AnsweredNames
<1>20. T[19].name \in AnsweredNames => T[19].depth = 1 /\ T[19].kind # "none"
  BY TemplateParts DEF IsLine, AnsweredNames
<1>21. T[20].name \in AnsweredNames => T[20].depth = 1 /\ T[20].kind # "none"
  BY TemplateParts DEF IsLine, AnsweredNames
<1>22. T[21].name \in AnsweredNames => T[21].depth = 1 /\ T[21].kind # "none"
  BY TemplateParts DEF IsLine, AnsweredNames
<1>23. T[22].name \in AnsweredNames => T[22].depth = 1 /\ T[22].kind # "none"
  BY TemplateParts DEF IsLine, AnsweredNames
<1>24. T[23].name \in AnsweredNames => T[23].depth = 1 /\ T[23].kind # "none"
  BY TemplateParts DEF IsLine, AnsweredNames
<1>25. T[24].name \in AnsweredNames => T[24].depth = 1 /\ T[24].kind # "none"
  BY TemplateParts DEF IsLine, AnsweredNames
<1>26. T[25].name \in AnsweredNames => T[25].depth = 1 /\ T[25].kind # "none"
  BY TemplateParts DEF IsLine, AnsweredNames
<1> HIDE DEF T
<1>40. \A i \in 1..25 : T[i].name \in AnsweredNames => T[i].depth = 1 /\ T[i].kind # "none"
  BY <1>2, <1>3, <1>4, <1>5, <1>6, <1>7, <1>8, <1>9, <1>10, <1>11, <1>12, <1>13, <1>14, <1>15, <1>16, <1>17, <1>18, <1>19, <1>20, <1>21, <1>22, <1>23, <1>24, <1>25, <1>26
<1> QED  BY <1>1, <1>40 DEF IsEditable, T

\* The types of the fields in the template.
LEMMA TemplateTypes ==
  /\ FieldOf(<<"github", "token">>).type = "text"
  /\ FieldOf(<<"github", "max_prs_per_day">>).type = "number"
  /\ FieldOf(<<"llm", "temperature">>).type = "number"
  /\ FieldOf(<<"discovery", "languages">>).type = "list"
  /\ FieldOf(<<"discovery", "stars_range">>).type = "list"
  /\ FieldOf(<<"scheduler", "enabled">>).type = "boolean"
  /\ FieldOf(<<"multi_model", "enabled">>).type = "boolean"
  /\ FieldOf(<<"multi_model", "strategy">>).type = "text"
  /\ FieldOf(<<"llm", "provider">>).type = "text"
  /\ FieldOf(<<"llm", "model">>).type = "text"
  /\ FieldOf(<<"llm", "api_key">>).type = "text"
  /\ FieldOf(<<"llm", "base_url">>).type = "text"
  /\ FieldOf(<<"llm", "vertex_project">>).type = "text"
<1>1. FieldOf(<<"github", "token">>).type = "text"
  BY SectionsAre DEF FieldOf, GitHubFields, Text
<1>2. FieldOf(<<"github", "max_prs_per_day">>).type = "number"
  BY SectionsAre DEF FieldOf, GitHubFields, Number
<1>3. FieldOf(<<"llm", "temperature">>).type = "number"
  BY SectionsAre DEF FieldOf, LlmFields, Number
<1>4. FieldOf(<<"discovery", "languages">>).type = "list"
  BY SectionsAre DEF FieldOf, DiscoveryFields, List
<1>5. FieldOf(<<"discovery", "stars_range">>).type = "list"
  BY SectionsAre DEF FieldOf, DiscoveryFields, List
<1>6. FieldOf(<<"scheduler", "enabled">>).type = "boolean"
  BY SectionsAre DEF FieldOf, SchedulerFields, Flag
<1>7. FieldOf(<<"multi_model", "enabled">>).type = "boolean"
  BY SectionsAre DEF FieldOf, MultiModelFields, Flag
<1>8. FieldOf(<<"multi_model", "strategy">>).type = "text"
  BY SectionsAre DEF FieldOf, MultiModelFields, Text
<1>9. FieldOf(<<"llm", "provider">>).type = "text"
  BY SectionsAre DEF FieldOf, LlmFields, Text
<1>10. FieldOf(<<"llm", "model">>).type = "text"
  BY SectionsAre DEF FieldOf, LlmFields, Text
<1>11. FieldOf(<<"llm", "api_key">>).type = "text"
  BY SectionsAre DEF FieldOf, LlmFields, Text
<1>12. FieldOf(<<"llm", "base_url">>).type = "text"
  BY SectionsAre DEF FieldOf, LlmFields, Text
<1>13. FieldOf(<<"llm", "vertex_project">>).type = "text"
  BY SectionsAre DEF FieldOf, LlmFields, Text
<1> QED  BY <1>1, <1>2, <1>3, <1>4, <1>5, <1>6, <1>7, <1>8, <1>9, <1>10, <1>11, <1>12, <1>13

\* Three lines of the template are no settings.
LEMMA TemplateOthers ==
  /\ ~IsSetting(<<"github", "max_repos_per_run">>)
  /\ ~IsSetting(<<"contribution", "max_files_per_pr">>)
  /\ ~IsSetting(<<"contribution", "style">>)
  BY SectionsAre DEF IsSetting, GitHubFields, ContributionFields

\* The template loads.
LEMMA TemplateLoads == FromYaml(DefaultConfigTemplate)
<1> DEFINE T == DefaultConfigTemplate
           Loads(i) == /\ T[i].kind # "none" => Below(T, i) = <<>>
                       /\ (T[i].depth = 1 /\ IsSetting(<<SectionOf(T, i), T[i].name>>)) =>
                            Fits(FieldOf(<<SectionOf(T, i), T[i].name>>).type, T, i)
<1>1. T \in Seq(FileLine) /\ Len(T) = 25 /\ DOMAIN T = 1..25
  BY TemplateLines, LenProperties
<1>2. /\ T[1].depth = 0 /\ T[1].name = "github" /\ T[1].kind = "none"
      /\ T[2].depth = 1 /\ T[2].name = "token" /\ T[2].kind = "word"
      /\ T[3].depth = 1 /\ T[3].name = "max_repos_per_run" /\ T[3].kind = "number"
      /\ T[4].depth = 1 /\ T[4].name = "max_prs_per_day" /\ T[4].kind = "number"
      /\ T[5].depth = 0 /\ T[5].name = "llm" /\ T[5].kind = "none"
      /\ T[6].depth = 1 /\ T[6].name = "provider" /\ T[6].kind = "word"
      /\ T[7].depth = 1 /\ T[7].name = "model" /\ T[7].kind = "word"
      /\ T[8].depth = 1 /\ T[8].name = "api_key" /\ T[8].kind = "word"
      /\ T[9].depth = 1 /\ T[9].name = "base_url" /\ T[9].kind = "word"
      /\ T[10].depth = 1 /\ T[10].name = "temperature" /\ T[10].kind = "number"
      /\ T[11].depth = 1 /\ T[11].name = "vertex_project" /\ T[11].kind = "word"
      /\ T[12].depth = 0 /\ T[12].name = "contribution" /\ T[12].kind = "none"
      /\ T[13].depth = 1 /\ T[13].name = "max_files_per_pr" /\ T[13].kind = "number"
      /\ T[14].depth = 1 /\ T[14].name = "style" /\ T[14].kind = "none"
      /\ T[15].depth = 2 /\ T[15].name = "commit_convention" /\ T[15].kind = "word"
      /\ T[16].depth = 0 /\ T[16].name = "discovery" /\ T[16].kind = "none"
      /\ T[17].depth = 1 /\ T[17].name = "languages" /\ T[17].kind = "none"
      /\ T[18].depth = 2 /\ T[18].name = "-" /\ T[18].kind = "word"
      /\ T[19].depth = 2 /\ T[19].name = "-" /\ T[19].kind = "word"
      /\ T[20].depth = 1 /\ T[20].name = "stars_range" /\ T[20].kind = "list"
      /\ T[21].depth = 0 /\ T[21].name = "scheduler" /\ T[21].kind = "none"
      /\ T[22].depth = 1 /\ T[22].name = "enabled" /\ T[22].kind = "boolean"
      /\ T[23].depth = 0 /\ T[23].name = "multi_model" /\ T[23].kind = "none"
      /\ T[24].depth = 1 /\ T[24].name = "enabled" /\ T[24].kind = "boolean"
      /\ T[25].depth = 1 /\ T[25].name = "strategy" /\ T[25].kind = "word"
  BY TemplateParts DEF IsLine
<1>3. ~T[3].quoted /\ ~T[4].quoted /\ ~T[10].quoted /\ ~T[13].quoted /\ ~T[14].quoted /\ ~T[17].quoted /\ ~T[20].quoted /\ ~T[22].quoted /\ ~T[24].quoted
  <2>1. \A n, t \in FileTexts : \A k \in LineKinds \cup {"none"} : Bare(n, t, k).quoted = FALSE
    BY MakersAre
  <2>2. /\ Bare("max_repos_per_run", "20", "number").quoted = FALSE
        /\ Bare("max_prs_per_day", "15", "number").quoted = FALSE
        /\ Bare("temperature", "0.3", "number").quoted = FALSE
        /\ Bare("max_files_per_pr", "10", "number").quoted = FALSE
        /\ Bare("style", NoText, "none").quoted = FALSE
        /\ Bare("languages", NoText, "none").quoted = FALSE
        /\ Bare("stars_range", StarsRange, "list").quoted = FALSE
        /\ Bare("enabled", "false", "boolean").quoted = FALSE
        /\ Bare("enabled", "true", "boolean").quoted = FALSE
    BY <2>1 DEF FileTexts, Written, LineKinds
  <2> QED  BY <2>2, TemplateLines
<1> HIDE DEF T
<1>11. Loads(1)
  <2> QED  BY <1>2
<1>12. Loads(2)
  <2>1. Below(T, 2) = <<>>
    <3>1. 2 \in 1..Len(T) /\ 2 + 1 = 3 /\ T[3].depth <= T[2].depth
      BY <1>1, <1>2
    <3> QED  BY <1>1, <3>1, BelowIsEmpty
  <2>2. IsHead(T, 2, 1)
    BY <1>2 DEF IsHead
  <2>3. SectionOf(T, 2) = "github"
    BY <1>2, <2>2, HeadIs
  <2>5. Fits("text", T, 2)
    BY <1>2, <1>3 DEF Fits
  <2>6. Fits(FieldOf(<<SectionOf(T, 2), T[2].name>>).type, T, 2)
    <3>1. FieldOf(<<"github", "token">>).type = "text"
      BY TemplateTypes
    <3>2. <<SectionOf(T, 2), T[2].name>> = <<"github", "token">>
      BY <1>2, <2>3
    <3> QED  BY <2>5, <3>1, <3>2
  <2> QED  BY <1>2, <2>1, <2>6
<1>13. Loads(3)
  <2>1. Below(T, 3) = <<>>
    <3>1. 3 \in 1..Len(T) /\ 3 + 1 = 4 /\ T[4].depth <= T[3].depth
      BY <1>1, <1>2
    <3> QED  BY <1>1, <3>1, BelowIsEmpty
  <2>2. IsHead(T, 3, 1)
    BY <1>2 DEF IsHead
  <2>3. SectionOf(T, 3) = "github"
    BY <1>2, <2>2, HeadIs
  <2> QED  BY <1>2, <2>1, <2>3, TemplateOthers
<1>14. Loads(4)
  <2>1. Below(T, 4) = <<>>
    <3>1. 4 \in 1..Len(T) /\ 4 + 1 = 5 /\ T[5].depth <= T[4].depth
      BY <1>1, <1>2
    <3> QED  BY <1>1, <3>1, BelowIsEmpty
  <2>2. IsHead(T, 4, 1)
    BY <1>2 DEF IsHead
  <2>3. SectionOf(T, 4) = "github"
    BY <1>2, <2>2, HeadIs
  <2>5. Fits("number", T, 4)
    BY <1>2, <1>3 DEF Fits
  <2>6. Fits(FieldOf(<<SectionOf(T, 4), T[4].name>>).type, T, 4)
    <3>1. FieldOf(<<"github", "max_prs_per_day">>).type = "number"
      BY TemplateTypes
    <3>2. <<SectionOf(T, 4), T[4].name>> = <<"github", "max_prs_per_day">>
      BY <1>2, <2>3
    <3> QED  BY <2>5, <3>1, <3>2
  <2> QED  BY <1>2, <2>1, <2>6
<1>15. Loads(5)
  <2> QED  BY <1>2
<1>16. Loads(6)
  <2>1. Below(T, 6) = <<>>
    <3>1. 6 \in 1..Len(T) /\ 6 + 1 = 7 /\ T[7].depth <= T[6].depth
      BY <1>1, <1>2
    <3> QED  BY <1>1, <3>1, BelowIsEmpty
  <2>2. IsHead(T, 6, 5)
    BY <1>2 DEF IsHead
  <2>3. SectionOf(T, 6) = "llm"
    BY <1>2, <2>2, HeadIs
  <2>5. Fits("text", T, 6)
    BY <1>2, <1>3 DEF Fits
  <2>6. Fits(FieldOf(<<SectionOf(T, 6), T[6].name>>).type, T, 6)
    <3>1. FieldOf(<<"llm", "provider">>).type = "text"
      BY TemplateTypes
    <3>2. <<SectionOf(T, 6), T[6].name>> = <<"llm", "provider">>
      BY <1>2, <2>3
    <3> QED  BY <2>5, <3>1, <3>2
  <2> QED  BY <1>2, <2>1, <2>6
<1>17. Loads(7)
  <2>1. Below(T, 7) = <<>>
    <3>1. 7 \in 1..Len(T) /\ 7 + 1 = 8 /\ T[8].depth <= T[7].depth
      BY <1>1, <1>2
    <3> QED  BY <1>1, <3>1, BelowIsEmpty
  <2>2. IsHead(T, 7, 5)
    BY <1>2 DEF IsHead
  <2>3. SectionOf(T, 7) = "llm"
    BY <1>2, <2>2, HeadIs
  <2>5. Fits("text", T, 7)
    BY <1>2, <1>3 DEF Fits
  <2>6. Fits(FieldOf(<<SectionOf(T, 7), T[7].name>>).type, T, 7)
    <3>1. FieldOf(<<"llm", "model">>).type = "text"
      BY TemplateTypes
    <3>2. <<SectionOf(T, 7), T[7].name>> = <<"llm", "model">>
      BY <1>2, <2>3
    <3> QED  BY <2>5, <3>1, <3>2
  <2> QED  BY <1>2, <2>1, <2>6
<1>18. Loads(8)
  <2>1. Below(T, 8) = <<>>
    <3>1. 8 \in 1..Len(T) /\ 8 + 1 = 9 /\ T[9].depth <= T[8].depth
      BY <1>1, <1>2
    <3> QED  BY <1>1, <3>1, BelowIsEmpty
  <2>2. IsHead(T, 8, 5)
    BY <1>2 DEF IsHead
  <2>3. SectionOf(T, 8) = "llm"
    BY <1>2, <2>2, HeadIs
  <2>5. Fits("text", T, 8)
    BY <1>2, <1>3 DEF Fits
  <2>6. Fits(FieldOf(<<SectionOf(T, 8), T[8].name>>).type, T, 8)
    <3>1. FieldOf(<<"llm", "api_key">>).type = "text"
      BY TemplateTypes
    <3>2. <<SectionOf(T, 8), T[8].name>> = <<"llm", "api_key">>
      BY <1>2, <2>3
    <3> QED  BY <2>5, <3>1, <3>2
  <2> QED  BY <1>2, <2>1, <2>6
<1>19. Loads(9)
  <2>1. Below(T, 9) = <<>>
    <3>1. 9 \in 1..Len(T) /\ 9 + 1 = 10 /\ T[10].depth <= T[9].depth
      BY <1>1, <1>2
    <3> QED  BY <1>1, <3>1, BelowIsEmpty
  <2>2. IsHead(T, 9, 5)
    BY <1>2 DEF IsHead
  <2>3. SectionOf(T, 9) = "llm"
    BY <1>2, <2>2, HeadIs
  <2>5. Fits("text", T, 9)
    BY <1>2, <1>3 DEF Fits
  <2>6. Fits(FieldOf(<<SectionOf(T, 9), T[9].name>>).type, T, 9)
    <3>1. FieldOf(<<"llm", "base_url">>).type = "text"
      BY TemplateTypes
    <3>2. <<SectionOf(T, 9), T[9].name>> = <<"llm", "base_url">>
      BY <1>2, <2>3
    <3> QED  BY <2>5, <3>1, <3>2
  <2> QED  BY <1>2, <2>1, <2>6
<1>20. Loads(10)
  <2>1. Below(T, 10) = <<>>
    <3>1. 10 \in 1..Len(T) /\ 10 + 1 = 11 /\ T[11].depth <= T[10].depth
      BY <1>1, <1>2
    <3> QED  BY <1>1, <3>1, BelowIsEmpty
  <2>2. IsHead(T, 10, 5)
    BY <1>2 DEF IsHead
  <2>3. SectionOf(T, 10) = "llm"
    BY <1>2, <2>2, HeadIs
  <2>5. Fits("number", T, 10)
    BY <1>2, <1>3 DEF Fits
  <2>6. Fits(FieldOf(<<SectionOf(T, 10), T[10].name>>).type, T, 10)
    <3>1. FieldOf(<<"llm", "temperature">>).type = "number"
      BY TemplateTypes
    <3>2. <<SectionOf(T, 10), T[10].name>> = <<"llm", "temperature">>
      BY <1>2, <2>3
    <3> QED  BY <2>5, <3>1, <3>2
  <2> QED  BY <1>2, <2>1, <2>6
<1>21. Loads(11)
  <2>1. Below(T, 11) = <<>>
    <3>1. 11 \in 1..Len(T) /\ 11 + 1 = 12 /\ T[12].depth <= T[11].depth
      BY <1>1, <1>2
    <3> QED  BY <1>1, <3>1, BelowIsEmpty
  <2>2. IsHead(T, 11, 5)
    BY <1>2 DEF IsHead
  <2>3. SectionOf(T, 11) = "llm"
    BY <1>2, <2>2, HeadIs
  <2>5. Fits("text", T, 11)
    BY <1>2, <1>3 DEF Fits
  <2>6. Fits(FieldOf(<<SectionOf(T, 11), T[11].name>>).type, T, 11)
    <3>1. FieldOf(<<"llm", "vertex_project">>).type = "text"
      BY TemplateTypes
    <3>2. <<SectionOf(T, 11), T[11].name>> = <<"llm", "vertex_project">>
      BY <1>2, <2>3
    <3> QED  BY <2>5, <3>1, <3>2
  <2> QED  BY <1>2, <2>1, <2>6
<1>22. Loads(12)
  <2> QED  BY <1>2
<1>23. Loads(13)
  <2>1. Below(T, 13) = <<>>
    <3>1. 13 \in 1..Len(T) /\ 13 + 1 = 14 /\ T[14].depth <= T[13].depth
      BY <1>1, <1>2
    <3> QED  BY <1>1, <3>1, BelowIsEmpty
  <2>2. IsHead(T, 13, 12)
    BY <1>2 DEF IsHead
  <2>3. SectionOf(T, 13) = "contribution"
    BY <1>2, <2>2, HeadIs
  <2> QED  BY <1>2, <2>1, <2>3, TemplateOthers
<1>24. Loads(14)
  <2>2. IsHead(T, 14, 12)
    BY <1>2 DEF IsHead
  <2>3. SectionOf(T, 14) = "contribution"
    BY <1>2, <2>2, HeadIs
  <2> QED  BY <1>2, <2>3, TemplateOthers
<1>25. Loads(15)
  <2>1. Below(T, 15) = <<>>
    <3>1. 15 \in 1..Len(T) /\ 15 + 1 = 16 /\ T[16].depth <= T[15].depth
      BY <1>1, <1>2
    <3> QED  BY <1>1, <3>1, BelowIsEmpty
  <2> QED  BY <1>2, <2>1
<1>26. Loads(16)
  <2> QED  BY <1>2
<1>27. Loads(17)
  <2>2. IsHead(T, 17, 16)
    BY <1>2 DEF IsHead
  <2>3. SectionOf(T, 17) = "discovery"
    BY <1>2, <2>2, HeadIs
  <2>4. Below(T, 17) # <<>>
    <3>1. 17 \in 1..Len(T) /\ 17 # Len(T) /\ 17 + 1 = 18 /\ ~(T[18].depth <= T[17].depth)
      BY <1>1, <1>2
    <3> QED  BY <1>1, <3>1, BelowIsEmpty
  <2>5. Fits("list", T, 17)
    BY <1>2, <1>3, <2>4 DEF Fits
  <2>6. Fits(FieldOf(<<SectionOf(T, 17), T[17].name>>).type, T, 17)
    <3>1. FieldOf(<<"discovery", "languages">>).type = "list"
      BY TemplateTypes
    <3>2. <<SectionOf(T, 17), T[17].name>> = <<"discovery", "languages">>
      BY <1>2, <2>3
    <3> QED  BY <2>5, <3>1, <3>2
  <2> QED  BY <1>2, <2>6
<1>28. Loads(18)
  <2>1. Below(T, 18) = <<>>
    <3>1. 18 \in 1..Len(T) /\ 18 + 1 = 19 /\ T[19].depth <= T[18].depth
      BY <1>1, <1>2
    <3> QED  BY <1>1, <3>1, BelowIsEmpty
  <2> QED  BY <1>2, <2>1
<1>29. Loads(19)
  <2>1. Below(T, 19) = <<>>
    <3>1. 19 \in 1..Len(T) /\ 19 + 1 = 20 /\ T[20].depth <= T[19].depth
      BY <1>1, <1>2
    <3> QED  BY <1>1, <3>1, BelowIsEmpty
  <2> QED  BY <1>2, <2>1
<1>30. Loads(20)
  <2>1. Below(T, 20) = <<>>
    <3>1. 20 \in 1..Len(T) /\ 20 + 1 = 21 /\ T[21].depth <= T[20].depth
      BY <1>1, <1>2
    <3> QED  BY <1>1, <3>1, BelowIsEmpty
  <2>2. IsHead(T, 20, 16)
    BY <1>2 DEF IsHead
  <2>3. SectionOf(T, 20) = "discovery"
    BY <1>2, <2>2, HeadIs
  <2>5. Fits("list", T, 20)
    BY <1>2, <1>3 DEF Fits
  <2>6. Fits(FieldOf(<<SectionOf(T, 20), T[20].name>>).type, T, 20)
    <3>1. FieldOf(<<"discovery", "stars_range">>).type = "list"
      BY TemplateTypes
    <3>2. <<SectionOf(T, 20), T[20].name>> = <<"discovery", "stars_range">>
      BY <1>2, <2>3
    <3> QED  BY <2>5, <3>1, <3>2
  <2> QED  BY <1>2, <2>1, <2>6
<1>31. Loads(21)
  <2> QED  BY <1>2
<1>32. Loads(22)
  <2>1. Below(T, 22) = <<>>
    <3>1. 22 \in 1..Len(T) /\ 22 + 1 = 23 /\ T[23].depth <= T[22].depth
      BY <1>1, <1>2
    <3> QED  BY <1>1, <3>1, BelowIsEmpty
  <2>2. IsHead(T, 22, 21)
    BY <1>2 DEF IsHead
  <2>3. SectionOf(T, 22) = "scheduler"
    BY <1>2, <2>2, HeadIs
  <2>5. Fits("boolean", T, 22)
    BY <1>2, <1>3 DEF Fits
  <2>6. Fits(FieldOf(<<SectionOf(T, 22), T[22].name>>).type, T, 22)
    <3>1. FieldOf(<<"scheduler", "enabled">>).type = "boolean"
      BY TemplateTypes
    <3>2. <<SectionOf(T, 22), T[22].name>> = <<"scheduler", "enabled">>
      BY <1>2, <2>3
    <3> QED  BY <2>5, <3>1, <3>2
  <2> QED  BY <1>2, <2>1, <2>6
<1>33. Loads(23)
  <2> QED  BY <1>2
<1>34. Loads(24)
  <2>1. Below(T, 24) = <<>>
    <3>1. 24 \in 1..Len(T) /\ 24 + 1 = 25 /\ T[25].depth <= T[24].depth
      BY <1>1, <1>2
    <3> QED  BY <1>1, <3>1, BelowIsEmpty
  <2>2. IsHead(T, 24, 23)
    BY <1>2 DEF IsHead
  <2>3. SectionOf(T, 24) = "multi_model"
    BY <1>2, <2>2, HeadIs
  <2>5. Fits("boolean", T, 24)
    BY <1>2, <1>3 DEF Fits
  <2>6. Fits(FieldOf(<<SectionOf(T, 24), T[24].name>>).type, T, 24)
    <3>1. FieldOf(<<"multi_model", "enabled">>).type = "boolean"
      BY TemplateTypes
    <3>2. <<SectionOf(T, 24), T[24].name>> = <<"multi_model", "enabled">>
      BY <1>2, <2>3
    <3> QED  BY <2>5, <3>1, <3>2
  <2> QED  BY <1>2, <2>1, <2>6
<1>35. Loads(25)
  <2>1. Below(T, 25) = <<>>
    <3>1. 25 \in 1..Len(T) /\ 25 = Len(T)
      BY <1>1
    <3> QED  BY <1>1, <3>1, BelowIsEmpty
  <2>2. IsHead(T, 25, 23)
    BY <1>2 DEF IsHead
  <2>3. SectionOf(T, 25) = "multi_model"
    BY <1>2, <2>2, HeadIs
  <2>5. Fits("text", T, 25)
    BY <1>2, <1>3 DEF Fits
  <2>6. Fits(FieldOf(<<SectionOf(T, 25), T[25].name>>).type, T, 25)
    <3>1. FieldOf(<<"multi_model", "strategy">>).type = "text"
      BY TemplateTypes
    <3>2. <<SectionOf(T, 25), T[25].name>> = <<"multi_model", "strategy">>
      BY <1>2, <2>3
    <3> QED  BY <2>5, <3>1, <3>2
  <2> QED  BY <1>2, <2>1, <2>6
<1> QED
  <2>1. \A i \in 1..25 : Loads(i)
    <3> HIDE DEF Loads
    <3> QED  BY <1>11, <1>12, <1>13, <1>14, <1>15, <1>16, <1>17, <1>18, <1>19, <1>20, <1>21, <1>22, <1>23, <1>24, <1>25, <1>26, <1>27, <1>28, <1>29, <1>30, <1>31, <1>32, <1>33, <1>34, <1>35
  <2> QED  BY <1>1, <2>1 DEF FromYaml, T

(***************************************************************************)
(* The wizard                                                              *)
(***************************************************************************)
\* No section has an empty name.
LEMMA NoTextIsNoSection == NoText # "llm" /\ NoText # "github" /\ NoText # "pipeline"
  BY Zenon DEF NoText

\* A line of the section is below a line of depth 0 that names it.
LEMMA SectionIsThere ==
  ASSUME NEW file, NEW key, key[1] = "llm", file \in Seq(FileLine), LinesOf(file, key) # {}
  PROVE  \E j \in Named(file, "llm") : file[j].depth = 0
<1>1. PICK i \in LinesOf(file, key) : TRUE
  OBVIOUS
<1>2. DOMAIN file = 1..Len(file) /\ Len(file) \in Nat
  BY LenProperties
<1>3. i \in 1..Len(file) /\ i \in Nat /\ SectionOf(file, i) = "llm"
  BY <1>2, AtIs
<1>4. ~(\A j \in 1..i : file[j].depth # 0)
  BY <1>3, NoHeadIs, NoTextIsNoSection
<1>5. PICK j : IsHead(file, i, j)
  BY <1>3, <1>4, HeadExists
<1>6. file[j].name = "llm"
  BY <1>3, <1>5, HeadIs
<1>7. j \in 1..Len(file) /\ file[j].depth = 0
  BY <1>2, <1>3, <1>5 DEF IsHead
<1> QED  BY <1>2, <1>6, <1>7 DEF Named

\* What an edit that says something leaves.
Edited(f, u, said) ==
  /\ IsEditable(u)
  /\ FromYaml(f) => FromYaml(u)
  /\ \A key : LinesOf(u, key) = {} => LinesOf(f, key) = {}
  /\ \A key : key[2] \in DOMAIN said /\ LinesOf(u, key) # {} => Holds(u, key, said[key[2]])
  /\ \A key : key[2] \notin DOMAIN said =>
       /\ FromYaml(f) => Setting(u, key) = Setting(f, key)
       /\ \A text : Holds(f, key, text) => Holds(u, key, text)

\* Answers written over lines are an edit that says them.
LEMMA RenewedIsEdited ==
  ASSUME NEW f, IsEditable(f), NEW said, AreAnswers(said), NEW g, Renewed(f, g, said)
  PROVE  Edited(f, g, said)
<1>1. IsEditable(g)
  BY RenewedKeepsLayout
<1>2. FromYaml(f) => FromYaml(g)
  BY RenewedLoads
<1>3. \A key : key[2] \in DOMAIN said /\ LinesOf(g, key) # {} => Holds(g, key, said[key[2]])
  BY RenewedSettings
<1>4. \A key : key[2] \notin DOMAIN said =>
        /\ FromYaml(f) => Setting(g, key) = Setting(f, key)
        /\ \A text : Holds(f, key, text) => Holds(g, key, text)
  BY RenewedSettings
<1>5. \A key : LinesOf(g, key) = {} => LinesOf(f, key) = {}
  BY RenewedSettings
<1> QED  BY <1>1, <1>2, <1>3, <1>4, <1>5 DEF Edited

\* So are answers with a new line for the endpoint.
LEMMA InsertedIsEdited ==
  ASSUME NEW f, IsEditable(f), NEW said, AreAnswers(said), NEW g, Renewed(f, g, said),
         NEW u, NEW a, NEW new, Inserted(g, u, a, new), g[a].kind # "none", new.kind = "word",
         "base_url" \in DOMAIN said, new.text = said["base_url"], Named(g, "base_url") = {}
  PROVE  Edited(f, u, said)
<1>1. IsEditable(g) /\ (FromYaml(f) => FromYaml(g))
  BY RenewedKeepsLayout, RenewedLoads
<1>2. /\ g \in Seq(FileLine) /\ u \in Seq(FileLine) /\ a \in 1..Len(g) /\ u[a + 1] = new
      /\ new.depth = 1 /\ new.name = "base_url"
  BY DEF Inserted
<1>3. IsEditable(u)
  <2>1. ASSUME NEW j \in 1..Len(u), u[j].name \in AnsweredNames PROVE u[j].depth = 1 /\ u[j].kind # "none"
    <3>1. CASE j = a + 1
      BY <1>2, <3>1
    <3>2. CASE j # a + 1
      <4>1. \E i \in 1..Len(g) : j = Down(a, i)
        BY <3>2, DownIs
      <4>2. PICK i \in 1..Len(g) : j = Down(a, i)
        BY <4>1
      <4>3. u[j] = g[i]
        BY <4>2, DownIs
      <4> QED  BY <1>1, <2>1, <4>3 DEF IsEditable
    <3> QED  BY <3>1, <3>2
  <2> QED  BY <1>2, <2>1 DEF IsEditable
<1>4. FromYaml(f) => FromYaml(u)
  BY <1>1, LoadsDown
<1>5. ASSUME NEW key, key[2] \in DOMAIN said, LinesOf(u, key) # {} PROVE Holds(u, key, said[key[2]])
  <2>1. CASE key[2] = "base_url"
    <3>1. LinesOf(u, key) = {a + 1}
      <4>1. LinesOf(u, key) = IF SectionOf(g, a) = key[1] THEN {a + 1} ELSE {}
        BY <2>1, LinesDown
      <4> QED  BY <1>5, <4>1
    <3>2. First(LinesOf(u, key)) = a + 1
      <4>1. LinesOf(u, key) \subseteq Nat
        BY <1>2, AtIs
      <4> QED  BY <1>5, <3>1, <4>1, FirstIsIn
    <3> QED  BY <1>2, <1>5, <2>1, <3>2 DEF Holds
  <2>2. CASE key[2] # "base_url"
    <3>1. LinesOf(g, key) # {}
      BY <1>5, <2>2, HoldsDown
    <3>2. Holds(g, key, said[key[2]])
      BY <1>5, <3>1, RenewedSettings
    <3> DEFINE text == said[key[2]]
    <3>3. Holds(g, key, text)
      BY <3>2
    <3> HIDE DEF text
    <3>4. Holds(u, key, text)
      BY <2>2, <3>3, HoldsDown
    <3> QED  BY <3>4 DEF text
  <2> QED  BY <2>1, <2>2
<1>6. ASSUME NEW key, key[2] \notin DOMAIN said
      PROVE  /\ FromYaml(f) => Setting(u, key) = Setting(f, key)
             /\ \A text : Holds(f, key, text) => Holds(u, key, text)
  <2>1. key[2] # "base_url"
    BY <1>6
  <2>2. ASSUME FromYaml(f) PROVE Setting(u, key) = Setting(f, key)
    <3>1. Below(g, a) = <<>>
      <4>1. DOMAIN g = 1..Len(g)
        BY <1>2, LenProperties
      <4> QED  BY <1>1, <1>2, <2>2, <4>1 DEF FromYaml
    <3>2. Setting(u, key) = Setting(g, key)
      BY <2>1, <3>1, SettingDown
    <3>3. Setting(g, key) = Setting(f, key)
      BY <1>6, RenewedSettings
    <3> QED  BY <3>2, <3>3
  <2>3. \A text : Holds(f, key, text) => Holds(u, key, text)
    <3>1. \A text : Holds(f, key, text) => Holds(g, key, text)
      BY <1>6, RenewedSettings
    <3>2. \A text : Holds(g, key, text) => Holds(u, key, text)
      BY <2>1, HoldsDown
    <3> QED  BY <3>1, <3>2
  <2> QED  BY <2>2, <2>3
<1>7. ASSUME NEW key, LinesOf(u, key) = {} PROVE LinesOf(f, key) = {}
  <2>1. LinesOf(g, key) = LinesOf(f, key)
    BY RenewedSettings
  <2>2. CASE key[2] = "base_url"
    BY <2>1, <2>2 DEF LinesOf, Named
  <2>3. CASE key[2] # "base_url"
    BY <1>7, <2>1, <2>3, HoldsDown
  <2> QED  BY <2>2, <2>3
<1> QED  BY <1>3, <1>4, <1>5, <1>6, <1>7 DEF Edited

\* The provider is written wherever the file has a line for it in its section.
LEMMA WizardIsEdited ==
  ASSUME NEW f, IsEditable(f), NEW answers, AreAnswers(answers), DOMAIN answers \cap Numbers = {},
         "base_url" \in DOMAIN answers, NEW limits, AreAnswers(limits), DOMAIN limits = Numbers,
         NEW u, u = ApplyWizardToYaml(f, answers, limits)
  PROVE  /\ Edited(f, u, Said(f, answers, limits))
         /\ \A key : key[1] = "llm" /\ LinesOf(u, key) # {} => Taken(f, answers) = DOMAIN answers
<1> DEFINE said == Said(f, answers, limits)
           g == Limited(f, answers, limits)
           first == First(Named(f, "api_key"))
           new == Words("base_url", answers.base_url)
<1>1. Renewed(f, g, said) /\ AreAnswers(said)
  BY LimitedIs
<1>2. /\ f \in Seq(FileLine) /\ g \in Seq(FileLine) /\ Len(f) \in Nat /\ Len(g) = Len(f)
      /\ DOMAIN f = 1..Len(f) /\ DOMAIN g = 1..Len(f)
      /\ \A i \in 1..Len(f) : g[i].name = f[i].name /\ g[i].depth = f[i].depth
      /\ IsEditable(g)
  <2>1. SameLayout(f, g) /\ IsEditable(g)
    BY <1>1, RenewedKeepsLayout
  <2> HIDE DEF g
  <2> QED  BY <2>1, LenProperties DEF SameLayout
<1>3. "base_url" \in DOMAIN said /\ said["base_url"] = answers.base_url
  BY DEF Said, Taken, Numbers
<1>4. u = IF Named(f, "base_url") = {} /\ Named(f, "api_key") # {}
          THEN InsertAt(g, first + 1, new) ELSE g
  BY DEF ApplyWizardToYaml, Limited, Taken
<1> HIDE DEF g, said
<1>5. \A key : key[1] = "llm" /\ LinesOf(f, key) # {} => Taken(f, answers) = DOMAIN answers
  BY <1>2, SectionIsThere DEF Taken
<1>6. \A key : LinesOf(g, key) = LinesOf(f, key)
  BY <1>1, RenewedSettings
<1>7. CASE u = g
  <2>1. Edited(f, u, said)
    BY <1>1, <1>7, RenewedIsEdited
  <2> QED  BY <1>5, <1>6, <1>7, <2>1 DEF said
<1>8. CASE Named(f, "base_url") = {} /\ Named(f, "api_key") # {} /\ u = InsertAt(g, first + 1, new)
  <2>1. Named(f, "api_key") \subseteq Nat
    BY <1>2 DEF Named
  <2>2. first \in Named(f, "api_key")
    BY <1>8, <2>1, FirstIsIn
  <2>3. first \in 1..Len(g) /\ g[first].name = "api_key"
    BY <1>2, <2>2 DEF Named
  <2>4. g[first].depth = 1 /\ g[first].kind # "none"
    BY <1>2, <2>3 DEF IsEditable, AnsweredNames
  <2>5. new \in FileLine /\ new.depth = 1 /\ new.name = "base_url" /\ new.kind = "word" /\ new.text = said["base_url"]
    <3>1. answers["base_url"] \in FileTexts /\ "base_url" \in FileTexts
      BY DEF AreAnswers, FileTexts, Written
    <3>2. new \in FileLine
      BY <3>1, WordsAreLines
    <3> QED  BY <1>3, <3>2 DEF Words
  <2> HIDE DEF first, new
  <2>6. Inserted(g, u, first, new)
    BY <1>2, <1>8, <2>3, <2>4, <2>5, InsertAtIs
  <2>7. Named(g, "base_url") = {}
    BY <1>2, <1>8 DEF Named
  <2>8. Edited(f, u, said)
    BY <1>1, <1>3, <2>4, <2>5, <2>6, <2>7, InsertedIsEdited
  <2>9. ASSUME NEW key, key[1] = "llm", LinesOf(u, key) # {} PROVE Taken(f, answers) = DOMAIN answers
    <3>1. CASE key[2] # "base_url"
      <4>1. LinesOf(g, key) # {}
        BY <2>6, <2>9, <3>1, HoldsDown
      <4> QED  BY <1>5, <1>6, <2>9, <4>1
    <3>2. CASE key[2] = "base_url"
      <4>1. SectionOf(g, first) = "llm"
        <5>1. LinesOf(u, key) = IF SectionOf(g, first) = key[1] THEN {first + 1} ELSE {}
          BY <2>6, <2>7, <3>2, LinesDown
        <5> QED  BY <2>9, <5>1
      <4> DEFINE other == <<"llm", "api_key">>
      <4>2. first \in LinesOf(g, other)
        BY <1>2, <2>3, <2>4, <4>1 DEF LinesOf
      <4>3. other[1] = "llm" /\ LinesOf(g, other) # {}
        BY <4>2
      <4> HIDE DEF other
      <4> QED  BY <1>5, <1>6, <4>3
    <3> QED  BY <3>1, <3>2
  <2> QED  BY <2>8, <2>9 DEF said
<1> QED  BY <1>4, <1>7, <1>8

(***************************************************************************)
(* What was told holds                                                     *)
(***************************************************************************)
\* A key is a section and a name.
IsPair(key) == key = <<key[1], key[2]>>

\* The file loads, holds what was said and has the other settings of the start.
IsTold(file, said, start) ==
  /\ FromYaml(file)
  /\ \A key : IsPair(key) /\ IsSetting(key) =>
       IF key \in DOMAIN said THEN Holds(file, key, said[key]) ELSE Setting(file, key) = Setting(start, key)

\* The settings that what was said is meant for: those the file has a line of.
MeantBy(M, file, said, text) ==
  \A key : IsPair(key) /\ IsSetting(key) =>
    /\ key \in M => key[2] \in DOMAIN said /\ LinesOf(file, key) # {} /\ text[key[2]] = said[key[2]]
    /\ (key[2] \in DOMAIN said /\ LinesOf(file, key) # {}) => key \in M

\* What is told afterwards: the texts said for the settings meant, else what was.
Extended(after, before, M, text) ==
  after = [key \in DOMAIN before \cup M |-> IF key \in M THEN text[key[2]] ELSE before[key]]

\* The same after one setting.
Added(after, before, key, text) ==
  after = [k \in DOMAIN before \cup {key} |-> IF k = key THEN text ELSE before[k]]

\* A setting that `config set' can replace: the first line by its key holds one value.
HasPlainLine(file, key) ==
  /\ LinesOf(file, key) # {}
  /\ file[First(LinesOf(file, key))].depth = 1 /\ Below(file, First(LinesOf(file, key))) = <<>>

\* IsTold: settings that an edit wrote, and no others.
LEMMA EditIsTold ==
  ASSUME NEW f, NEW u, NEW said, Edited(f, u, said), NEW before, NEW start, IsTold(f, before, start),
         NEW M, NEW text, MeantBy(M, u, said, text), NEW after, Extended(after, before, M, text)
  PROVE  IsTold(u, after, start)
<1> USE DEF MeantBy, Extended
<1>1. FromYaml(u) /\ FromYaml(f)
  BY DEF Edited, IsTold
<1>2. ASSUME NEW key, IsPair(key), IsSetting(key)
      PROVE  IF key \in DOMAIN after THEN Holds(u, key, after[key]) ELSE Setting(u, key) = Setting(start, key)
  <2>1. CASE key \in M
    <3>1. key[2] \in DOMAIN said /\ LinesOf(u, key) # {} /\ text[key[2]] = said[key[2]]
      BY <1>2, <2>1
    <3>2. Holds(u, key, said[key[2]])
      BY <3>1 DEF Edited
    <3>3. key \in DOMAIN after /\ after[key] = said[key[2]]
      BY <2>1, <3>1
    <3> QED  BY <3>2, <3>3
  <2>2. CASE key \notin M /\ key \in DOMAIN before
    <3>1. Holds(f, key, before[key])
      BY <1>2, <2>2 DEF IsTold
    <3>2. LinesOf(u, key) # {}
      BY <3>1 DEF Holds, Edited
    <3>3. key[2] \notin DOMAIN said
      BY <1>2, <2>2, <3>2
    <3>4. Holds(u, key, before[key])
      <4> DEFINE t == before[key]
      <4>1. Holds(f, key, t)
        BY <3>1
      <4> HIDE DEF t
      <4>2. Holds(u, key, t)
        BY <3>3, <4>1 DEF Edited
      <4> QED  BY <4>2 DEF t
    <3>5. key \in DOMAIN after /\ after[key] = before[key]
      BY <2>2
    <3> QED  BY <3>4, <3>5
  <2>3. CASE key \notin M /\ key \notin DOMAIN before
    <3>1. Setting(f, key) = Setting(start, key)
      BY <1>2, <2>3 DEF IsTold
    <3>2. Setting(u, key) = Setting(f, key)
      <4>1. CASE key[2] \in DOMAIN said
        <5>1. LinesOf(u, key) = {}
          BY <1>2, <2>3, <4>1
        <5>2. LinesOf(f, key) = {}
          BY <5>1 DEF Edited
        <5> QED  BY <5>1, <5>2 DEF Setting
      <4>2. CASE key[2] \notin DOMAIN said
        BY <1>1, <4>2 DEF Edited
      <4> QED  BY <4>1, <4>2
    <3>3. key \notin DOMAIN after
      BY <2>3
    <3> QED  BY <3>1, <3>2, <3>3
  <2> QED  BY <2>1, <2>2, <2>3
<1> QED  BY <1>1, <1>2 DEF IsTold

\* The settings that answers are meant for are those of the schema by these names.
LEMMA MeantIs ==
  ASSUME NEW file, NEW answers, DOMAIN answers \subseteq AnsweredNames, NEW key, IsPair(key), IsSetting(key)
  PROVE  key \in Meant(file, answers) <=> (key[2] \in DOMAIN answers /\ LinesOf(file, key) # {})
<1>1. ASSUME key[2] \in DOMAIN answers, LinesOf(file, key) # {} PROVE key \in Meant(file, answers)
  <2>1. key[1] \in {"github", "llm", "pipeline"} /\ (key[1] = "pipeline" => key[2] = "max_repos_per_run")
    <3>1. key[2] \in AnsweredNames
      BY <1>1
    <3> QED  BY <3>1, FieldIs
  <2>2. key \in {"github", "llm", "pipeline"} \X DOMAIN answers
    BY <1>1, <2>1 DEF IsPair
  <2> QED  BY <1>1, <2>1, <2>2 DEF Meant
<1>2. ASSUME key \in Meant(file, answers) PROVE key[2] \in DOMAIN answers /\ LinesOf(file, key) # {}
  BY <1>2 DEF Meant
<1> QED  BY <1>1, <1>2

\* `config set' of a value that suits its key.
LEMMA SetIsTold ==
  ASSUME NEW f, IsEditable(f), NEW key, IsPair(key), NEW value, value.text \in FileTexts, value.kind \in LineKinds,
         HasPlainLine(f, key), IsSetting(key) => Suits(value, FieldOf(key).type),
         NEW g, g = ReplaceYamlValue(f, key, value), NEW before, NEW start, IsTold(f, before, start),
         NEW after, Added(after, before, key, value.text)
  PROVE  IsTold(g, after, start)
<1> USE DEF HasPlainLine, Added
<1> DEFINE a == First(LinesOf(f, key))
<1>1. f \in Seq(FileLine)
  BY DEF IsEditable
<1>2. /\ SameLayout(f, g) /\ a \in 1..Len(f) /\ a \in LinesOf(f, key)
      /\ \A i \in 1..Len(f) : i # a => g[i] = f[i]
      /\ g[a].text = value.text /\ g[a].kind = value.kind /\ g[a].quoted = (value.kind = "word")
  BY <1>1, ReplaceIs
<1>3. f[a].depth = 1 /\ Below(f, a) = <<>>
  OBVIOUS
<1> HIDE DEF a
<1>4. f[a].name = key[2] /\ SectionOf(f, a) = key[1]
  BY <1>1, <1>2, AtIs
<1>5. \A j \in 1..Len(f) : f[j].depth > 1 => g[j] = f[j]
  <2> SUFFICES ASSUME NEW j \in 1..Len(f), f[j].depth > 1 PROVE j # a
    BY <1>2
  <2>1. ~(1 > 1)
    OBVIOUS
  <2> QED  BY <1>3, <2>1
<1>6. FromYaml(g)
  <2>1. ASSUME IsSetting(<<SectionOf(f, a), f[a].name>>)
        PROVE  Fits(FieldOf(<<SectionOf(f, a), f[a].name>>).type, g, a)
    <3>1. <<SectionOf(f, a), f[a].name>> = key
      BY <1>4 DEF IsPair
    <3>2. IsSetting(key)
      BY <2>1, <3>1
    <3>3. Suits(value, FieldOf(key).type) /\ FieldOf(key).type \in Types
      BY <3>2, FieldIs
    <3> DEFINE type == FieldOf(key).type
    <3>4. Suits(value, type) /\ type \in Types
      BY <3>3
    <3> HIDE DEF type
    <3>5. g[a].kind = value.kind
      BY <1>2
    <3>6. value.kind # "word" => ~g[a].quoted
      <4>1. g[a].quoted = (value.kind = "word")
        BY <1>2
      <4> QED  BY <4>1, Zenon
    <3>7. Fits(type, g, a)
      <4>1. CASE type = "text"
        BY <3>4, <3>5, <4>1 DEF Fits, Suits, LineKinds
      <4>2. CASE type = "list"
        BY <3>4, <3>5, <4>2 DEF Fits, Suits
      <4>3. CASE type = "number"
        <5>1. value.kind = "number"
          BY <3>4, <4>3 DEF Suits
        <5> QED  BY <3>5, <3>6, <4>3, <5>1 DEF Fits
      <4>4. CASE type = "boolean"
        <5>1. value.kind = "boolean"
          BY <3>4, <4>4 DEF Suits
        <5> QED  BY <3>5, <3>6, <4>4, <5>1 DEF Fits
      <4> QED  BY <3>4, <4>1, <4>2, <4>3, <4>4 DEF Types
    <3> QED  BY <3>1, <3>7 DEF type
  <2>2. \A i \in 1..Len(f) :
          \/ g[i] = f[i]
          \/ /\ f[i].depth = 1 /\ Below(f, i) = <<>>
             /\ IsSetting(<<SectionOf(f, i), f[i].name>>) =>
                  Fits(FieldOf(<<SectionOf(f, i), f[i].name>>).type, g, i)
    BY <1>2, <1>3, <2>1
  <2>3. FromYaml(f)
    BY DEF IsTold
  <2> QED  BY <1>2, <2>2, <2>3, FromYamlStays
<1>7. ASSUME NEW k, IsPair(k), IsSetting(k)
      PROVE  IF k \in DOMAIN after THEN Holds(g, k, after[k]) ELSE Setting(g, k) = Setting(start, k)
  <2>1. CASE k = key
    <3>1. LinesOf(g, key) = LinesOf(f, key)
      BY <1>2, SameLines
    <3>2. First(LinesOf(g, key)) = a
      BY <3>1 DEF a
    <3>3. g[a].depth = 1
      BY <1>2, <1>3 DEF SameLayout
    <3>4. Holds(g, key, value.text)
      BY <1>2, <3>1, <3>2, <3>3 DEF Holds
    <3>5. k \in DOMAIN after /\ after[k] = value.text
      BY <2>1
    <3> QED  BY <2>1, <3>4, <3>5
  <2>2. CASE k # key
    <3>1. ASSUME NEW j \in At(f, k) PROVE g[j] = f[j]
      <4>1. j \in LinesOf(f, k) /\ j \in 1..Len(f)
        BY <1>1, AtIs
      <4>2. j # a
        BY <1>2, <1>7, <2>2, <4>1, OneKey DEF IsPair
      <4> QED  BY <1>2, <4>1, <4>2
    <3>2. CASE k \in DOMAIN before
      <4> DEFINE t == before[k]
      <4>1. Holds(f, k, t)
        BY <1>7, <3>2 DEF IsTold
      <4>2. k \in DOMAIN after /\ after[k] = t
        BY <2>2, <3>2
      <4> HIDE DEF t
      <4>3. Holds(g, k, t)
        BY <1>2, <3>1, <4>1, HoldsStays
      <4> QED  BY <4>2, <4>3
    <3>3. CASE k \notin DOMAIN before
      <4>1. Setting(f, k) = Setting(start, k)
        BY <1>7, <3>3 DEF IsTold
      <4>2. Setting(g, k) = Setting(f, k)
        BY <1>2, <1>5, <3>1, SettingStays
      <4>3. k \notin DOMAIN after
        BY <2>2, <3>3
      <4> QED  BY <4>1, <4>2, <4>3
    <3> QED  BY <3>2, <3>3
  <2> QED  BY <2>1, <2>2
<1> QED  BY <1>6, <1>7 DEF IsTold

\* Whatever is set, the other keys read as before.
LEMMA SetKeepsTexts ==
  ASSUME NEW f, IsEditable(f), NEW key, IsPair(key), NEW value, value.text \in FileTexts, value.kind \in LineKinds,
         LinesOf(f, key) # {}, NEW g, g = ReplaceYamlValue(f, key, value),
         NEW k, IsPair(k), k # key
  PROVE  TextOf(g, k) = TextOf(f, k)
<1> DEFINE a == First(LinesOf(f, key))
<1>1. f \in Seq(FileLine)
  BY DEF IsEditable
<1>2. /\ SameLayout(f, g) /\ a \in LinesOf(f, key)
      /\ \A i \in 1..Len(f) : i # a => g[i] = f[i]
  BY <1>1, ReplaceIs
<1>3. g \in Seq(FileLine) /\ LinesOf(g, k) = LinesOf(f, k)
  BY <1>2, SameLines DEF SameLayout
<1>4. \A j \in LinesOf(f, k) : j \in 1..Len(f)
  BY <1>1, AtIs
<1> HIDE DEF a
<1>5. \A j \in LinesOf(f, k) : g[j] = f[j]
  <2> SUFFICES ASSUME NEW j \in LinesOf(f, k) PROVE j # a
    BY <1>2, <1>4
  <2> QED  BY <1>2, OneKey DEF IsPair
<1>6. At(g, k) = At(f, k) /\ At(f, k) \subseteq LinesOf(f, k)
  BY <1>3, <1>5 DEF At
<1>7. At(f, k) # {} => First(At(f, k)) \in At(f, k)
  BY <1>1, AtIs
<1>8. TextOf(f, k) = IF At(f, k) = {} THEN FieldOf(k).default ELSE f[First(At(f, k))].text
  BY <1>1, AtIs
<1>9. TextOf(g, k) = IF At(g, k) = {} THEN FieldOf(k).default ELSE g[First(At(g, k))].text
  BY <1>3, AtIs
<1> QED  BY <1>5, <1>6, <1>7, <1>8, <1>9

(***************************************************************************)
(* The file in use                                                         *)
(***************************************************************************)
\* The path in use when these files are found, and the file there.
PathOf(found) ==
  LET at == {i \in DOMAIN Candidates : Candidates[i] \in found}
  IN IF at = {} THEN Candidates[1] ELSE Candidates[First(at)]
UsedOf(fs) == IF PathOf(DOMAIN fs) \in DOMAIN fs THEN fs[PathOf(DOMAIN fs)] ELSE <<>>

\* The file in use, as a function of the files.
LEMMA InUseIs == InUse = UsedOf(files) /\ ResolveConfigPath = PathOf(DOMAIN files)
  BY DEF InUse, ResolveConfigPath, UsedOf, PathOf

\* The first candidate is in use if it is there.
LEMMA FirstCandidate ==
  ASSUME NEW found, "config.yaml" \in found
  PROVE  PathOf(found) = "config.yaml"
<1> DEFINE at == {i \in DOMAIN Candidates : Candidates[i] \in found}
<1>1. DOMAIN Candidates = 1..3 /\ Candidates[1] = "config.yaml"
  BY DEF Candidates
<1>2. 1 \in at /\ at \subseteq 1..3 /\ at \subseteq Nat
  BY <1>1
<1>3. First(at) \in at /\ First(at) <= 1
  <2> HIDE DEF at
  <2> QED  BY <1>2, FirstIsIn
<1>4. First(at) = 1
  <2>1. First(at) \in 1..3
    BY <1>2, <1>3
  <2> HIDE DEF at
  <2> QED  BY <1>3, <2>1
<1> QED  BY <1>1, <1>2, <1>4 DEF PathOf

\* Every file is.
FilesAreEditable(fs) == \A p \in DOMAIN fs : IsEditable(fs[p])

\* Without a file there is none to edit, and it loads.
LEMMA EmptyFile ==
  ASSUME NEW file, file = <<>>
  PROVE  /\ IsEditable(file) /\ FromYaml(file)
         /\ \A key : LinesOf(file, key) = {}
<1>1. file \in Seq(FileLine) /\ Len(file) = 0 /\ DOMAIN file = {}
  BY EmptySeq, LenProperties
<1> QED  BY <1>1 DEF IsEditable, FromYaml, LinesOf

\* The file in use is editable if all are.
LEMMA UsedIsEditable ==
  ASSUME NEW fs, FilesAreEditable(fs)
  PROVE  IsEditable(UsedOf(fs))
<1>1. CASE PathOf(DOMAIN fs) \in DOMAIN fs
  BY <1>1 DEF FilesAreEditable, UsedOf
<1>2. CASE PathOf(DOMAIN fs) \notin DOMAIN fs
  <2>1. UsedOf(fs) = <<>>
    BY <1>2 DEF UsedOf
  <2> QED  BY <2>1, EmptyFile
<1> QED  BY <1>1, <1>2

\* The file at a path, written anew.
LEMMA WrittenAt ==
  ASSUME NEW fs, FilesAreEditable(fs), NEW path, NEW u, IsEditable(u),
         NEW gs, gs = [p \in DOMAIN fs \cup {path} |-> IF p = path THEN u ELSE fs[p]]
  PROVE  /\ FilesAreEditable(gs)
         /\ path = "config.yaml" => UsedOf(gs) = u
         /\ path = PathOf(DOMAIN fs) => UsedOf(gs) = u
<1>1. FilesAreEditable(gs)
  BY DEF FilesAreEditable
<1>2. ASSUME path = "config.yaml" PROVE UsedOf(gs) = u
  <2>1. PathOf(DOMAIN gs) = path
    BY <1>2, FirstCandidate
  <2> QED  BY <2>1 DEF UsedOf
<1>3. ASSUME path = PathOf(DOMAIN fs) PROVE UsedOf(gs) = u
  <2>1. CASE path \in DOMAIN fs
    <3>1. DOMAIN gs = DOMAIN fs
      BY <2>1
    <3>2. PathOf(DOMAIN gs) = path
      BY <1>3, <3>1
    <3> QED  BY <3>2 DEF UsedOf
  <2>2. CASE path \notin DOMAIN fs
    <3>1. path = "config.yaml"
      <4> DEFINE at == {i \in DOMAIN Candidates : Candidates[i] \in DOMAIN fs}
      <4>1. at = {}
        <5> SUFFICES ASSUME at # {} PROVE FALSE
          OBVIOUS
        <5>1. at \subseteq Nat
          <6>1. DOMAIN Candidates = 1..3
            BY DEF Candidates
          <6> QED  BY <6>1
        <5>2. First(at) \in at
          <6> HIDE DEF at
          <6> QED  BY <5>1, FirstIsIn
        <5>3. path = Candidates[First(at)]
          BY <1>3 DEF PathOf
        <5> QED  BY <2>2, <5>2, <5>3
      <4>2. path = Candidates[1]
        BY <1>3, <4>1 DEF PathOf
      <4> QED  BY <4>2 DEF Candidates
    <3> QED  BY <1>2, <3>1
  <2> QED  BY <2>1, <2>2
<1> QED  BY <1>1, <1>2, <1>3

(***************************************************************************)
(* The answers                                                             *)
(***************************************************************************)
\* The credentials of a provider are its own.
LEMMA CredentialsAre ==
  ASSUME NEW p \in Providers, NEW c \in Credentials(p)
  PROVE  /\ DOMAIN c = {"provider", "model", "api_key", "base_url", "vertex_project"}
         /\ c["provider"] = p /\ c["model"] = DefaultModel(p)
         /\ c["api_key"] \in {NoText, p} /\ c["base_url"] \in {NoText, p}
         /\ c["base_url"] = c.base_url
         /\ AreAnswers(c) /\ DOMAIN c \cap Numbers = {}
<1> DEFINE Keys == IF p \in {"gemini", "openai", "anthropic"} THEN {NoText, p} ELSE {NoText}
           Ends == CASE p \in {"openai", "anthropic"} -> {NoText, p}
                     [] p = "ollama" -> {p}
                     [] OTHER -> {NoText}
           OwnProjects == IF p = "vertex" THEN {"project"} ELSE {NoText}
           model == DefaultModel(p)
<1>1. Keys \subseteq {NoText, p}
  OBVIOUS
<1>2. Ends \subseteq {NoText, p}
  <2>1. CASE p \in {"openai", "anthropic"}
    BY <2>1
  <2>2. CASE p = "ollama"
    BY <2>2
  <2>3. CASE p \notin {"openai", "anthropic", "ollama"}
    BY <2>3
  <2> QED  BY <2>1, <2>2, <2>3
<1>3. OwnProjects \subseteq {NoText, "project"}
  OBVIOUS
<1>4. model \in FileTexts
  BY DEF DefaultModel, FileTexts, Written
<1>5. c \in {[provider |-> p, model |-> model, api_key |-> k, base_url |-> u, vertex_project |-> v] :
               k \in Keys, u \in Ends, v \in OwnProjects}
  BY DEF Credentials
<1> HIDE DEF Keys, Ends, OwnProjects, model
<1>6. PICK k \in Keys, u \in Ends, v \in OwnProjects :
        c = [provider |-> p, model |-> model, api_key |-> k, base_url |-> u, vertex_project |-> v]
  BY <1>5
<1>7. {NoText, p, "project"} \subseteq FileTexts
  BY DEF Providers, FileTexts, Written
<1>8. k \in {NoText, p} /\ u \in {NoText, p} /\ v \in {NoText, "project"}
  BY <1>1, <1>2, <1>3, <1>6
<1>9. k \in FileTexts /\ u \in FileTexts /\ v \in FileTexts /\ p \in FileTexts
  BY <1>7, <1>8
<1>10. DOMAIN c = {"provider", "model", "api_key", "base_url", "vertex_project"}
  BY <1>6
<1>11. /\ c["provider"] = p /\ c["model"] = model /\ c["api_key"] = k /\ c["base_url"] = u
       /\ c["vertex_project"] = v
  BY <1>6
<1>12. AreAnswers(c)
  BY <1>4, <1>9, <1>10, <1>11 DEF AreAnswers, AnsweredNames
<1>13. DOMAIN c \cap Numbers = {}
  BY <1>10 DEF Numbers
<1> QED  BY <1>8, <1>10, <1>11, <1>12, <1>13 DEF model

\* A file that names provider and model by these answers is paired.
LEMMA AnsweredIsPaired ==
  ASSUME NEW p \in Providers, NEW c \in Credentials(p), NEW u, u \in Seq(FileLine), NamesProvider(u),
         \A key : (key[1] = "llm" /\ key[2] \in DOMAIN c /\ LinesOf(u, key) # {}) => Holds(u, key, c[key[2]])
  PROVE  IsPaired(u)
<1>1. /\ DOMAIN c = {"provider", "model", "api_key", "base_url", "vertex_project"}
      /\ c["provider"] = p /\ c["model"] = DefaultModel(p)
      /\ c["api_key"] \in {NoText, p} /\ c["base_url"] \in {NoText, p}
  BY CredentialsAre
<1>2. ASSUME NEW n \in DOMAIN c, LinesOf(u, <<"llm", n>>) # {} PROVE TextOf(u, <<"llm", n>>) = c[n]
  <2> DEFINE key == <<"llm", n>>
  <2>1. key[1] = "llm" /\ key[2] = n /\ LinesOf(u, key) # {}
    BY <1>2
  <2> HIDE DEF key
  <2>2. Holds(u, key, c[n])
    BY <2>1
  <2>3. TextOf(u, key) = c[n]
    BY <2>2, HoldsIsRead
  <2> QED  BY <2>3 DEF key
<1>3. TextOf(u, <<"llm", "provider">>) = p /\ TextOf(u, <<"llm", "model">>) = DefaultModel(p)
  BY <1>1, <1>2 DEF NamesProvider
<1>4. ASSUME NEW n \in {"api_key", "base_url"}, LinesOf(u, <<"llm", n>>) = {}
      PROVE  TextOf(u, <<"llm", n>>) = NoText
  <2>1. FieldOf(<<"llm", n>>).default = NoText
    BY SectionsAre DEF FieldOf, LlmFields, Text
  <2> QED  BY <1>4, <2>1 DEF TextOf, Setting
<1>5. TextOf(u, <<"llm", "api_key">>) \in {NoText, p}
  BY <1>1, <1>2, <1>4
<1>6. TextOf(u, <<"llm", "base_url">>) \in {NoText, p}
  BY <1>1, <1>2, <1>4
<1> QED  BY <1>3, <1>5, <1>6 DEF IsPaired

\* A call goes out with what is paired.
LEMMA PairedIsLoaded ==
  ASSUME paired => IsPaired(InUse)
  PROVE  CredentialsAreTheProviders
<1> SUFFICES ASSUME paired
             PROVE  /\ LoadConfig.api_key \in {NoText, LoadConfig.provider}
                    /\ LoadConfig.base_url \in {NoText, LoadConfig.provider}
                    /\ LoadConfig.model = DefaultModel(LoadConfig.provider)
  BY DEF CredentialsAreTheProviders
<1> DEFINE file == IF FromYaml(InUse) THEN InUse ELSE <<>>
           provider == TextOf(file, <<"llm", "provider">>)
           key == TextOf(file, <<"llm", "api_key">>)
<1>1. IsPaired(file)
  <2>1. CASE FromYaml(InUse)
    BY <2>1
  <2>2. CASE ~FromYaml(InUse)
    <3>1. \A k : LinesOf(file, k) = {}
      BY <2>2, EmptyFile
    <3>2. \A k : TextOf(file, k) = FieldOf(k).default
      BY <3>1 DEF TextOf, Setting
    <3>3. /\ FieldOf(<<"llm", "provider">>).default = "gemini"
          /\ FieldOf(<<"llm", "model">>).default = "gemini-3-flash-preview"
          /\ FieldOf(<<"llm", "api_key">>).default = NoText /\ FieldOf(<<"llm", "base_url">>).default = NoText
      BY SectionsAre DEF FieldOf, LlmFields, Text
    <3>4. DefaultModel("gemini") = "gemini-3-flash-preview"
      BY DEF DefaultModel
    <3> HIDE DEF file
    <3> QED  BY <3>2, <3>3, <3>4 DEF IsPaired
  <2> QED  BY <2>1, <2>2
<1>2. LoadConfig = ResolveSecrets(file, environment)
  BY DEF LoadConfig
<1> HIDE DEF file
<1>3. /\ LoadConfig.provider = provider /\ LoadConfig.model = TextOf(file, <<"llm", "model">>)
      /\ LoadConfig.base_url = TextOf(file, <<"llm", "base_url">>)
      /\ LoadConfig.api_key = IF key = NoText THEN EnvironmentKey(provider, environment) ELSE key
  BY <1>2 DEF ResolveSecrets
<1>4. EnvironmentKey(provider, environment) \in {NoText, provider}
  BY DEF EnvironmentKey
<1>5. /\ TextOf(file, <<"llm", "model">>) = DefaultModel(provider) /\ key \in {NoText, provider}
      /\ TextOf(file, <<"llm", "base_url">>) \in {NoText, provider}
  BY <1>1 DEF IsPaired
<1> HIDE DEF provider, key
<1> QED  BY <1>3, <1>4, <1>5

(***************************************************************************)
(* The settings under every command                                        *)
(***************************************************************************)
\* The files can be edited; the file in use is paired, if it should be; and unless
\* something was misused, what was told holds.
SettingsInvariant ==
  /\ FilesAreEditable(files)
  /\ paired => IsPaired(InUse)
  /\ ~misused => IsTold(InUse, told, origin)

\* A usual file is editable.
LEMMA UsualIsEditable ==
  ASSUME NEW file, IsUsual(file)
  PROVE  IsEditable(file)
<1>1. YamlLine \subseteq FileLine
  <2> SUFFICES ASSUME NEW line \in YamlLine PROVE line \in FileLine
    OBVIOUS
  <2> QED  BY DEF YamlLine, FileLine, FileTexts, LineKinds
<1>2. file \in Seq(FileLine)
  BY <1>1, SeqMonotonic DEF IsUsual
<1> QED  BY <1>2 DEF IsUsual, IsEditable

\* The files found at first are.
LEMMA SettingsStart ==
  ASSUME SettingsInit
  PROVE  SettingsInvariant
<1>1. PICK found \in InitialFiles, env \in Environments : SettingsAt(found, env)
  BY DEF SettingsInit
<1>2. FilesAreEditable(files)
  BY <1>1, SettingsAssumption, UsualIsEditable DEF SettingsAt, FilesAreEditable
<1>3. paired => IsPaired(InUse)
  BY <1>1 DEF SettingsAt
<1>4. origin = InUse /\ DOMAIN told = {} /\ (~misused => FromYaml(InUse))
  BY <1>1 DEF SettingsAt
<1>5. ~misused => IsTold(InUse, told, origin)
  BY <1>4 DEF IsTold
<1> QED  BY <1>2, <1>3, <1>5 DEF SettingsInvariant

\* A command that writes nothing leaves it so.
LEMMA SettingsStay ==
  ASSUME SettingsInvariant, UNCHANGED <<files, told, origin, misused, paired>>
  PROVE  SettingsInvariant'
<1>1. InUse' = InUse
  BY DEF InUse, ResolveConfigPath
<1> QED  BY <1>1 DEF SettingsInvariant, FilesAreEditable, IsTold

\* `config set' (config_editor.rs:168-215).
LEMMA SettingsAreSet ==
  ASSUME SettingsInvariant, NEW r \in Assignments, SetConfigValue(r.key, r.value), UNCHANGED origin
  PROVE  SettingsInvariant'
<1> DEFINE key == r.key
           value == r.value
           path == ResolveConfigPath
           f == files[path]
           a == First(LinesOf(f, key))
           g == ReplaceYamlValue(f, key, value)
<1>1. IsPair(key) /\ value.text \in FileTexts /\ value.kind \in LineKinds
  BY SettingsAssumption DEF IsPair, FileTexts, LineKinds
<1>2. CASE UNCHANGED <<files, told, misused, paired>>
  BY <1>2, SettingsStay
<1>3. CASE /\ path \in DOMAIN files /\ LinesOf(f, key) # {}
           /\ files' = [files EXCEPT ![path] = g]
           /\ told' = [k \in DOMAIN told \cup {key} |-> IF k = key THEN value.text ELSE told[k]]
           /\ misused' = \/ misused
                         \/ f[a].depth # 1
                         \/ Below(f, a) # <<>>
                         \/ IsSetting(key) /\ ~Suits(value, FieldOf(key).type)
           /\ paired' = (paired /\ key \notin {<<"llm", n>> : n \in {"provider", "model", "api_key", "base_url"}})
  <2>1. files' = [p \in DOMAIN files \cup {path} |-> IF p = path THEN g ELSE files[p]]
    BY <1>3
  <2>2. IsEditable(f) /\ FilesAreEditable(files) /\ path = PathOf(DOMAIN files)
    BY <1>3, InUseIs DEF SettingsInvariant, FilesAreEditable
  <2>3. InUse = f
    BY <1>3 DEF InUse
  <2> HIDE DEF key, value, path, f
  <2>4. IsEditable(g)
    BY <1>1, <1>3, <2>2, ReplaceIsEditable
  <2> HIDE DEF g, a
  <2>5. FilesAreEditable(files') /\ UsedOf(files') = g
    BY <2>1, <2>2, <2>4, WrittenAt
  <2>6. InUse' = g
    <3>1. InUse' = UsedOf(files')
      BY DEF InUse, ResolveConfigPath, UsedOf, PathOf
    <3> QED  BY <2>5, <3>1
  <2>7. paired' => IsPaired(g)
    <3> SUFFICES ASSUME paired, key \notin {<<"llm", n>> : n \in {"provider", "model", "api_key", "base_url"}}
                 PROVE  IsPaired(g)
      BY <1>3
    <3>1. IsPaired(f)
      BY <2>3 DEF SettingsInvariant
    <3>2. ASSUME NEW n \in {"provider", "model", "api_key", "base_url"}
          PROVE  TextOf(g, <<"llm", n>>) = TextOf(f, <<"llm", n>>)
      <4> DEFINE k == <<"llm", n>>
      <4>1. IsPair(k) /\ k # key
        BY DEF IsPair
      <4> HIDE DEF k
      <4>2. TextOf(g, k) = TextOf(f, k)
        BY <1>1, <1>3, <2>2, <4>1, SetKeepsTexts DEF g
      <4> QED  BY <4>2 DEF k
    <3> QED  BY <3>1, <3>2 DEF IsPaired
  <2>8. ~misused' => IsTold(g, told', origin)
    <3> SUFFICES ASSUME ~misused' PROVE IsTold(g, told', origin)
      OBVIOUS
    <3>1. /\ ~misused /\ f[a].depth = 1 /\ Below(f, a) = <<>>
          /\ IsSetting(key) => Suits(value, FieldOf(key).type)
      BY <1>3
    <3>2. IsTold(f, told, origin)
      BY <2>3, <3>1 DEF SettingsInvariant
    <3>3. HasPlainLine(f, key)
      BY <1>3, <3>1 DEF a, HasPlainLine
    <3> DEFINE after == told'
    <3>4. Added(after, told, key, value.text)
      BY <1>3 DEF Added
    <3>5. g = ReplaceYamlValue(f, key, value) /\ (IsSetting(key) => Suits(value, FieldOf(key).type))
      BY <3>1 DEF g
    <3> HIDE DEF after
    <3>6. IsTold(g, after, origin)
      BY <1>1, <2>2, <3>2, <3>3, <3>4, <3>5, SetIsTold
    <3> QED  BY <3>6 DEF after
  <2> QED  BY <2>5, <2>6, <2>7, <2>8 DEF SettingsInvariant, FilesAreEditable
<1> QED  BY <1>2, <1>3 DEF SetConfigValue

\* An edit of the first file, by the menu of `login'.
LEMMA LoginIsTold ==
  ASSUME SettingsInvariant, NEW answers, AreAnswers(answers), DOMAIN answers \cap Numbers = {},
         "config.yaml" \in DOMAIN files,
         files' = [files EXCEPT !["config.yaml"] = Rewritten(@, answers)],
         told' = Heard(files["config.yaml"], answers),
         UNCHANGED <<origin, misused>>
  PROVE  /\ InUse = files["config.yaml"] /\ InUse' = Rewritten(InUse, answers) /\ IsEditable(InUse)
         /\ FilesAreEditable(files')
         /\ ~misused' => IsTold(InUse', told', origin')
<1> DEFINE path == "config.yaml"
           f == files[path]
           u == Rewritten(f, answers)
<1>1. f = files["config.yaml"] /\ u = Rewritten(f, answers)
  OBVIOUS
<1>2. PathOf(DOMAIN files) = path
  BY FirstCandidate
<1>3. InUse = f
  BY <1>2, InUseIs DEF UsedOf
<1>4. IsEditable(f) /\ FilesAreEditable(files)
  BY DEF SettingsInvariant, FilesAreEditable
<1>5. files' = [p \in DOMAIN files \cup {path} |-> IF p = path THEN u ELSE files[p]]
  OBVIOUS
<1> HIDE DEF f, u
<1>6. Renewed(f, u, answers)
  BY <1>1, <1>4, RewrittenIs
<1>7. Edited(f, u, answers) /\ IsEditable(u)
  BY <1>4, <1>6, RenewedIsEdited DEF Edited
<1>8. \A key : LinesOf(u, key) = LinesOf(f, key)
  BY <1>4, <1>6, RenewedSettings
<1>9. FilesAreEditable(files') /\ UsedOf(files') = u
  <2> DEFINE gs == files'
  <2>1. gs = [p \in DOMAIN files \cup {path} |-> IF p = path THEN u ELSE files[p]]
    BY <1>5
  <2> HIDE DEF gs
  <2>2. FilesAreEditable(gs) /\ UsedOf(gs) = u
    BY <1>4, <1>7, <2>1, WrittenAt
  <2> QED  BY <2>2 DEF gs
<1>10. InUse' = u
  <2>1. InUse' = UsedOf(files')
    BY DEF InUse, ResolveConfigPath, UsedOf, PathOf
  <2> QED  BY <1>9, <2>1
<1>11. ASSUME ~misused' PROVE IsTold(u, told', origin)
  <2> DEFINE M == Meant(f, answers)
             after == told'
  <2>1. IsTold(f, told, origin)
    BY <1>3, <1>11 DEF SettingsInvariant
  <2>2. Extended(after, told, M, answers)
    BY <1>1 DEF Heard, Extended
  <2>3. MeantBy(M, u, answers, answers)
    BY <1>8, MeantIs DEF AreAnswers, MeantBy
  <2> HIDE DEF M, after
  <2>4. IsTold(u, after, origin)
    BY <1>7, <2>1, <2>2, <2>3, EditIsTold
  <2> QED  BY <2>4 DEF after
<1> QED  BY <1>1, <1>3, <1>4, <1>9, <1>10, <1>11

\* `login', another provider (login.rs:215-341).
LEMMA ProviderIsSwitched ==
  ASSUME SettingsInvariant, NEW p \in Providers, NEW c \in Credentials(p), SwitchProvider(c)
  PROVE  SettingsInvariant'
<1>1. CASE UNCHANGED <<files, told, origin, misused, paired>>
  BY <1>1, SettingsStay
<1>2. CASE /\ "config.yaml" \in DOMAIN files
           /\ files' = [files EXCEPT !["config.yaml"] = Rewritten(@, c)]
           /\ told' = Heard(files["config.yaml"], c)
           /\ paired' = NamesProvider(files["config.yaml"])
           /\ UNCHANGED <<origin, misused>>
  <2>1. AreAnswers(c) /\ DOMAIN c \cap Numbers = {}
    BY CredentialsAre
  <2>2. /\ InUse = files["config.yaml"] /\ InUse' = Rewritten(InUse, c) /\ IsEditable(InUse)
        /\ FilesAreEditable(files')
        /\ ~misused' => IsTold(InUse', told', origin')
    BY <1>2, <2>1, LoginIsTold
  <2> DEFINE f == InUse
             u == Rewritten(f, c)
  <2>3. InUse' = u /\ IsEditable(f) /\ paired' = NamesProvider(f)
    BY <1>2, <2>2
  <2> HIDE DEF f
  <2>4. Renewed(f, u, c)
    BY <2>1, <2>3, RewrittenIs
  <2> HIDE DEF u
  <2>5. Edited(f, u, c) /\ u \in Seq(FileLine)
    BY <2>1, <2>3, <2>4, RenewedIsEdited DEF Renewed
  <2>6. \A key : LinesOf(u, key) = LinesOf(f, key)
    BY <2>1, <2>3, <2>4, RenewedSettings
  <2>7. paired' => IsPaired(u)
    <3> SUFFICES ASSUME NamesProvider(f) PROVE IsPaired(u)
      BY <2>3
    <3>1. NamesProvider(u)
      BY <2>6 DEF NamesProvider
    <3>2. \A key : (key[1] = "llm" /\ key[2] \in DOMAIN c /\ LinesOf(u, key) # {}) => Holds(u, key, c[key[2]])
      BY <2>5 DEF Edited
    <3> QED  BY <2>5, <3>1, <3>2, AnsweredIsPaired
  <2>8. (paired => IsPaired(InUse))'
    BY <2>3, <2>7
  <2> QED  BY <2>2, <2>8 DEF SettingsInvariant, FilesAreEditable
<1> QED  BY <1>1, <1>2 DEF SwitchProvider, Candidates

\* `login', another token (login.rs:343-383).
LEMMA TokenIsSet ==
  ASSUME SettingsInvariant, NEW token \in {NoText, "new"}, SetGitHubToken(token)
  PROVE  SettingsInvariant'
<1> DEFINE c == [n \in {"token"} |-> token]
<1>1. CASE UNCHANGED <<files, told, origin, misused, paired>>
  BY <1>1, SettingsStay
<1>2. CASE /\ "config.yaml" \in DOMAIN files
           /\ files' = [files EXCEPT !["config.yaml"] = Rewritten(@, c)]
           /\ told' = Heard(files["config.yaml"], c)
           /\ UNCHANGED <<origin, misused, paired>>
  <2>1. AreAnswers(c) /\ DOMAIN c \cap Numbers = {} /\ DOMAIN c = {"token"}
    <3>1. token \in FileTexts
      BY DEF FileTexts, Written
    <3> QED  BY <3>1 DEF AreAnswers, AnsweredNames, Numbers
  <2> HIDE DEF c
  <2>2. /\ InUse = files["config.yaml"] /\ InUse' = Rewritten(InUse, c) /\ IsEditable(InUse)
        /\ FilesAreEditable(files')
        /\ ~misused' => IsTold(InUse', told', origin')
    BY <1>2, <2>1, LoginIsTold
  <2> DEFINE f == InUse
             u == Rewritten(f, c)
  <2>3. InUse' = u /\ IsEditable(f) /\ (paired' => IsPaired(f))
    BY <1>2, <2>2 DEF SettingsInvariant
  <2> HIDE DEF f
  <2>4. Renewed(f, u, c)
    BY <2>1, <2>3, RewrittenIs
  <2> HIDE DEF u
  <2>5. ASSUME NEW n \in {"provider", "model", "api_key", "base_url"}
        PROVE  TextOf(u, <<"llm", n>>) = TextOf(f, <<"llm", n>>)
    <3> DEFINE key == <<"llm", n>>
    <3>1. key[2] \notin DOMAIN c
      BY <2>1
    <3> HIDE DEF key
    <3>2. Setting(u, key) = Setting(f, key)
      BY <2>1, <2>3, <2>4, <3>1, RenewedSettings
    <3> QED  BY <3>2 DEF TextOf, key
  <2>6. IsPaired(f) => IsPaired(u)
    BY <2>5 DEF IsPaired
  <2>7. (paired => IsPaired(InUse))'
    BY <2>3, <2>6
  <2> QED  BY <2>2, <2>7 DEF SettingsInvariant, FilesAreEditable
<1> QED  BY <1>1, <1>2 DEF SetGitHubToken, Candidates

\* The limits that `init' is answered with.
Limits == [max_prs_per_day |-> "3", max_repos_per_run |-> "4"]

\* The limits asked for are numbers.
LEMMA LimitsAre == AreAnswers(Limits) /\ DOMAIN Limits = Numbers
<1>1. DOMAIN Limits = {"max_prs_per_day", "max_repos_per_run"} /\ \A n \in DOMAIN Limits : Limits[n] \in {"3", "4"}
  BY DEF Limits
<1> QED  BY <1>1 DEF AreAnswers, AnsweredNames, Numbers, FileTexts, Written

\* `init' (wizard.rs:379-407): the first file, or the template for it.
LEMMA WizardIsRun ==
  ASSUME SettingsInvariant, NEW p \in Providers, NEW c \in Credentials(p), NEW token \in {NoText, "mine"},
         RunInitWizard(c, token, Limits)
  PROVE  SettingsInvariant'
<1> DEFINE path == "config.yaml"
           f == IF path \in DOMAIN files THEN files[path] ELSE DefaultConfigTemplate
           all == [n \in DOMAIN c \cup {"token"} |-> IF n = "token" THEN token ELSE c[n]]
           u == ApplyWizardToYaml(f, all, Limits)
           heard == [n \in DOMAIN all \cup DOMAIN Limits |-> IF n \in DOMAIN all THEN all[n] ELSE Limits[n]]
           before == IF path \in DOMAIN files THEN told ELSE [k \in {} |-> NoText]
           M == Meant(u, heard)
           said == Said(f, all, Limits)
<1>1. /\ files' = [q \in DOMAIN files \cup {path} |-> IF q = path THEN u ELSE files[q]]
      /\ told' = [k \in DOMAIN before \cup M |-> IF k \in M THEN heard[k[2]] ELSE before[k]]
      /\ origin' = IF path \in DOMAIN files THEN origin ELSE DefaultConfigTemplate
      /\ misused' = (misused /\ path \in DOMAIN files)
      /\ paired' = NamesProvider(u)
  BY DEF RunInitWizard, Candidates
<1>2. /\ DOMAIN c = {"provider", "model", "api_key", "base_url", "vertex_project"}
      /\ AreAnswers(c) /\ DOMAIN c \cap Numbers = {}
  BY CredentialsAre
<1>3. /\ DOMAIN all = {"provider", "model", "api_key", "base_url", "vertex_project", "token"}
      /\ \A n \in DOMAIN c : all[n] = c[n]
  BY <1>2
<1>4. AreAnswers(all) /\ DOMAIN all \cap Numbers = {} /\ "base_url" \in DOMAIN all
  <2>1. token \in FileTexts
    BY DEF FileTexts, Written
  <2> QED  BY <1>2, <1>3, <2>1 DEF AreAnswers, AnsweredNames, Numbers
<1>5. IsEditable(f) /\ FilesAreEditable(files)
  BY TemplateIsEditable DEF SettingsInvariant, FilesAreEditable
<1>6. DOMAIN heard = DOMAIN all \cup Numbers /\ DOMAIN heard \subseteq AnsweredNames
  BY <1>4, LimitsAre DEF AreAnswers
<1>7. /\ \A n \in DOMAIN all : heard[n] = all[n]
      /\ \A n \in Numbers : n \notin DOMAIN all /\ heard[n] = Limits[n]
  BY <1>4, LimitsAre
<1>8. u = ApplyWizardToYaml(f, all, Limits) /\ said = Said(f, all, Limits)
  OBVIOUS
<1>9. /\ DOMAIN said = Taken(f, all) \cup Numbers
      /\ \A n \in DOMAIN said : said[n] = IF n \in Numbers THEN Limits[n] ELSE all[n]
  BY LimitsAre DEF Said
<1>10. DOMAIN all \ {"provider"} \subseteq Taken(f, all) /\ Taken(f, all) \subseteq DOMAIN all
  BY DEF Taken
<1>11. path \in DOMAIN files => InUse = f
  <2> SUFFICES ASSUME path \in DOMAIN files PROVE InUse = f
    OBVIOUS
  <2>1. PathOf(DOMAIN files) = path
    BY FirstCandidate
  <2> QED  BY <2>1, InUseIs DEF UsedOf
<1>12. path \notin DOMAIN files => f = DefaultConfigTemplate /\ DOMAIN before = {}
  OBVIOUS
<1>13. path \in DOMAIN files => before = told
  OBVIOUS
<1> HIDE DEF f, all, u, heard, before, said
<1>14. /\ Edited(f, u, said)
       /\ \A key : key[1] = "llm" /\ LinesOf(u, key) # {} => Taken(f, all) = DOMAIN all
  BY <1>4, <1>5, <1>8, LimitsAre, WizardIsEdited
<1>15. IsEditable(u)
  BY <1>14 DEF Edited
<1>16. FilesAreEditable(files') /\ UsedOf(files') = u
  <2> DEFINE gs == files'
  <2>1. gs = [q \in DOMAIN files \cup {path} |-> IF q = path THEN u ELSE files[q]]
    BY <1>1
  <2> HIDE DEF gs
  <2>2. FilesAreEditable(gs) /\ UsedOf(gs) = u
    BY <1>5, <1>15, <2>1, WrittenAt
  <2> QED  BY <2>2 DEF gs
<1>17. InUse' = u
  <2>1. InUse' = UsedOf(files')
    BY DEF InUse, ResolveConfigPath, UsedOf, PathOf
  <2> QED  BY <1>16, <2>1
<1>18. ASSUME NamesProvider(u) PROVE IsPaired(u)
  <2>1. u \in Seq(FileLine)
    BY <1>15 DEF IsEditable
  <2>2. ASSUME NEW key, key[1] = "llm", key[2] \in DOMAIN c, LinesOf(u, key) # {} PROVE Holds(u, key, c[key[2]])
    <3>1. key[2] \in DOMAIN said
      BY <1>2, <1>3, <1>9, <1>14, <2>2
    <3>2. Holds(u, key, said[key[2]])
      BY <1>14, <2>2, <3>1 DEF Edited
    <3>3. said[key[2]] = c[key[2]]
      BY <1>2, <1>3, <1>9, <2>2, <3>1
    <3> QED  BY <3>2, <3>3
  <2> QED  BY <1>18, <2>1, <2>2, AnsweredIsPaired
<1>19. ASSUME ~misused' PROVE IsTold(u, told', origin')
  <2> DEFINE start == origin'
             after == told'
  <2>1. IsTold(f, before, start)
    <3>1. CASE path \in DOMAIN files
      <4>1. ~misused /\ start = origin
        BY <1>1, <1>19, <3>1
      <4>2. IsTold(f, told, origin)
        BY <1>11, <3>1, <4>1 DEF SettingsInvariant
      <4> QED  BY <1>13, <3>1, <4>1, <4>2
    <3>2. CASE path \notin DOMAIN files
      <4>1. start = DefaultConfigTemplate /\ f = DefaultConfigTemplate /\ DOMAIN before = {}
        BY <1>1, <1>12, <3>2
      <4> HIDE DEF start
      <4> QED  BY <4>1, TemplateLoads DEF IsTold
    <3> QED  BY <3>1, <3>2
  <2>2. Extended(after, before, M, heard)
    BY <1>1 DEF Extended
  <2>3. ASSUME NEW key, IsPair(key), IsSetting(key)
        PROVE  /\ key \in M => key[2] \in DOMAIN said /\ LinesOf(u, key) # {} /\ heard[key[2]] = said[key[2]]
               /\ (key[2] \in DOMAIN said /\ LinesOf(u, key) # {}) => key \in M
    <3>1. key \in M <=> (key[2] \in DOMAIN heard /\ LinesOf(u, key) # {})
      BY <1>6, <2>3, MeantIs
    <3>2. DOMAIN said \subseteq DOMAIN heard
      BY <1>6, <1>9, <1>10
    <3>3. ASSUME key \in M PROVE key[2] \in DOMAIN said /\ heard[key[2]] = said[key[2]]
      <4>1. key[2] = "provider" => key[1] = "llm"
        <5>1. "provider" \in AnsweredNames
          BY DEF AnsweredNames
        <5> QED  BY <2>3, <5>1, FieldIs
      <4>2. key[2] \in DOMAIN said
        <5>1. CASE key[2] = "provider"
          BY <1>3, <1>9, <1>14, <3>1, <3>3, <4>1, <5>1
        <5>2. CASE key[2] # "provider"
          BY <1>6, <1>9, <1>10, <3>1, <3>3, <5>2
        <5> QED  BY <5>1, <5>2
      <4> QED  BY <1>7, <1>9, <1>10, <4>2
    <3> HIDE DEF M
    <3> QED  BY <3>1, <3>2, <3>3
  <2> HIDE DEF M, start, after
  <2>4. MeantBy(M, u, said, heard)
    BY <2>3 DEF MeantBy
  <2>5. IsTold(u, after, start)
    BY <1>14, <2>1, <2>2, <2>4, EditIsTold
  <2> QED  BY <2>5 DEF start, after
<1>20. (paired => IsPaired(InUse))'
  BY <1>1, <1>17, <1>18
<1>21. (~misused => IsTold(InUse, told, origin))'
  BY <1>17, <1>19
<1> QED  BY <1>16, <1>20, <1>21 DEF SettingsInvariant, FilesAreEditable

\* Every command.
LEMMA SettingsSteps ==
  ASSUME SettingsInvariant, [SettingsNext]_settingsVars
  PROVE  SettingsInvariant'
<1>1. CASE UNCHANGED settingsVars
  BY <1>1, SettingsStay DEF settingsVars
<1>2. ASSUME NEW r \in Assignments, SetConfigValue(r.key, r.value), UNCHANGED origin PROVE SettingsInvariant'
  BY <1>2, SettingsAreSet
<1>3. ASSUME NEW p \in Providers, NEW c \in Credentials(p), SwitchProvider(c) PROVE SettingsInvariant'
  BY <1>3, ProviderIsSwitched
<1>4. ASSUME NEW p \in Providers, NEW c \in Credentials(p), NEW token \in {NoText, "mine"},
             RunInitWizard(c, token, Limits)
      PROVE  SettingsInvariant'
  BY <1>4, WizardIsRun
<1>5. ASSUME NEW token \in {NoText, "new"}, SetGitHubToken(token) PROVE SettingsInvariant'
  BY <1>5, TokenIsSet
<1>6. CASE SettingsNext
  BY <1>2, <1>3, <1>4, <1>5, <1>6 DEF SettingsNext, Limits
<1> QED  BY <1>1, <1>6

\* Whatever commands run, from whatever usual files: the files keep a shape that can
\* be edited, the file in use is paired if it should be, and what was told holds.
THEOREM SettingsInvariantHolds == SettingsSpec => []SettingsInvariant
<1>1. SettingsInit => SettingsInvariant
  BY SettingsStart
<1>2. SettingsInvariant /\ [SettingsNext]_settingsVars => SettingsInvariant'
  BY SettingsSteps
<1> QED  BY <1>1, <1>2, PTL DEF SettingsSpec

\* A call goes to a provider with its model, its key and its endpoint (config.rs,
\* wizard.rs, login.rs), for every file, assignment and environment.
THEOREM CredentialsStayTheProviders == SettingsSpec => []CredentialsAreTheProviders
<1>1. SettingsInvariant => CredentialsAreTheProviders
  BY PairedIsLoaded DEF SettingsInvariant
<1> QED  BY <1>1, SettingsInvariantHolds, PTL

\* The file loads, shows what the commands said and has the rest as it was
\* (config_editor.rs, wizard.rs, login.rs), for every file and assignment.
THEOREM SettingsStayAsTold == SettingsSpec => []SettingsAreAsTold
<1>1. SettingsInvariant => SettingsAreAsTold
  <2> SUFFICES ASSUME SettingsInvariant, ~misused
               PROVE  /\ FromYaml(InUse)
                      /\ \A k : IsPair(k) /\ IsSetting(k) =>
                           IF k \in DOMAIN told
                           THEN TextOf(InUse, k) = told[k] /\ ExtractYamlValue(InUse, k) = told[k]
                           ELSE Setting(InUse, k) = Setting(origin, k)
    BY DEF SettingsAreAsTold, IsPair
  <2>1. IsTold(InUse, told, origin) /\ InUse \in Seq(FileLine)
    BY InUseIs, UsedIsEditable DEF SettingsInvariant, IsEditable
  <2>2. ASSUME NEW k, IsPair(k), IsSetting(k), k \in DOMAIN told
        PROVE  TextOf(InUse, k) = told[k] /\ ExtractYamlValue(InUse, k) = told[k]
    <3> DEFINE t == told[k]
    <3>1. Holds(InUse, k, t)
      BY <2>1, <2>2 DEF IsTold
    <3> HIDE DEF t
    <3>2. TextOf(InUse, k) = t /\ ExtractYamlValue(InUse, k) = t
      BY <2>1, <3>1, HoldsIsRead
    <3> QED  BY <3>2 DEF t
  <2> QED  BY <2>1, <2>2 DEF IsTold
<1> QED  BY <1>1, SettingsInvariantHolds, PTL
=============================================================================
