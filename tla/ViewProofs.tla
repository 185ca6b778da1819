----------------------------- MODULE ViewProofs -----------------------------
EXTENDS EventLog, Diff, InductionLemmas, FiniteSetTheorems, SequenceTheorems, TLAPS

(***************************************************************************)
(* What the log of a command says (EventLog).                              *)
(***************************************************************************)
\* Where the task of a command is in what it reads: what is behind it was
\* emitted, and it holds an event only between receiving and writing it.
Positions ==
  \A c \in Commands :
    /\ logger[c].next <= sent[c] + 1
    /\ logger[c].at \in {"text", "end"} => logger[c].next <= sent[c]

IsWritten(c, n) == \E k \in 1..Len(file) : file[k] = Event(c, n)

\* What the file holds of the events of a command whose task has not ended:
\* all before the one it is at, that one too between its two writes, and no
\* other; and but for that one their lines are ended.
Progress ==
  ~failed =>
    \A c \in Commands : logger[c].at # "ended" =>
      /\ \A n \in 1..(logger[c].next - 1) : IsWritten(c, n)
      /\ logger[c].at = "end" => IsWritten(c, logger[c].next)
      /\ \A k \in 1..Len(file) : file[k].by = c =>
           \/ /\ file[k].number < logger[c].next
              /\ \E m \in (k + 1)..Len(file) : file[m] = LineEnd
           \/ logger[c].at = "end" /\ file[k].number = logger[c].next

IInv == LogTypeOK /\ Positions /\ Progress /\ LogHasNoHole

\* The invariant holds when the log is empty.
LEMMA InitIInv == LogInit => IInv
<1> SUFFICES ASSUME LogInit PROVE IInv
  OBVIOUS
<1>1. Len(file) = 0 /\ file \in Seq(EventRecord \cup {LineEnd})
  BY DEF LogInit
<1>2. LogTypeOK
  <2>1. <<>> \in Seq(Nat)
    OBVIOUS
  <2>2. history \in [Commands -> Seq(Nat)]
    BY <2>1 DEF LogInit
  <2>3. file \in Seq(EventRecord \cup {LineEnd})
    BY <1>1
  <2>4. logger \in [Commands -> [at : {"waits", "text", "end", "ended"}, next : Nat \ {0}]]
    BY DEF LogInit
  <2>5. command \in [Commands -> {"runs", "returned", "killed"}] /\ sent \in [Commands -> Nat]
    BY DEF LogInit
  <2>6. failed \in BOOLEAN
    BY Zenon DEF LogInit
  <2> QED BY <2>2, <2>3, <2>4, <2>5, <2>6 DEF LogTypeOK
<1>3. Positions
  <2>1. \A c \in Commands : logger[c].at = "waits" /\ logger[c].next = 1 /\ sent[c] = 0
    BY DEF LogInit
  <2>2. ASSUME NEW c \in Commands
        PROVE  /\ logger[c].next <= sent[c] + 1
               /\ logger[c].at \in {"text", "end"} => logger[c].next <= sent[c]
    BY <2>1
  <2> QED BY <2>2, Zenon DEF Positions
<1>4. Progress
  BY <1>1 DEF LogInit, Progress, IsWritten
<1>5. LogHasNoHole
  BY <1>1 DEF LogHasNoHole
<1> QED BY <1>2, <1>3, <1>4, <1>5 DEF IInv

-----------------------------------------------------------------------------
(* Types *)

\* A suffix of a sequence is one.
LEMMA LastOfType ==
  ASSUME NEW S, NEW s \in Seq(S), NEW n \in Nat
  PROVE  LastOf(s, n) \in Seq(S)
<1>1. CASE Len(s) > n
  <2>1. Len(s) - n + 1 \in 1..(Len(s) + 1)
    BY <1>1
  <2>2. SubSeq(s, Len(s) - n + 1, Len(s)) \in Seq(S)
    BY <2>1
  <2> QED BY <1>1, <2>2 DEF LastOf
<1>2. CASE ~(Len(s) > n)
  BY <1>2 DEF LastOf
<1> QED BY <1>1, <1>2

\* What an event of a command is.
LEMMA EventType ==
  ASSUME NEW c \in Commands, NEW n \in Nat \ {0}
  PROVE  Event(c, n) \in EventRecord
  BY DEF Event, EventRecord

\* What receiving leaves alone, and where it takes the task.
LEMMA ReceiveFacts ==
  ASSUME LogTypeOK, NEW c \in Commands, NEW ok \in BOOLEAN, Receive(c, ok)
  PROVE  /\ logger[c].at = "waits" /\ logger[c].next <= sent[c]
         /\ UNCHANGED <<command, history, sent, file>>
         /\ ~ok => failed'
         /\ failed' \in BOOLEAN /\ (failed => failed')
         /\ logger' \in [Commands -> [at : {"waits", "text", "end", "ended"}, next : Nat \ {0}]]
         /\ \A d \in Commands : d # c => logger'[d] = logger[d]
         /\ \/ logger'[c] = [at |-> "ended", next |-> logger[c].next]
            \/ logger'[c] = [at |-> "text", next |-> logger[c].next]
            \/ ~ok /\ logger'[c] = [at |-> "waits", next |-> logger[c].next + 1]
<1>1. /\ logger[c].at = "waits" /\ logger[c].next <= sent[c]
      /\ UNCHANGED <<command, history, sent, file>>
      /\ failed' = (failed \/ ~ok)
  BY DEF Receive
<1>2. logger[c] = [at |-> logger[c].at, next |-> logger[c].next] /\ logger[c].next \in Nat \ {0}
  BY DEF LogTypeOK
<1>3. (~ok => failed') /\ failed' \in BOOLEAN /\ (failed => failed')
  BY <1>1, Zenon DEF LogTypeOK
<1>4. CASE Lagged(c)
  <2>1. logger' = [logger EXCEPT ![c].at = "ended"]
    BY <1>4 DEF Receive
  <2> QED BY <1>1, <1>2, <1>3, <2>1 DEF LogTypeOK
<1>5. CASE ~Lagged(c) /\ ok
  <2>1. logger' = [logger EXCEPT ![c].at = "text"]
    BY <1>5 DEF Receive
  <2> QED BY <1>1, <1>2, <1>3, <2>1 DEF LogTypeOK
<1>6. CASE ~Lagged(c) /\ ~ok
  <2>1. logger' = [logger EXCEPT ![c] = [at |-> "waits", next |-> logger[c].next + 1]]
    BY <1>6 DEF Receive, Advance
  <2> QED BY <1>1, <1>2, <1>3, <1>6, <2>1 DEF LogTypeOK
<1> QED BY <1>4, <1>5, <1>6

\* What writing a text leaves alone, and where it takes the task.
LEMMA WriteTextFacts ==
  ASSUME LogTypeOK, NEW c \in Commands, NEW ok \in BOOLEAN, WriteText(c, ok)
  PROVE  /\ logger[c].at = "text"
         /\ UNCHANGED <<command, history, sent>>
         /\ failed' \in BOOLEAN /\ (failed \/ ~ok => failed')
         /\ file' = IF ok THEN Append(file, Event(c, logger[c].next)) ELSE file
         /\ file' \in Seq(EventRecord \cup {LineEnd})
         /\ logger' \in [Commands -> [at : {"waits", "text", "end", "ended"}, next : Nat \ {0}]]
         /\ \A d \in Commands : d # c => logger'[d] = logger[d]
         /\ logger'[c] = IF ok THEN [at |-> "end", next |-> logger[c].next]
                         ELSE [at |-> "waits", next |-> logger[c].next + 1]
<1>1. logger[c].at = "text" /\ UNCHANGED <<command, history, sent>>
  BY DEF WriteText
<1>2. failed' \in BOOLEAN /\ (failed \/ ~ok => failed')
  BY Zenon DEF WriteText, LogTypeOK
<1>3. logger[c] = [at |-> logger[c].at, next |-> logger[c].next] /\ logger[c].next \in Nat \ {0}
  BY DEF LogTypeOK
<1>4. Event(c, logger[c].next) \in EventRecord
  BY <1>3, EventType
<1>5. file \in Seq(EventRecord \cup {LineEnd})
  BY DEF LogTypeOK
<1>6. logger \in [Commands -> [at : {"waits", "text", "end", "ended"}, next : Nat \ {0}]]
  BY DEF LogTypeOK
<1>7. CASE ok
  <2>1. file' = Append(file, Event(c, logger[c].next)) /\ logger' = [logger EXCEPT ![c].at = "end"]
    BY <1>7 DEF WriteText
  <2>2. file' \in Seq(EventRecord \cup {LineEnd})
    BY <1>4, <1>5, <2>1
  <2> QED BY <1>1, <1>2, <1>3, <1>6, <1>7, <2>1, <2>2
<1>8. CASE ~ok
  <2>1. file' = file /\ logger' = [logger EXCEPT ![c] = [at |-> "waits", next |-> logger[c].next + 1]]
    BY <1>8 DEF WriteText, Advance
  <2> QED BY <1>1, <1>2, <1>3, <1>5, <1>6, <1>8, <2>1
<1> QED BY <1>7, <1>8

\* Every step keeps the types.
LEMMA TypeStep == LogTypeOK /\ [LogNext]_logVars => LogTypeOK'
<1> SUFFICES ASSUME LogTypeOK, [LogNext]_logVars PROVE LogTypeOK'
  OBVIOUS
<1> USE DEF LogTypeOK
<1>1. ASSUME NEW c \in Commands, Emit(c) PROVE LogTypeOK'
  <2>1. Append(history[c], sent[c] + 1) \in Seq(Nat)
    OBVIOUS
  <2>2. LastOf(Append(history[c], sent[c] + 1), MaxHistory) \in Seq(Nat)
    BY <2>1, LastOfType, EventLogAssumption
  <2> QED BY <1>1, <2>2 DEF Emit
<1>2. ASSUME NEW c \in Commands, Return(c) PROVE LogTypeOK'
  BY <1>2 DEF Return
<1>3. ASSUME NEW c \in Commands, Kill(c) PROVE LogTypeOK'
  BY <1>3 DEF Kill
<1>4. ASSUME NEW c \in Commands, StopLogger(c) PROVE LogTypeOK'
  BY <1>4 DEF StopLogger
<1>5. ASSUME NEW c \in Commands, NEW ok \in BOOLEAN, Receive(c, ok) PROVE LogTypeOK'
  BY <1>5, ReceiveFacts
<1>6. ASSUME NEW c \in Commands, NEW ok \in BOOLEAN, WriteText(c, ok) PROVE LogTypeOK'
  BY <1>6, WriteTextFacts
<1>7. ASSUME NEW c \in Commands, NEW ok \in BOOLEAN, WriteEnd(c, ok) PROVE LogTypeOK'
  <2>1. file' \in Seq(EventRecord \cup {LineEnd})
    BY <1>7 DEF WriteEnd, Advance
  <2> QED BY <1>7, <2>1 DEF WriteEnd, Advance
<1>8. CASE UNCHANGED logVars
  BY <1>8 DEF logVars
<1> QED BY <1>1, <1>2, <1>3, <1>4, <1>5, <1>6, <1>7, <1>8 DEF LogNext

\* Every step keeps the tasks where they may be in what they read.
LEMMA PositionsStep == LogTypeOK /\ Positions /\ [LogNext]_logVars => Positions'
<1> SUFFICES ASSUME LogTypeOK, Positions, [LogNext]_logVars PROVE Positions'
  OBVIOUS
<1> USE DEF LogTypeOK, Positions
<1>1. ASSUME NEW c \in Commands, Emit(c) PROVE Positions'
  BY <1>1 DEF Emit
<1>2. ASSUME NEW c \in Commands, Return(c) PROVE Positions'
  BY <1>2 DEF Return
<1>3. ASSUME NEW c \in Commands, Kill(c) PROVE Positions'
  BY <1>3 DEF Kill
<1>4. ASSUME NEW c \in Commands, StopLogger(c) PROVE Positions'
  BY <1>4 DEF StopLogger
<1>5. ASSUME NEW c \in Commands, NEW ok \in BOOLEAN, Receive(c, ok) PROVE Positions'
  <2>1. \A d \in Commands : logger[d].next \in Nat /\ sent[d] \in Nat
    OBVIOUS
  <2>2. logger[c].next <= sent[c] /\ sent' = sent
    BY <1>5, ReceiveFacts
  <2>3. \A d \in Commands : d # c => logger'[d] = logger[d]
    BY <1>5, ReceiveFacts
  <2>4. \/ logger'[c] = [at |-> "ended", next |-> logger[c].next]
        \/ logger'[c] = [at |-> "text", next |-> logger[c].next]
        \/ logger'[c] = [at |-> "waits", next |-> logger[c].next + 1]
    BY <1>5, ReceiveFacts
  <2>5. ASSUME NEW d \in Commands
        PROVE  /\ logger'[d].next <= sent'[d] + 1
               /\ logger'[d].at \in {"text", "end"} => logger'[d].next <= sent'[d]
    <3>1. CASE d = c
      BY <2>1, <2>2, <2>4, <3>1
    <3>2. CASE d # c
      BY <2>1, <2>2, <2>3, <3>2
    <3> QED BY <3>1, <3>2
  <2> QED BY <2>5
<1>6. ASSUME NEW c \in Commands, NEW ok \in BOOLEAN, WriteText(c, ok) PROVE Positions'
  <2>1. logger[c].at = "text" /\ sent' = sent /\ \A d \in Commands : d # c => logger'[d] = logger[d]
    BY <1>6, WriteTextFacts
  <2>2. \/ logger'[c] = [at |-> "end", next |-> logger[c].next]
        \/ logger'[c] = [at |-> "waits", next |-> logger[c].next + 1]
    BY <1>6, WriteTextFacts
  <2>3. logger[c].next <= sent[c]
    BY <2>1
  <2>4. ASSUME NEW d \in Commands
        PROVE  /\ logger'[d].next <= sent'[d] + 1
               /\ logger'[d].at \in {"text", "end"} => logger'[d].next <= sent'[d]
    <3>1. CASE d = c
      BY <2>1, <2>2, <2>3, <3>1
    <3>2. CASE d # c
      BY <2>1, <3>2
    <3> QED BY <3>1, <3>2
  <2> QED BY <2>4
<1>7. ASSUME NEW c \in Commands, NEW ok \in BOOLEAN, WriteEnd(c, ok) PROVE Positions'
  BY <1>7 DEF WriteEnd, Advance
<1>8. CASE UNCHANGED logVars
  BY <1>8 DEF logVars
<1> QED BY <1>1, <1>2, <1>3, <1>4, <1>5, <1>6, <1>7, <1>8 DEF LogNext

-----------------------------------------------------------------------------
(* Writes *)

\* Appending leaves what stands in the file where it is.
LEMMA AppendFacts ==
  ASSUME LogTypeOK, NEW x \in EventRecord \cup {LineEnd}, file' = Append(file, x)
  PROVE  /\ Len(file) \in Nat /\ Len(file') = Len(file) + 1
         /\ \A k \in 1..Len(file) : file'[k] = file[k]
         /\ file'[Len(file) + 1] = x
  BY DEF LogTypeOK

\* Every step leaves in the file what the tasks have read, and no more.
LEMMA ProgressStep == LogTypeOK /\ Positions /\ Progress /\ [LogNext]_logVars => Progress'
<1> SUFFICES ASSUME LogTypeOK, Positions, Progress, [LogNext]_logVars, ~failed' PROVE Progress'
  BY DEF Progress
<1>1. ASSUME NEW c \in Commands, Emit(c) PROVE Progress'
  BY <1>1 DEF Emit, Progress, IsWritten
<1>2. ASSUME NEW c \in Commands, Return(c) PROVE Progress'
  BY <1>2 DEF Return, Progress, IsWritten
<1>3. ASSUME NEW c \in Commands, Kill(c) PROVE Progress'
  BY <1>3 DEF Kill, Progress, IsWritten, LogTypeOK
<1>4. ASSUME NEW c \in Commands, StopLogger(c) PROVE Progress'
  BY <1>4 DEF StopLogger, Progress, IsWritten, LogTypeOK
<1>5. ASSUME NEW c \in Commands, NEW ok \in BOOLEAN, Receive(c, ok) PROVE Progress'
  <2>1. ok /\ ~failed
    BY <1>5, ReceiveFacts
  <2>2. file' = file /\ \A d \in Commands : d # c => logger'[d] = logger[d]
    BY <1>5, ReceiveFacts
  <2>3. \/ logger'[c] = [at |-> "ended", next |-> logger[c].next]
        \/ logger'[c] = [at |-> "text", next |-> logger[c].next]
    BY <1>5, <2>1, ReceiveFacts
  <2>4. logger[c].at = "waits"
    BY <1>5, ReceiveFacts
  <2> QED BY <2>1, <2>2, <2>3, <2>4 DEF Progress, IsWritten
<1>6. ASSUME NEW c \in Commands, NEW ok \in BOOLEAN, WriteText(c, ok) PROVE Progress'
  <2>1. /\ ok /\ ~failed /\ file' = Append(file, Event(c, logger[c].next))
        /\ logger[c].at = "text" /\ logger'[c].at = "end" /\ logger'[c].next = logger[c].next
        /\ \A d \in Commands : d # c => logger'[d] = logger[d]
    <3>1. ok /\ ~failed
      BY <1>6, WriteTextFacts
    <3>2. /\ logger[c].at = "text" /\ file' = Append(file, Event(c, logger[c].next))
          /\ logger'[c] = [at |-> "end", next |-> logger[c].next]
          /\ \A d \in Commands : d # c => logger'[d] = logger[d]
      BY <1>6, <3>1, WriteTextFacts
    <3> QED BY <3>1, <3>2
  <2>2. Event(c, logger[c].next) \in EventRecord
    BY EventType DEF LogTypeOK
  <2>3. /\ Len(file) \in Nat /\ Len(file') = Len(file) + 1
        /\ \A k \in 1..Len(file) : file'[k] = file[k]
        /\ file'[Len(file) + 1] = Event(c, logger[c].next)
    BY <2>1, <2>2, AppendFacts
  <2> SUFFICES ASSUME NEW d \in Commands, logger'[d].at # "ended"
               PROVE  /\ \A n \in 1..(logger'[d].next - 1) : IsWritten(d, n)'
                      /\ logger'[d].at = "end" => IsWritten(d, logger[d].next)'
                      /\ \A k \in 1..Len(file') : file'[k].by = d =>
                           \/ /\ file'[k].number < logger'[d].next
                              /\ \E m \in (k + 1)..Len(file') : file'[m] = LineEnd
                           \/ logger'[d].at = "end" /\ file'[k].number = logger'[d].next
    BY <2>1 DEF Progress, IsWritten
  <2>4. /\ logger[d].at # "ended" /\ logger'[d].next = logger[d].next
        /\ logger[d].next \in Nat \ {0}
    BY <2>1 DEF LogTypeOK
  <2>5. \A n \in 1..(logger'[d].next - 1) : IsWritten(d, n)'
    BY <2>1, <2>3, <2>4 DEF Progress, IsWritten
  <2>6. logger'[d].at = "end" => IsWritten(d, logger[d].next)'
    BY <2>1, <2>3, <2>4 DEF Progress, IsWritten
  <2>7. ASSUME NEW k \in 1..Len(file'), file'[k].by = d
        PROVE  \/ /\ file'[k].number < logger'[d].next
                  /\ \E m \in (k + 1)..Len(file') : file'[m] = LineEnd
               \/ logger'[d].at = "end" /\ file'[k].number = logger'[d].next
    <3>1. CASE k = Len(file) + 1
      BY <2>1, <2>3, <2>7, <3>1 DEF Event
    <3>2. CASE k # Len(file) + 1
      <4>1. k \in 1..Len(file) /\ file'[k] = file[k] /\ file[k].by = d
        BY <2>3, <2>7, <3>2
      <4>2. \/ /\ file[k].number < logger[d].next
               /\ \E m \in (k + 1)..Len(file) : file[m] = LineEnd
            \/ logger[d].at = "end" /\ file[k].number = logger[d].next
        BY <2>1, <2>4, <4>1 DEF Progress
      <4>3. ASSUME NEW m \in (k + 1)..Len(file), file[m] = LineEnd
            PROVE  m \in (k + 1)..Len(file') /\ file'[m] = LineEnd
        BY <2>3, <4>1, <4>3
      <4> QED BY <2>1, <2>4, <4>1, <4>2, <4>3
    <3> QED BY <3>1, <3>2
  <2> QED BY <2>5, <2>6, <2>7
<1>7. ASSUME NEW c \in Commands, NEW ok \in BOOLEAN, WriteEnd(c, ok) PROVE Progress'
  <2>1. /\ ok /\ ~failed /\ file' = Append(file, LineEnd)
        /\ logger[c].at = "end" /\ logger'[c].at = "waits" /\ logger'[c].next = logger[c].next + 1
        /\ \A d \in Commands : d # c => logger'[d] = logger[d]
    BY <1>7 DEF WriteEnd, Advance, LogTypeOK
  <2>3. /\ Len(file) \in Nat /\ Len(file') = Len(file) + 1
        /\ \A k \in 1..Len(file) : file'[k] = file[k]
        /\ file'[Len(file) + 1] = LineEnd
    BY <2>1, AppendFacts
  <2> SUFFICES ASSUME NEW d \in Commands, logger'[d].at # "ended"
               PROVE  /\ \A n \in 1..(logger'[d].next - 1) : IsWritten(d, n)'
                      /\ logger'[d].at = "end" => IsWritten(d, logger[d].next)'
                      /\ \A k \in 1..Len(file') : file'[k].by = d =>
                           \/ /\ file'[k].number < logger'[d].next
                              /\ \E m \in (k + 1)..Len(file') : file'[m] = LineEnd
                           \/ logger'[d].at = "end" /\ file'[k].number = logger'[d].next
    BY DEF Progress
  <2>4. logger[d].at # "ended" /\ logger[d].next \in Nat \ {0}
    BY <2>1 DEF LogTypeOK
  <2>5. \A n : IsWritten(d, n) => IsWritten(d, n)'
    BY <2>3 DEF IsWritten
  <2>6. \A n \in 1..(logger'[d].next - 1) : IsWritten(d, n)
    <3>1. CASE d = c
      BY <2>1, <2>4, <3>1 DEF Progress
    <3>2. CASE d # c
      BY <2>1, <2>4, <3>2 DEF Progress
    <3> QED BY <3>1, <3>2
  <2>7. logger'[d].at = "end" => IsWritten(d, logger'[d].next)
    BY <2>1, <2>4 DEF Progress
  <2>8. ASSUME NEW k \in 1..Len(file'), file'[k].by = d
        PROVE  \/ /\ file'[k].number < logger'[d].next
                  /\ \E m \in (k + 1)..Len(file') : file'[m] = LineEnd
               \/ logger'[d].at = "end" /\ file'[k].number = logger'[d].next
    <3>1. k \in 1..Len(file) /\ file'[k] = file[k] /\ file[k].by = d
      BY <2>3, <2>8, EventLogAssumption DEF LineEnd
    <3>2. file[k] \in EventRecord
      BY <3>1, EventLogAssumption DEF LogTypeOK, LineEnd
    <3>3. \/ /\ file[k].number < logger[d].next
             /\ \E m \in (k + 1)..Len(file) : file[m] = LineEnd
          \/ logger[d].at = "end" /\ file[k].number = logger[d].next
      BY <2>1, <2>4, <3>1 DEF Progress
    <3>4. Len(file) + 1 \in (k + 1)..Len(file') /\ file'[Len(file) + 1] = LineEnd
      BY <2>3, <3>1
    <3>5. CASE d = c
      BY <2>1, <2>4, <3>1, <3>2, <3>3, <3>4, <3>5 DEF EventRecord
    <3>6. CASE d # c
      BY <2>1, <2>4, <3>1, <3>3, <3>4, <3>6
    <3> QED BY <3>5, <3>6
  <2> QED BY <2>5, <2>6, <2>7, <2>8
<1>8. CASE UNCHANGED logVars
  BY <1>8 DEF logVars, Progress, IsWritten
<1> QED BY <1>1, <1>2, <1>3, <1>4, <1>5, <1>6, <1>7, <1>8 DEF LogNext

\* No step leaves a hole in the file.
LEMMA NoHoleStep == LogTypeOK /\ Positions /\ Progress /\ LogHasNoHole /\ [LogNext]_logVars => LogHasNoHole'
<1> SUFFICES ASSUME LogTypeOK, Positions, Progress, LogHasNoHole, [LogNext]_logVars, ~failed' PROVE LogHasNoHole'
  BY DEF LogHasNoHole
<1>0. \A k \in 1..Len(file) : file[k] # LineEnd =>
        file[k] \in EventRecord /\ file[k].by \in Commands /\ sent[file[k].by] \in Nat
  BY DEF LogTypeOK, EventRecord
<1>1. ASSUME NEW c \in Commands, Emit(c) PROVE LogHasNoHole'
  <2>1. \A d \in Commands : sent[d] \in Nat /\ sent'[d] \in Nat /\ sent[d] <= sent'[d]
    BY <1>1 DEF Emit, LogTypeOK
  <2>2. \A k \in 1..Len(file) : file[k] # LineEnd => file[k].number \in Nat
    BY <1>0 DEF EventRecord
  <2>3. ~failed /\ file' = file
    BY <1>1 DEF Emit
  <2>4. ASSUME NEW k \in 1..Len(file), file[k] # LineEnd
        PROVE  file[k].number <= sent'[file[k].by]
    <3>1. file[k].number <= sent[file[k].by]
      BY <2>3, <2>4 DEF LogHasNoHole
    <3> QED BY <1>0, <2>1, <2>2, <2>4, <3>1
  <2> QED BY <2>3, <2>4 DEF LogHasNoHole
<1>2. ASSUME NEW c \in Commands, Return(c) PROVE LogHasNoHole'
  BY <1>2 DEF Return, LogHasNoHole
<1>3. ASSUME NEW c \in Commands, Kill(c) PROVE LogHasNoHole'
  BY <1>3 DEF Kill, LogHasNoHole
<1>4. ASSUME NEW c \in Commands, StopLogger(c) PROVE LogHasNoHole'
  BY <1>4 DEF StopLogger, LogHasNoHole
<1>5. ASSUME NEW c \in Commands, NEW ok \in BOOLEAN, Receive(c, ok) PROVE LogHasNoHole'
  BY <1>5 DEF Receive, LogHasNoHole
<1>6. ASSUME NEW c \in Commands, NEW ok \in BOOLEAN, WriteText(c, ok) PROVE LogHasNoHole'
  <2>1. /\ ok /\ ~failed /\ file' = Append(file, Event(c, logger[c].next))
        /\ logger[c].at = "text" /\ sent' = sent /\ logger[c].next \in Nat \ {0}
    BY <1>6, WriteTextFacts DEF LogTypeOK
  <2>2. Event(c, logger[c].next) \in EventRecord
    BY EventType DEF LogTypeOK
  <2>3. /\ Len(file) \in Nat /\ Len(file') = Len(file) + 1
        /\ \A k \in 1..Len(file) : file'[k] = file[k]
        /\ file'[Len(file) + 1] = Event(c, logger[c].next)
    BY <2>1, <2>2, AppendFacts
  <2> SUFFICES ASSUME NEW k \in 1..Len(file'), file'[k] # LineEnd
               PROVE  /\ file'[k].number <= sent[file'[k].by]
                      /\ \A n \in 1..(file'[k].number - 1) :
                           \E j \in 1..(k - 1) : file'[j] = Event(file'[k].by, n)
                      /\ \A j \in 1..(k - 1) : file'[j].by = file'[k].by =>
                           /\ file'[j].number < file'[k].number
                           /\ \E m \in (j + 1)..(k - 1) : file'[m] = LineEnd
    BY <2>1 DEF LogHasNoHole
  <2>4. CASE k = Len(file) + 1
    <3>1. file'[k].by = c /\ file'[k].number = logger[c].next /\ k - 1 = Len(file)
      BY <2>3, <2>4 DEF Event
    <3>2. logger[c].next <= sent[c]
      BY <2>1 DEF Positions
    <3>3. \A n \in 1..(logger[c].next - 1) : \E j \in 1..Len(file) : file[j] = Event(c, n)
      BY <2>1 DEF Progress, IsWritten
    <3>4. \A j \in 1..Len(file) : file[j].by = c =>
            /\ file[j].number < logger[c].next
            /\ \E m \in (j + 1)..Len(file) : file[m] = LineEnd
      BY <2>1 DEF Progress
    <3>5. ASSUME NEW j \in 1..Len(file), NEW m \in (j + 1)..Len(file)
          PROVE  file'[j] = file[j] /\ file'[m] = file[m]
      BY <2>3
    <3> QED BY <2>3, <3>1, <3>2, <3>3, <3>4, <3>5
  <2>5. CASE k # Len(file) + 1
    <3>1. k \in 1..Len(file) /\ file'[k] = file[k]
      BY <2>3, <2>5
    <3>2. \A j \in 1..(k - 1) : file'[j] = file[j]
      BY <2>3, <3>1
    <3>3. \A j \in 1..(k - 1) : \A m \in (j + 1)..(k - 1) : file'[m] = file[m]
      BY <2>3, <3>1
    <3> QED BY <2>1, <3>1, <3>2, <3>3 DEF LogHasNoHole
  <2> QED BY <2>4, <2>5
<1>7. ASSUME NEW c \in Commands, NEW ok \in BOOLEAN, WriteEnd(c, ok) PROVE LogHasNoHole'
  <2>1. ok /\ ~failed /\ file' = Append(file, LineEnd) /\ sent' = sent
    BY <1>7 DEF WriteEnd, Advance, LogTypeOK
  <2>2. /\ Len(file) \in Nat /\ Len(file') = Len(file) + 1
        /\ \A k \in 1..Len(file) : file'[k] = file[k]
        /\ file'[Len(file) + 1] = LineEnd
    BY <2>1, AppendFacts
  <2> SUFFICES ASSUME NEW k \in 1..Len(file'), file'[k] # LineEnd
               PROVE  /\ file'[k].number <= sent[file'[k].by]
                      /\ \A n \in 1..(file'[k].number - 1) :
                           \E j \in 1..(k - 1) : file'[j] = Event(file'[k].by, n)
                      /\ \A j \in 1..(k - 1) : file'[j].by = file'[k].by =>
                           /\ file'[j].number < file'[k].number
                           /\ \E m \in (j + 1)..(k - 1) : file'[m] = LineEnd
    BY <2>1 DEF LogHasNoHole
  <2>3. k \in 1..Len(file) /\ file'[k] = file[k]
    BY <2>2
  <2>4. \A j \in 1..(k - 1) : file'[j] = file[j]
    BY <2>2, <2>3
  <2>5. \A j \in 1..(k - 1) : \A m \in (j + 1)..(k - 1) : file'[m] = file[m]
    BY <2>2, <2>3
  <2> QED BY <2>1, <2>3, <2>4, <2>5 DEF LogHasNoHole
<1>8. CASE UNCHANGED logVars
  BY <1>8 DEF logVars, LogHasNoHole
<1> QED BY <1>1, <1>2, <1>3, <1>4, <1>5, <1>6, <1>7, <1>8 DEF LogNext

-----------------------------------------------------------------------------
(* The result *)

\* The file of events has no hole as long as no write failed: of every command
\* it holds the first events in order, and lines end between them, wherever the
\* tasks of other commands wrote and wherever they were killed.
THEOREM EventLogHasNoHole == LogSpec => []LogHasNoHole
<1>1. LogInit => IInv
  BY InitIInv
<1>2. IInv /\ [LogNext]_logVars => IInv'
  BY TypeStep, PositionsStep, ProgressStep, NoHoleStep DEF IInv
<1>3. IInv => LogHasNoHole
  BY DEF IInv
<1> QED BY <1>1, <1>2, <1>3, PTL DEF LogSpec

-----------------------------------------------------------------------------
(* What logs shows *)

\* The elements at some positions are what one gets by going through the
\* sequence, one after the other.
IsChoice(f, S, s, at) ==
  /\ f \in [0..Len(s) -> Seq(S)] /\ f[0] = <<>>
  /\ \A k \in 1..Len(s) : f[k] = IF k \in at THEN Append(f[k - 1], s[k]) ELSE f[k - 1]
  /\ Chosen(s, at) = f[Len(s)]

\* There is a function with what is chosen of every beginning of a sequence.
LEMMA ChosenUnfolds ==
  ASSUME NEW S, NEW s \in Seq(S), NEW at
  PROVE  \E f : IsChoice(f, S, s, at)
<1> DEFINE n == Len(s)
           V == Seq(S)
           IsUpto(f) == f = [k \in 0..n |->
             IF k = 0 THEN <<>>
             ELSE IF k \in at THEN Append(f[k - 1], s[k]) ELSE f[k - 1]]
           folds == [k \in 1..n |-> [before \in V |-> IF k \in at THEN Append(before, s[k]) ELSE before]]
<1>1. n \in Nat /\ <<>> \in V /\ \A k \in 1..n : s[k] \in S
  BY LenProperties, EmptySeq
<1>2. folds \in [1..n -> [V -> V]]
  BY <1>1, AppendProperties
<1>3. PICK g : IsFold(g, n, V, <<>>, folds)
  <2> HIDE DEF n, folds, V
  <2> QED  BY <1>1, <1>2, FoldExists
<1>4. IsUpto(g)
  <2>1. /\ g \in [0..n -> V] /\ g[0] = <<>>
        /\ \A k \in 1..n : g[k] = IF k \in at THEN Append(g[k - 1], s[k]) ELSE g[k - 1]
    <3>1. ASSUME NEW k \in 1..n PROVE g[k] = folds[k][g[k - 1]] /\ g[k - 1] \in V
      <4>1. k - 1 \in 0..n
        BY <1>1
      <4> QED  BY <1>3, <4>1 DEF IsFold
    <3> QED  BY <1>3, <3>1 DEF IsFold
  <2> HIDE DEF V, n
  <2>2. \A k \in 0..n : k = 0 \/ k \in 1..n
    BY <1>1
  <2> QED  BY <2>1, <2>2
<1> DEFINE f == CHOOSE h : IsUpto(h)
<1>5. IsUpto(f)
  <2> HIDE DEF IsUpto
  <2> QED  BY <1>4
<1>6. Chosen(s, at) = f[n]
  BY DEF Chosen
<1> HIDE DEF f
<1>7. /\ f[0] = <<>>
      /\ \A k \in 1..n : f[k] = IF k \in at THEN Append(f[k - 1], s[k]) ELSE f[k - 1]
  <2>1. 0 \in 0..n /\ \A k \in 1..n : k \in 0..n /\ k # 0
    BY <1>1
  <2> HIDE DEF n
  <2> QED  BY <1>5, <2>1
<1>8. \A k \in Nat : k \in {i \in Nat : i <= n => f[i] \in V}
  <2> DEFINE T == {i \in Nat : i <= n => f[i] \in V}
  <2>1. 0 \in T
    BY <1>1, <1>7
  <2>2. ASSUME NEW k \in Nat, k \in T, k + 1 <= n PROVE f[k + 1] \in V
    <3>1. k + 1 \in 1..n /\ (k + 1) - 1 = k /\ f[k] \in V
      BY <1>1, <2>2
    <3>2. s[k + 1] \in S /\ f[k + 1] = IF k + 1 \in at THEN Append(f[k], s[k + 1]) ELSE f[k]
      BY <1>1, <1>7, <3>1
    <3>3. Append(f[k], s[k + 1]) \in V
      BY <3>1, <3>2, AppendProperties
    <3> QED  BY ONLY <3>1, <3>2, <3>3
  <2>3. \A k \in Nat : k \in T => k + 1 \in T
    BY <2>2
  <2> HIDE DEF T
  <2>4. \A k \in Nat : k \in T
    BY <2>1, <2>3, Induction
  <2> QED  BY <2>4 DEF T
<1>9. f \in [0..n -> V]
  <2>1. f = [k \in 0..n |-> f[k]]
    BY <1>5
  <2>2. \A k \in 0..n : f[k] \in V
    BY <1>1, <1>8
  <2> HIDE DEF n, V
  <2> QED  BY <2>1, <2>2
<1> QED  BY <1>6, <1>7, <1>9 DEF IsChoice

\* They stand in the order of their positions.
LEMMA ChosenFacts ==
  ASSUME NEW S, NEW s \in Seq(S), NEW at
  PROVE  /\ Chosen(s, at) \in Seq(S)
         /\ \E p \in [1..Len(Chosen(s, at)) -> 1..Len(s)] :
              /\ \A i \in 1..Len(Chosen(s, at)) : p[i] \in at /\ Chosen(s, at)[i] = s[p[i]]
              /\ \A i, j \in 1..Len(Chosen(s, at)) : i < j => p[i] < p[j]
<1>0. PICK f : IsChoice(f, S, s, at)
  BY ChosenUnfolds
<1> DEFINE n == Len(s)
<1>1. /\ f \in [0..n -> Seq(S)] /\ f[0] = <<>>
      /\ \A k \in 1..n : f[k] = IF k \in at THEN Append(f[k - 1], s[k]) ELSE f[k - 1]
      /\ Chosen(s, at) = f[n]
  BY <1>0 DEF IsChoice
<1>2. n \in Nat /\ \A k \in 1..n : s[k] \in S
  BY LenProperties
<1> HIDE DEF n
<1> DEFINE Places(t, k, p) ==
             /\ p \in [1..Len(t) -> 1..k]
             /\ \A i \in 1..Len(t) : p[i] \in at /\ t[i] = s[p[i]]
             /\ \A i, j \in 1..Len(t) : i < j => p[i] < p[j]
           T == {k \in Nat : k <= n => \E p : Places(f[k], k, p)}
<1>3. 0 \in T
  <2>1. f[0] = <<>> /\ Len(<<>>) = 0
    BY <1>1, EmptySeq
  <2>2. Places(<<>>, 0, [i \in 1..0 |-> i])
    BY <2>1
  <2>3. Places(f[0], 0, [i \in 1..0 |-> i])
    BY ONLY <2>1, <2>2
  <2> HIDE DEF Places
  <2> QED  BY <2>3
<1>4. ASSUME NEW k \in Nat, k \in T, k + 1 <= n PROVE \E p : Places(f[k + 1], k + 1, p)
  <2>0. k <= n
    BY <1>2, <1>4
  <2>1. PICK p : Places(f[k], k, p)
    <3> HIDE DEF Places
    <3> QED  BY <1>4, <2>0
  <2>2. /\ k \in 0..n /\ k + 1 \in 1..n /\ f[k] \in Seq(S) /\ s[k + 1] \in S
        /\ f[k + 1] = IF k + 1 \in at THEN Append(f[k], s[k + 1]) ELSE f[k]
    <3>1. k \in 0..n /\ k + 1 \in 1..n /\ (k + 1) - 1 = k
      BY <1>2, <1>4
    <3> QED  BY <1>1, <1>2, <3>1
  <2> DEFINE t == f[k]
             m == Len(t)
  <2>3. m \in Nat
    BY <2>2, LenProperties
  <2>4. CASE k + 1 \in at
    <3> DEFINE u == f[k + 1]
               q == [i \in 1..Len(u) |-> IF i <= m THEN p[i] ELSE k + 1]
    <3>1. Len(u) = m + 1 /\ (\A i \in 1..m : u[i] = t[i]) /\ u[m + 1] = s[k + 1]
      BY <2>2, <2>4, AppendProperties
    <3>2. \A i \in 1..m : p[i] \in 1..k /\ p[i] \in at /\ t[i] = s[p[i]]
      BY <2>1
    <3>3. \A i, j \in 1..m : i < j => p[i] < p[j]
      BY <2>1
    <3> HIDE DEF u, m, t
    <3>4. q \in [1..Len(u) -> 1..(k + 1)]
      BY <2>3, <3>1, <3>2
    <3>5. \A i \in 1..Len(u) : q[i] \in at /\ u[i] = s[q[i]]
      BY <2>3, <2>4, <3>1, <3>2
    <3>6. \A i, j \in 1..Len(u) : i < j => q[i] < q[j]
      BY <2>3, <3>1, <3>2, <3>3
    <3> HIDE DEF q
    <3>7. Places(u, k + 1, q)
      BY <3>4, <3>5, <3>6
    <3> QED  BY <3>7 DEF u
  <2>5. CASE k + 1 \notin at
    <3>1. p \in [1..m -> 1..(k + 1)]
      BY <2>1
    <3>2. Places(t, k + 1, p)
      BY <2>1, <3>1
    <3>3. f[k + 1] = t
      BY <2>2, <2>5
    <3> QED  BY <3>2, <3>3
  <2> QED  BY <2>4, <2>5
<1>5. \A k \in Nat : k \in T => k + 1 \in T
  <2> HIDE DEF Places
  <2>1. \A k \in Nat : k + 1 \in Nat
    OBVIOUS
  <2>2. ASSUME NEW k \in Nat, k \in T PROVE k + 1 <= n => \E p : Places(f[k + 1], k + 1, p)
    BY <1>4, <2>2
  <2> QED  BY <2>1, <2>2
<1> HIDE DEF T
<1>6. n \in T
  BY <1>2, <1>3, <1>5, Induction
<1>7. PICK p : Places(f[n], n, p)
  <2> HIDE DEF Places
  <2>1. n <= n
    BY <1>2
  <2> QED  BY <1>6, <2>1 DEF T
<1>8. f[n] \in Seq(S)
  BY <1>1, <1>2
<1> DEFINE c == f[n]
<1>9. /\ p \in [1..Len(c) -> 1..Len(s)]
      /\ \A i \in 1..Len(c) : p[i] \in at /\ c[i] = s[p[i]]
      /\ \A i, j \in 1..Len(c) : i < j => p[i] < p[j]
  BY ONLY <1>7 DEF n
<1>10. c = Chosen(s, at) /\ c \in Seq(S)
  BY <1>1, <1>8
<1> HIDE DEF c
<1> QED  BY ONLY <1>9, <1>10

\* The last elements of a sequence are as many as there are, up to a number.
LEMMA LastOfFacts ==
  ASSUME NEW S, NEW s \in Seq(S), NEW n \in Nat
  PROVE  /\ LastOf(s, n) \in Seq(S)
         /\ Len(LastOf(s, n)) = IF Len(s) > n THEN n ELSE Len(s)
         /\ \A i \in 1..Len(LastOf(s, n)) : LastOf(s, n)[i] = s[(Len(s) - Len(LastOf(s, n))) + i]
<1>0. Len(s) \in Nat
  BY LenProperties
<1>1. CASE Len(s) > n
  <2> DEFINE from == Len(s) - n + 1
  <2>1. from \in 1..(Len(s) + 1) /\ Len(s) \in (from - 1)..Len(s) /\ from \in Nat
    BY <1>0, <1>1
  <2>2. LastOf(s, n) = SubSeq(s, from, Len(s))
    BY <1>1 DEF LastOf
  <2>3. /\ SubSeq(s, from, Len(s)) \in Seq(S)
        /\ Len(SubSeq(s, from, Len(s))) = Len(s) - from + 1
        /\ \A i \in 1..(Len(s) - from + 1) : SubSeq(s, from, Len(s))[i] = s[from + i - 1]
    BY <1>0, <2>1, SubSeqProperties
  <2>4. Len(s) - from + 1 = n /\ \A i \in 1..n : from + i - 1 = (Len(s) - n) + i
    BY <1>0, <1>1
  <2> HIDE DEF from
  <2>5. Len(LastOf(s, n)) = n /\ LastOf(s, n) \in Seq(S)
    BY <2>2, <2>3, <2>4
  <2>6. \A i \in 1..n : LastOf(s, n)[i] = s[(Len(s) - n) + i]
    BY <2>2, <2>3, <2>4
  <2> QED  BY ONLY <1>1, <2>5, <2>6
<1>2. CASE ~(Len(s) > n)
  <2>1. LastOf(s, n) = s
    BY <1>2 DEF LastOf
  <2> QED  BY <1>0, <1>2, <2>1
<1> QED  BY <1>1, <1>2

\* A buffer that drops its oldest element when it is full holds the last ones.
LEMMA KeepsLast ==
  ASSUME NEW S, NEW s \in Seq(S), NEW e \in S, NEW tail \in Nat \ {0}
  PROVE  KeepLast(LastOf(s, tail), tail, e) = LastOf(Append(s, e), tail)
<1> DEFINE kept == LastOf(s, tail)
           all == Append(s, e)
           L == Len(s)
<1>1. L \in Nat
  BY LenProperties
<1>2. all \in Seq(S) /\ Len(all) = L + 1 /\ (\A i \in 1..L : all[i] = s[i]) /\ all[L + 1] = e
  BY AppendProperties
<1>3. /\ kept \in Seq(S) /\ Len(kept) = IF L > tail THEN tail ELSE L
      /\ \A i \in 1..Len(kept) : kept[i] = s[(L - Len(kept)) + i]
  BY LastOfFacts
<1> HIDE DEF kept, all, L
<1>4. CASE L < tail
  <2>1. kept = s /\ Len(kept) # tail
    <3>1. ~(L > tail)
      BY <1>1, <1>4
    <3>2. kept = s
      BY <3>1 DEF kept, LastOf, L
    <3> QED  BY <1>4, <3>2 DEF L
  <2>2. LastOf(all, tail) = all
    <3>1. ~(L + 1 > tail)
      BY <1>1, <1>4
    <3> QED  BY <1>2, <3>1 DEF LastOf
  <2> QED  BY <2>1, <2>2 DEF KeepLast, all, kept
<1>5. CASE L >= tail
  <2>1. Len(kept) = tail /\ kept # <<>> /\ \A i \in 1..tail : kept[i] = s[(L - tail) + i]
    <3>1. Len(kept) = tail
      BY <1>1, <1>3, <1>5
    <3>2. kept # <<>>
      BY <3>1, EmptySeq
    <3> QED  BY <1>3, <3>1, <3>2
  <2> DEFINE rest == Tail(kept)
             left == Append(rest, e)
             right == LastOf(all, tail)
  <2>2. rest \in Seq(S) /\ Len(rest) = tail - 1 /\ \A i \in 1..(tail - 1) : rest[i] = kept[i + 1]
    BY <1>3, <2>1, HeadTailProperties
  <2>3. left \in Seq(S) /\ Len(left) = tail /\ (\A i \in 1..(tail - 1) : left[i] = rest[i]) /\ left[tail] = e
    <3> HIDE DEF rest
    <3>1. (tail - 1) + 1 = tail
      OBVIOUS
    <3> QED  BY <2>2, <3>1, AppendProperties
  <2>4. right \in Seq(S) /\ Len(right) = tail /\ \A i \in 1..tail : right[i] = all[((L + 1) - tail) + i]
    <3>1. L + 1 > tail
      BY <1>1, <1>5
    <3>2. /\ right \in Seq(S) /\ Len(right) = IF Len(all) > tail THEN tail ELSE Len(all)
          /\ \A i \in 1..Len(right) : right[i] = all[(Len(all) - Len(right)) + i]
      BY <1>2, LastOfFacts
    <3> HIDE DEF right
    <3> QED  BY <1>2, <3>1, <3>2
  <2> HIDE DEF rest, left, right
  <2>5. ASSUME NEW i \in 1..tail PROVE left[i] = right[i]
    <3>1. CASE i = tail
      <4>1. ((L + 1) - tail) + i = L + 1
        BY <1>1, <3>1
      <4> QED  BY <1>2, <2>3, <2>4, <3>1, <4>1
    <3>2. CASE i # tail
      <4>1. /\ i \in 1..(tail - 1) /\ i + 1 \in 1..tail
            /\ ((L + 1) - tail) + i = (L - tail) + (i + 1)
            /\ ((L + 1) - tail) + i \in 1..L
        BY <1>1, <1>5, <3>2
      <4>2. left[i] = s[(L - tail) + (i + 1)]
        BY <2>1, <2>2, <2>3, <4>1
      <4>3. right[i] = s[(L - tail) + (i + 1)]
        BY <1>2, <2>4, <4>1
      <4> QED  BY <4>2, <4>3
    <3> QED  BY <3>1, <3>2
  <2>6. left = right
    BY <2>3, <2>4, <2>5, SeqEqual
  <2>7. KeepLast(kept, tail, e) = left
    BY <2>1 DEF KeepLast, left, rest
  <2> QED  BY <2>6, <2>7 DEF right, all, kept
<1> QED  BY <1>1, <1>4, <1>5

\* What is shown is what one keeps going through the events.
IsDisplay(f, S, events, tail, types) ==
  /\ f \in [0..Len(events) -> Seq(S)] /\ f[0] = <<>>
  /\ \A k \in 1..Len(events) :
       f[k] = IF EventTypes[events[k].number] \notin types THEN f[k - 1]
              ELSE KeepLast(f[k - 1], tail, events[k])
  /\ ShownEvents(events, tail, types) = f[Len(events)]

\* The last entries with one more are entries.
LEMMA KeptType ==
  ASSUME NEW S, NEW s \in Seq(S), NEW e \in S, NEW tail
  PROVE  KeepLast(s, tail, e) \in Seq(S)
<1>1. CASE Len(s) = tail /\ s # <<>>
  <2>1. Tail(s) \in Seq(S)
    BY <1>1, HeadTailProperties
  <2> QED  BY <1>1, <2>1, AppendProperties DEF KeepLast
<1>2. CASE ~(Len(s) = tail /\ s # <<>>)
  BY <1>2, AppendProperties DEF KeepLast
<1> QED  BY <1>1, <1>2

\* There is a function with what is displayed of every beginning of the events.
LEMMA DisplayUnfolds ==
  ASSUME NEW S, NEW events \in Seq(S), NEW tail, NEW types
  PROVE  \E f : IsDisplay(f, S, events, tail, types)
<1> DEFINE n == Len(events)
           V == Seq(S)
           Out(k) == EventTypes[events[k].number] \notin types
           IsUpto(f) == f = [k \in 0..n |->
             IF k = 0 THEN <<>>
             ELSE IF EventTypes[events[k].number] \notin types THEN f[k - 1]
             ELSE KeepLast(f[k - 1], tail, events[k])]
           folds == [k \in 1..n |-> [before \in V |-> IF Out(k) THEN before ELSE KeepLast(before, tail, events[k])]]
<1>1. n \in Nat /\ <<>> \in V /\ \A k \in 1..n : events[k] \in S
  BY LenProperties, EmptySeq
<1>2. folds \in [1..n -> [V -> V]]
  <2>1. ASSUME NEW k \in 1..n, NEW before \in V
        PROVE  (IF Out(k) THEN before ELSE KeepLast(before, tail, events[k])) \in V
    <3>1. KeepLast(before, tail, events[k]) \in V
      BY <1>1, KeptType
    <3> HIDE DEF V, Out
    <3> QED  BY <3>1
  <2> HIDE DEF V, n, Out
  <2> QED  BY <2>1
<1>3. PICK g : IsFold(g, n, V, <<>>, folds)
  <2> HIDE DEF n, folds, V
  <2> QED  BY <1>1, <1>2, FoldExists
<1>4. /\ g \in [0..n -> V] /\ g[0] = <<>>
      /\ \A k \in 1..n : g[k] = IF Out(k) THEN g[k - 1] ELSE KeepLast(g[k - 1], tail, events[k])
  <2>1. ASSUME NEW k \in 1..n PROVE g[k] = folds[k][g[k - 1]] /\ g[k - 1] \in V
    <3>1. k - 1 \in 0..n
      BY <1>1
    <3> QED  BY <1>3, <3>1 DEF IsFold
  <2> HIDE DEF Out, n, V
  <2> QED  BY <1>3, <2>1 DEF IsFold
<1>5. IsUpto(g)
  <2>1. \A k \in 0..n : k = 0 \/ k \in 1..n
    BY <1>1
  <2> HIDE DEF V, n
  <2> QED  BY <1>4, <2>1
<1> DEFINE f == CHOOSE h : IsUpto(h)
<1>6. IsUpto(f)
  <2> HIDE DEF IsUpto
  <2> QED  BY <1>5
<1>7. ShownEvents(events, tail, types) = f[n]
  BY DEF ShownEvents
<1> HIDE DEF f
<1>8. /\ f[0] = <<>>
      /\ \A k \in 1..n : f[k] = IF Out(k) THEN f[k - 1] ELSE KeepLast(f[k - 1], tail, events[k])
  <2>1. 0 \in 0..n /\ \A k \in 1..n : k \in 0..n /\ k # 0
    BY <1>1
  <2> HIDE DEF n
  <2> QED  BY <1>6, <2>1
<1>9. \A k \in 0..n : f[k] \in V
  <2> DEFINE T == {i \in Nat : i <= n => f[i] \in V}
  <2>1. 0 \in T
    BY <1>1, <1>8
  <2>2. ASSUME NEW k \in Nat, k \in T, k + 1 <= n PROVE f[k + 1] \in V
    <3>1. k + 1 \in 1..n /\ (k + 1) - 1 = k /\ f[k] \in V
      BY <1>1, <2>2
    <3>2. /\ events[k + 1] \in S
          /\ f[k + 1] = IF Out(k + 1) THEN f[k] ELSE KeepLast(f[k], tail, events[k + 1])
      BY <1>1, <1>8, <3>1
    <3>3. KeepLast(f[k], tail, events[k + 1]) \in V
      BY <3>1, <3>2, KeptType
    <3> QED  BY ONLY <3>1, <3>2, <3>3
  <2>3. \A k \in Nat : k \in T => k + 1 \in T
    BY <2>2
  <2> HIDE DEF T
  <2>4. \A k \in Nat : k \in T
    BY <2>1, <2>3, Induction
  <2> QED  BY <1>1, <2>4 DEF T
<1>10. f \in [0..n -> V]
  <2>1. f = [k \in 0..n |-> f[k]]
    BY <1>6
  <2> HIDE DEF n, V
  <2> QED  BY <1>9, <2>1
<1> QED  BY <1>7, <1>8, <1>10 DEF IsDisplay

\* logs shows the last of the events that the filter matches.
LEMMA ShownAreLast ==
  ASSUME NEW S, NEW events \in Seq(S), NEW tail \in Nat \ {0}, NEW types
  PROVE  ShownEvents(events, tail, types)
           = LastOf(Chosen(events, {k \in 1..Len(events) : EventTypes[events[k].number] \in types}), tail)
<1> DEFINE n == Len(events)
           wanted == {k \in 1..n : EventTypes[events[k].number] \in types}
<1>1. n \in Nat /\ \A k \in 1..n : events[k] \in S
  BY LenProperties
<1>2. PICK f : IsDisplay(f, S, events, tail, types)
  BY DisplayUnfolds
<1>3. PICK h : IsChoice(h, S, events, wanted)
  BY ChosenUnfolds
<1>4. /\ f[0] = <<>>
      /\ \A k \in 1..n : f[k] = IF k \in wanted THEN KeepLast(f[k - 1], tail, events[k]) ELSE f[k - 1]
      /\ ShownEvents(events, tail, types) = f[n]
  BY <1>2 DEF IsDisplay
<1> HIDE DEF wanted, n
<1>5. /\ h \in [0..n -> Seq(S)] /\ h[0] = <<>>
      /\ \A k \in 1..n : h[k] = IF k \in wanted THEN Append(h[k - 1], events[k]) ELSE h[k - 1]
      /\ Chosen(events, wanted) = h[n]
  BY <1>3 DEF IsChoice, n
<1> DEFINE T == {k \in Nat : k <= n => f[k] = LastOf(h[k], tail)}
<1>6. 0 \in T
  <2>1. LastOf(<<>>, tail) = <<>>
    BY EmptySeq DEF LastOf
  <2> QED  BY <1>4, <1>5, <2>1
<1>7. ASSUME NEW k \in Nat, k \in T, k + 1 <= n PROVE f[k + 1] = LastOf(h[k + 1], tail)
  <2>1. k \in 0..n /\ k + 1 \in 1..n /\ (k + 1) - 1 = k /\ f[k] = LastOf(h[k], tail)
    BY <1>1, <1>7
  <2>2. /\ f[k + 1] = IF k + 1 \in wanted THEN KeepLast(f[k], tail, events[k + 1]) ELSE f[k]
        /\ h[k + 1] = IF k + 1 \in wanted THEN Append(h[k], events[k + 1]) ELSE h[k]
        /\ h[k] \in Seq(S) /\ events[k + 1] \in S
    BY <1>1, <1>4, <1>5, <2>1
  <2>3. KeepLast(LastOf(h[k], tail), tail, events[k + 1]) = LastOf(Append(h[k], events[k + 1]), tail)
    BY <2>2, KeepsLast
  <2> QED  BY ONLY <2>1, <2>2, <2>3
<1>8. \A k \in Nat : k \in T => k + 1 \in T
  BY <1>7
<1> HIDE DEF T
<1>9. n \in T
  BY <1>1, <1>6, <1>8, Induction
<1>10. f[n] = LastOf(h[n], tail)
  BY <1>1, <1>9 DEF T
<1> QED  BY <1>4, <1>5, <1>10 DEF wanted, n

-----------------------------------------------------------------------------
(* Lines *)

\* Going through the file, write by write.
IsLines(f) ==
  /\ f[0] = <<<<>>>>
  /\ \A k \in 1..Len(file) :
       f[k] = IF file[k] = LineEnd THEN Append(f[k - 1], <<>>)
              ELSE [f[k - 1] EXCEPT ![Len(f[k - 1])] = Append(@, file[k])]
  /\ FileLines = f[Len(file)]

Lines == {lines \in Seq(Seq(EventRecord)) : Len(lines) > 0}

\* What stands on the lines after a write.
LEMMA NewLine ==
  ASSUME NEW lines \in Lines
  PROVE  /\ Append(lines, <<>>) \in Lines /\ Len(Append(lines, <<>>)) = Len(lines) + 1
         /\ \A a \in 1..Len(lines) : Append(lines, <<>>)[a] = lines[a]
         /\ Len(Append(lines, <<>>)[Len(lines) + 1]) = 0
<1>1. lines \in Seq(Seq(EventRecord)) /\ <<>> \in Seq(EventRecord) /\ Len(<<>>) = 0 /\ Len(lines) \in Nat
  BY EmptySeq, LenProperties DEF Lines
<1> QED  BY <1>1, AppendProperties DEF Lines

\* One more entry of the last line leaves the others as they are.
LEMMA SameLine ==
  ASSUME NEW lines \in Lines, NEW x \in EventRecord
  PROVE  LET after == [lines EXCEPT ![Len(lines)] = Append(@, x)]
             last == lines[Len(lines)]
         IN /\ after \in Lines /\ Len(after) = Len(lines)
            /\ \A a \in 1..Len(lines) : a # Len(lines) => after[a] = lines[a]
            /\ Len(after[Len(lines)]) = Len(last) + 1
            /\ \A i \in 1..Len(last) : after[Len(lines)][i] = last[i]
            /\ after[Len(lines)][Len(last) + 1] = x
<1> DEFINE n == Len(lines)
           last == lines[n]
           more == Append(last, x)
           after == [lines EXCEPT ![n] = Append(@, x)]
<1>1. /\ lines \in Seq(Seq(EventRecord)) /\ n \in Nat /\ n > 0 /\ DOMAIN lines = 1..n /\ n \in 1..n
      /\ \A a \in 1..n : lines[a] \in Seq(EventRecord)
  BY LenProperties DEF Lines
<1>2. /\ more \in Seq(EventRecord) /\ Len(more) = Len(last) + 1
      /\ \A i \in 1..Len(last) : more[i] = last[i]
      /\ more[Len(last) + 1] = x
  BY <1>1, AppendProperties
<1>3. after = [a \in 1..n |-> IF a = n THEN more ELSE lines[a]]
  BY <1>1
<1> HIDE DEF after, more, n
<1>4. after \in [1..n -> Seq(EventRecord)]
  BY <1>1, <1>2, <1>3
<1>5. after \in Seq(Seq(EventRecord)) /\ Len(after) = n
  BY <1>1, <1>4
<1>6. after[n] = more /\ \A a \in 1..n : a # n => after[a] = lines[a]
  BY <1>1, <1>3
<1> QED  BY <1>1, <1>2, <1>5, <1>6 DEF Lines, after, n

\* There is a function with the lines of every beginning of the file.
LEMMA LinesUnfold ==
  ASSUME file \in Seq(EventRecord \cup {LineEnd})
  PROVE  \E f \in [0..Len(file) -> Lines] : IsLines(f)
<1> DEFINE n == Len(file)
           Ends(k) == file[k] = LineEnd
           IsUpto(f) == f = [k \in 0..n |->
             IF k = 0 THEN <<<<>>>>
             ELSE IF file[k] = LineEnd THEN Append(f[k - 1], <<>>)
             ELSE [f[k - 1] EXCEPT ![Len(f[k - 1])] = Append(@, file[k])]]
           Next(before, k) == IF Ends(k) THEN Append(before, <<>>)
                              ELSE [before EXCEPT ![Len(before)] = Append(@, file[k])]
           folds == [k \in 1..n |-> [before \in Lines |-> Next(before, k)]]
<1>1. n \in Nat /\ \A k \in 1..n : ~Ends(k) => file[k] \in EventRecord
  BY LenProperties
<1>2. <<<<>>>> \in Lines
  <2>1. <<>> \in Seq(EventRecord)
    BY EmptySeq
  <2>2. <<<<>>>> \in Seq(Seq(EventRecord)) /\ Len(<<<<>>>>) = 1
    BY <2>1
  <2> QED  BY <2>2 DEF Lines
<1>3. \A k \in 1..n, before \in Lines : Next(before, k) \in Lines
  <2> SUFFICES ASSUME NEW k \in 1..n, NEW before \in Lines PROVE Next(before, k) \in Lines
    OBVIOUS
  <2>1. CASE Ends(k)
    BY <2>1, NewLine
  <2>2. CASE ~Ends(k)
    <3>1. file[k] \in EventRecord
      BY <1>1, <2>2
    <3> HIDE DEF Ends
    <3> QED  BY <2>2, <3>1, SameLine
  <2> QED  BY <2>1, <2>2
<1>4. folds \in [1..n -> [Lines -> Lines]]
  <2> HIDE DEF Next, n
  <2> QED  BY <1>3
<1>5. PICK g : IsFold(g, n, Lines, <<<<>>>>, folds)
  <2> HIDE DEF n, folds
  <2> QED  BY <1>1, <1>2, <1>4, FoldExists
<1>6. /\ g \in [0..n -> Lines] /\ g[0] = <<<<>>>>
      /\ \A k \in 1..n : g[k] = Next(g[k - 1], k)
  <2>1. ASSUME NEW k \in 1..n PROVE g[k] = folds[k][g[k - 1]] /\ g[k - 1] \in Lines
    <3>1. k - 1 \in 0..n
      BY <1>1
    <3> QED  BY <1>5, <3>1 DEF IsFold
  <2> HIDE DEF Next, n
  <2> QED  BY <1>5, <2>1 DEF IsFold
<1>7. IsUpto(g)
  <2>1. \A k \in 0..n : k = 0 \/ k \in 1..n
    BY <1>1
  <2>2. g = [k \in 0..n |-> IF k = 0 THEN <<<<>>>> ELSE Next(g[k - 1], k)]
    <3> HIDE DEF Next, n
    <3> QED  BY <1>6, <2>1
  <2> HIDE DEF n
  <2> QED  BY ONLY <2>2
<1> DEFINE f == CHOOSE h : IsUpto(h)
<1>8. IsUpto(f)
  <2> HIDE DEF IsUpto
  <2> QED  BY <1>7
<1>9. FileLines = f[n]
  BY DEF FileLines
<1> HIDE DEF f
<1>10. f[0] = <<<<>>>> /\ \A k \in 1..n : f[k] = Next(f[k - 1], k)
  <2>1. f = [k \in 0..n |-> IF k = 0 THEN <<<<>>>> ELSE Next(f[k - 1], k)]
    BY ONLY <1>8
  <2>2. 0 \in 0..n /\ \A k \in 1..n : k \in 0..n /\ k # 0
    BY <1>1
  <2> HIDE DEF n, Next
  <2> QED  BY <2>1, <2>2
<1>11. \A k \in 0..n : f[k] \in Lines
  <2> DEFINE T == {i \in Nat : i <= n => f[i] \in Lines}
  <2>1. 0 \in T
    BY <1>2, <1>10
  <2>2. ASSUME NEW k \in Nat, k \in T, k + 1 <= n PROVE f[k + 1] \in Lines
    <3>1. k + 1 \in 1..n /\ (k + 1) - 1 = k /\ f[k] \in Lines
      BY <1>1, <2>2
    <3>2. f[k + 1] = Next(f[k], k + 1)
      <4> HIDE DEF Next, n
      <4> QED  BY <1>10, <3>1
    <3> HIDE DEF Next, n
    <3> QED  BY <1>3, <3>1, <3>2
  <2>3. \A k \in Nat : k \in T => k + 1 \in T
    BY <2>2
  <2> HIDE DEF T
  <2>4. \A k \in Nat : k \in T
    BY <2>1, <2>3, Induction
  <2> QED  BY <1>1, <2>4 DEF T
<1>12. f \in [0..n -> Lines]
  <2>1. f = [k \in 0..n |-> f[k]]
    BY <1>8
  <2> HIDE DEF n
  <2> QED  BY <1>11, <2>1
<1>13. IsLines(f)
  BY ONLY <1>9, <1>10 DEF IsLines
<1> QED  BY <1>12, <1>13

\* In the file the events of a command stand in the order of their numbers.
FileInOrder ==
  \A k \in 1..Len(file) : file[k] # LineEnd =>
    \A j \in 1..(k - 1) : file[j].by = file[k].by => file[j].number < file[k].number

\* Lines hold writes of the file up to one of them, and an event of a command that
\* stands on an earlier line has a smaller number.
LinesUpto(lines, k) ==
  /\ \A a \in 1..Len(lines) : \A i \in 1..Len(lines[a]) :
       \E m \in 1..k : file[m] # LineEnd /\ file[m] = lines[a][i]
  /\ \A a, b \in 1..Len(lines) : a < b =>
       \A i \in 1..Len(lines[a]), j \in 1..Len(lines[b]) :
         lines[a][i].by = lines[b][j].by => lines[a][i].number < lines[b][j].number

\* The lines come in the order of the entries they are made of.
LEMMA LinesInOrder ==
  ASSUME file \in Seq(EventRecord \cup {LineEnd}), FileInOrder
  PROVE  FileLines \in Lines /\ LinesUpto(FileLines, Len(file))
<1> DEFINE n == Len(file)
<1>1. n \in Nat /\ \A k \in 1..n : file[k] # LineEnd => file[k] \in EventRecord
  BY LenProperties
<1>2. PICK f \in [0..n -> Lines] : IsLines(f)
  BY LinesUnfold
<1>3. /\ f[0] = <<<<>>>> /\ FileLines = f[n]
      /\ \A k \in 1..n : file[k] = LineEnd => f[k] = Append(f[k - 1], <<>>)
      /\ \A k \in 1..n : file[k] # LineEnd => f[k] = [f[k - 1] EXCEPT ![Len(f[k - 1])] = Append(@, file[k])]
  BY <1>2 DEF IsLines
<1> HIDE DEF n
<1> DEFINE T == {k \in Nat : k <= n => LinesUpto(f[k], k)}
<1>4. 0 \in T
  <2>1. f[0] = <<<<>>>>
    BY <1>3
  <2>2. Len(f[0]) = 1 /\ Len(f[0][1]) = 0
    BY <2>1
  <2>3. LinesUpto(f[0], 0)
    BY ONLY <2>2 DEF LinesUpto
  <2> QED  BY <2>3
<1>5. ASSUME NEW k \in Nat, k \in T, k + 1 <= n PROVE LinesUpto(f[k + 1], k + 1)
  <2> DEFINE before == f[k]
             after == f[k + 1]
             L == Len(before)
  <2>1. k \in 0..n /\ k + 1 \in 1..n /\ (k + 1) - 1 = k /\ LinesUpto(before, k)
    BY <1>1, <1>5
  <2>2. before \in Lines /\ L \in Nat /\ L > 0
    BY <1>2, <2>1, LenProperties DEF Lines
  <2>3. /\ \A a \in 1..L : \A i \in 1..Len(before[a]) :
             \E m \in 1..k : file[m] # LineEnd /\ file[m] = before[a][i]
        /\ \A a, b \in 1..L : a < b =>
             \A i \in 1..Len(before[a]), j \in 1..Len(before[b]) :
               before[a][i].by = before[b][j].by => before[a][i].number < before[b][j].number
    BY ONLY <2>1 DEF LinesUpto
  <2>4. /\ file[k + 1] = LineEnd => after = Append(before, <<>>)
        /\ file[k + 1] # LineEnd => after = [before EXCEPT ![Len(before)] = Append(@, file[k + 1])]
    BY ONLY <1>3, <2>1
  <2>5. \A m \in 1..k : m \in 1..(k + 1)
    BY <2>1
  <2>6. CASE file[k + 1] = LineEnd
    <3>1. /\ Len(after) = L + 1 /\ \A a \in 1..L : after[a] = before[a]
          /\ Len(after[L + 1]) = 0
      <4> HIDE DEF before, after
      <4> QED  BY <2>2, <2>4, <2>6, NewLine
    <3> HIDE DEF before, after, L
    <3>2. ASSUME NEW a \in 1..Len(after), NEW i \in 1..Len(after[a])
          PROVE  a \in 1..L /\ after[a] = before[a]
      <4>1. a # L + 1
        BY <2>2, <3>1
      <4> QED  BY <2>2, <3>1, <4>1
    <3>3. \A a \in 1..Len(after) : \A i \in 1..Len(after[a]) :
            \E m \in 1..(k + 1) : file[m] # LineEnd /\ file[m] = after[a][i]
      BY <2>3, <2>5, <3>2
    <3>4. ASSUME NEW a \in 1..Len(after), NEW b \in 1..Len(after), a < b,
                 NEW i \in 1..Len(after[a]), NEW j \in 1..Len(after[b]), after[a][i].by = after[b][j].by
          PROVE  after[a][i].number < after[b][j].number
      <4>1. a \in 1..L /\ after[a] = before[a] /\ b \in 1..L /\ after[b] = before[b]
        BY <3>2
      <4> QED  BY <2>3, <3>4, <4>1
    <3>5. LinesUpto(after, k + 1)
      BY ONLY <3>3, <3>4 DEF LinesUpto
    <3> QED  BY <3>5 DEF after
  <2>7. CASE file[k + 1] # LineEnd
    <3> DEFINE last == before[L]
    <3>1. /\ Len(after) = L /\ \A a \in 1..L : a # L => after[a] = before[a]
          /\ Len(after[L]) = Len(last) + 1
          /\ \A i \in 1..Len(last) : after[L][i] = last[i]
          /\ after[L][Len(last) + 1] = file[k + 1]
      <4>1. file[k + 1] \in EventRecord
        BY <1>1, <2>1, <2>7
      <4> HIDE DEF before, after
      <4> QED  BY <2>2, <2>4, <2>7, <4>1, SameLine
    <3>2. Len(last) \in Nat
      BY <2>2, LenProperties DEF Lines
    <3>3. \A m \in 1..k : file[m].by = file[k + 1].by => file[m].number < file[k + 1].number
      BY <2>1, <2>7 DEF FileInOrder, n
    <3> HIDE DEF before, after, L, last
    <3>4. ASSUME NEW a \in 1..L, NEW i \in 1..Len(after[a])
          PROVE  \/ i \in 1..Len(before[a]) /\ after[a][i] = before[a][i]
                 \/ a = L /\ after[a][i] = file[k + 1]
      <4>1. CASE a # L
        BY <3>1, <4>1
      <4>2. CASE a = L
        <5>1. last = before[a]
          BY <4>2 DEF last
        <5>2. i \in 1..Len(last) \/ i = Len(last) + 1
          BY <3>1, <3>2, <4>2
        <5> QED  BY <3>1, <4>2, <5>1, <5>2
      <4> QED  BY <4>1, <4>2
    <3>5. \A a \in 1..Len(after) : \A i \in 1..Len(after[a]) :
            \E m \in 1..(k + 1) : file[m] # LineEnd /\ file[m] = after[a][i]
      <4> SUFFICES ASSUME NEW a \in 1..L, NEW i \in 1..Len(after[a])
                   PROVE  \E m \in 1..(k + 1) : file[m] # LineEnd /\ file[m] = after[a][i]
        BY <3>1
      <4>1. CASE after[a][i] = file[k + 1]
        BY <2>1, <2>7, <4>1
      <4>2. CASE i \in 1..Len(before[a]) /\ after[a][i] = before[a][i]
        BY <2>3, <2>5, <4>2
      <4> QED  BY <3>4, <4>1, <4>2
    <3>6. ASSUME NEW a \in 1..Len(after), NEW b \in 1..Len(after), a < b,
                 NEW i \in 1..Len(after[a]), NEW j \in 1..Len(after[b]), after[a][i].by = after[b][j].by
          PROVE  after[a][i].number < after[b][j].number
      <4>1. a \in 1..L /\ b \in 1..L /\ a # L
        BY <2>2, <3>1, <3>6
      <4>2. i \in 1..Len(before[a]) /\ after[a][i] = before[a][i]
        BY <3>4, <4>1
      <4>3. CASE j \in 1..Len(before[b]) /\ after[b][j] = before[b][j]
        BY <2>3, <3>6, <4>1, <4>2, <4>3
      <4>4. CASE after[b][j] = file[k + 1]
        <5>1. PICK m \in 1..k : file[m] = before[a][i]
          BY <2>3, <4>1, <4>2
        <5> QED  BY <3>3, <3>6, <4>2, <4>4, <5>1
      <4> QED  BY <3>4, <4>1, <4>3, <4>4
    <3>7. LinesUpto(after, k + 1)
      BY ONLY <3>5, <3>6 DEF LinesUpto
    <3> QED  BY <3>7 DEF after
  <2> QED  BY <2>6, <2>7
<1>6. \A k \in Nat : k \in T => k + 1 \in T
  BY <1>5
<1> HIDE DEF T
<1>7. n \in T
  BY <1>1, <1>4, <1>6, Induction
<1>8. LinesUpto(f[n], n)
  BY <1>1, <1>7 DEF T
<1>9. f[n] \in Lines
  BY <1>1, <1>2
<1> QED  BY <1>3, <1>8, <1>9 DEF n

\* The events that can be read.
Ordered(events) ==
  \A i, j \in 1..Len(events) :
    i < j /\ events[i].by = events[j].by => events[i].number < events[j].number

\* What is read of the file is in the order in which it was written.
LEMMA ReadInOrder ==
  ASSUME file \in Seq(EventRecord \cup {LineEnd}), FileInOrder
  PROVE  ReadEvents \in Seq(EventRecord) /\ Ordered(ReadEvents)
<1> DEFINE single == {k \in 1..Len(FileLines) : Len(FileLines[k]) = 1}
           lines == Chosen(FileLines, single)
<1>1. FileLines \in Lines /\ LinesUpto(FileLines, Len(file))
  BY LinesInOrder
<1>2. FileLines \in Seq(Seq(EventRecord))
  BY <1>1 DEF Lines
<1>3. /\ lines \in Seq(Seq(EventRecord))
      /\ \E p \in [1..Len(lines) -> 1..Len(FileLines)] :
           /\ \A i \in 1..Len(lines) : p[i] \in single /\ lines[i] = FileLines[p[i]]
           /\ \A i, j \in 1..Len(lines) : i < j => p[i] < p[j]
  <2> HIDE DEF single
  <2> QED  BY <1>2, ChosenFacts
<1>4. PICK p \in [1..Len(lines) -> 1..Len(FileLines)] :
           /\ \A i \in 1..Len(lines) : p[i] \in single /\ lines[i] = FileLines[p[i]]
           /\ \A i, j \in 1..Len(lines) : i < j => p[i] < p[j]
  BY <1>3
<1>5. ReadEvents = [k \in 1..Len(lines) |-> lines[k][1]]
  BY DEF ReadEvents
<1> HIDE DEF lines
<1>6. Len(lines) \in Nat /\ \A k \in 1..Len(lines) : lines[k] \in Seq(EventRecord) /\ Len(lines[k]) = 1
  BY <1>3, <1>4, LenProperties
<1>7. \A k \in 1..Len(lines) : lines[k][1] \in EventRecord
  BY <1>6, LenProperties
<1>8. ReadEvents \in Seq(EventRecord) /\ Len(ReadEvents) = Len(lines)
  BY <1>5, <1>6, <1>7
<1>9. ASSUME NEW i \in 1..Len(lines), NEW j \in 1..Len(lines), i < j, lines[i][1].by = lines[j][1].by
      PROVE  lines[i][1].number < lines[j][1].number
  <2>1. /\ p[i] \in 1..Len(FileLines) /\ p[j] \in 1..Len(FileLines) /\ p[i] < p[j]
        /\ lines[i] = FileLines[p[i]] /\ lines[j] = FileLines[p[j]]
    BY <1>4, <1>9
  <2>2. 1 \in 1..Len(FileLines[p[i]]) /\ 1 \in 1..Len(FileLines[p[j]])
    <3>1. Len(lines[i]) = 1 /\ Len(lines[j]) = 1
      BY <1>6
    <3> QED  BY ONLY <2>1, <3>1
  <2>3. \A a, b \in 1..Len(FileLines) : a < b =>
          \A x \in 1..Len(FileLines[a]), y \in 1..Len(FileLines[b]) :
            FileLines[a][x].by = FileLines[b][y].by => FileLines[a][x].number < FileLines[b][y].number
    BY <1>1 DEF LinesUpto
  <2> QED  BY <1>9, <2>1, <2>2, <2>3
<1>10. Ordered(ReadEvents)
  BY <1>5, <1>8, <1>9 DEF Ordered
<1> QED  BY <1>8, <1>10

\* The last of the events that match are in order as well.
LEMMA ShownInOrder ==
  ASSUME NEW events \in Seq(EventRecord), Ordered(events), NEW tail \in Nat \ {0}, NEW types
  PROVE  Ordered(ShownEvents(events, tail, types))
<1> DEFINE wanted == {k \in 1..Len(events) : EventTypes[events[k].number] \in types}
           chosen == Chosen(events, wanted)
           seen == LastOf(chosen, tail)
<1>1. ShownEvents(events, tail, types) = seen
  BY ShownAreLast
<1>2. /\ chosen \in Seq(EventRecord)
      /\ \E p \in [1..Len(chosen) -> 1..Len(events)] :
           /\ \A i \in 1..Len(chosen) : p[i] \in wanted /\ chosen[i] = events[p[i]]
           /\ \A i, j \in 1..Len(chosen) : i < j => p[i] < p[j]
  <2> HIDE DEF wanted
  <2> QED  BY ChosenFacts
<1> HIDE DEF wanted, chosen
<1>3. PICK p \in [1..Len(chosen) -> 1..Len(events)] :
           /\ \A i \in 1..Len(chosen) : chosen[i] = events[p[i]]
           /\ \A i, j \in 1..Len(chosen) : i < j => p[i] < p[j]
  BY <1>2
<1>4. /\ Len(chosen) \in Nat /\ Len(seen) \in Nat /\ Len(seen) <= Len(chosen)
      /\ \A i \in 1..Len(seen) : seen[i] = chosen[(Len(chosen) - Len(seen)) + i]
  <2>1. Len(chosen) \in Nat
    BY <1>2, LenProperties
  <2>2. /\ Len(seen) = IF Len(chosen) > tail THEN tail ELSE Len(chosen)
        /\ \A i \in 1..Len(seen) : seen[i] = chosen[(Len(chosen) - Len(seen)) + i]
    BY <1>2, LastOfFacts
  <2> HIDE DEF seen
  <2>3. tail \in Nat
    OBVIOUS
  <2>4. Len(seen) \in Nat /\ Len(seen) <= Len(chosen)
    BY ONLY <2>1, <2>2, <2>3
  <2> QED  BY ONLY <2>1, <2>2, <2>4
<1> HIDE DEF seen
<1>5. ASSUME NEW i \in 1..Len(seen), NEW j \in 1..Len(seen), i < j, seen[i].by = seen[j].by
      PROVE  seen[i].number < seen[j].number
  <2> DEFINE d == Len(chosen) - Len(seen)
  <2>1. d + i \in 1..Len(chosen) /\ d + j \in 1..Len(chosen) /\ d + i < d + j
    BY <1>4, <1>5
  <2>2. seen[i] = chosen[d + i] /\ seen[j] = chosen[d + j]
    BY <1>4
  <2> HIDE DEF d
  <2>3. /\ p[d + i] \in 1..Len(events) /\ p[d + j] \in 1..Len(events) /\ p[d + i] < p[d + j]
        /\ seen[i] = events[p[d + i]] /\ seen[j] = events[p[d + j]]
    BY <1>3, <2>1, <2>2
  <2> QED  BY <1>5, <2>3 DEF Ordered
<1> QED  BY <1>1, <1>5 DEF Ordered

-----------------------------------------------------------------------------
(* Order *)

\* The file holds no event of a command behind the one its task is at, and that
\* one only when its text was written.
Behind ==
  \A c \in Commands : \A k \in 1..Len(file) : file[k].by = c =>
    /\ file[k].number <= logger[c].next
    /\ logger[c].at \in {"waits", "text"} => file[k].number < logger[c].next

OrderInv == LogTypeOK /\ Behind /\ FileInOrder

\* The order holds when the log is empty.
LEMMA OrderStart == LogInit => OrderInv
<1> SUFFICES ASSUME LogInit PROVE OrderInv
  OBVIOUS
<1>1. LogTypeOK
  BY InitIInv DEF IInv
<1>2. Len(file) = 0
  BY DEF LogInit
<1> QED  BY <1>1, <1>2 DEF OrderInv, Behind, FileInOrder

\* A step that writes nothing and takes no task back.
LEMMA QuietStep ==
  ASSUME OrderInv, LogTypeOK', file' = file,
         \A c \in Commands :
           \/ logger'[c] = logger[c]
           \/ logger'[c].at = "ended" /\ logger'[c].next = logger[c].next
           \/ logger[c].at = "waits" /\ logger'[c].next = logger[c].next
           \/ logger'[c].next = logger[c].next + 1
  PROVE  OrderInv'
<1>1. \A c \in Commands : logger[c].next \in Nat /\ logger'[c].next \in Nat
  BY DEF OrderInv, LogTypeOK
<1>2. \A k \in 1..Len(file) : file[k].by \in Commands => file[k].number \in Nat
  BY EventLogAssumption DEF OrderInv, LogTypeOK, EventRecord, LineEnd
<1>3. Behind'
  <2> SUFFICES ASSUME NEW c \in Commands, NEW k \in 1..Len(file), file[k].by = c
               PROVE  /\ file[k].number <= logger'[c].next
                      /\ logger'[c].at \in {"waits", "text"} => file[k].number < logger'[c].next
    BY DEF Behind
  <2>1. /\ file[k].number <= logger[c].next /\ file[k].number \in Nat
        /\ logger[c].at \in {"waits", "text"} => file[k].number < logger[c].next
    BY <1>2 DEF OrderInv, Behind
  <2> QED  BY <1>1, <2>1
<1>4. FileInOrder'
  BY DEF OrderInv, FileInOrder
<1> QED  BY <1>3, <1>4 DEF OrderInv

\* Every step keeps it.
LEMMA OrderStep == OrderInv /\ [LogNext]_logVars => OrderInv'
<1> SUFFICES ASSUME OrderInv, [LogNext]_logVars PROVE OrderInv'
  OBVIOUS
<1>0. LogTypeOK /\ Behind /\ FileInOrder /\ LogTypeOK'
  BY TypeStep DEF OrderInv
<1>1. ASSUME NEW c \in Commands, Emit(c) PROVE OrderInv'
  BY <1>0, <1>1, QuietStep DEF Emit
<1>2. ASSUME NEW c \in Commands, Return(c) PROVE OrderInv'
  BY <1>0, <1>2, QuietStep DEF Return
<1>3. ASSUME NEW c \in Commands, Kill(c) PROVE OrderInv'
  <2>1. \A d \in Commands : \/ logger'[d] = logger[d]
                            \/ logger'[d].at = "ended" /\ logger'[d].next = logger[d].next
    BY <1>0, <1>3 DEF Kill, LogTypeOK
  <2> QED  BY <1>0, <1>3, <2>1, QuietStep DEF Kill
<1>4. ASSUME NEW c \in Commands, StopLogger(c) PROVE OrderInv'
  <2>1. \A d \in Commands : \/ logger'[d] = logger[d]
                            \/ logger'[d].at = "ended" /\ logger'[d].next = logger[d].next
    BY <1>0, <1>4 DEF StopLogger, LogTypeOK
  <2> QED  BY <1>0, <1>4, <2>1, QuietStep DEF StopLogger
<1>5. ASSUME NEW c \in Commands, NEW ok \in BOOLEAN, Receive(c, ok) PROVE OrderInv'
  <2>1. /\ logger[c].at = "waits" /\ file' = file
        /\ \A d \in Commands : d # c => logger'[d] = logger[d]
        /\ logger'[c].next = logger[c].next \/ logger'[c].next = logger[c].next + 1
    <3>1. /\ logger[c].at = "waits" /\ file' = file
          /\ \A d \in Commands : d # c => logger'[d] = logger[d]
      BY <1>0, <1>5, ReceiveFacts
    <3>2. \/ logger'[c] = [at |-> "ended", next |-> logger[c].next]
          \/ logger'[c] = [at |-> "text", next |-> logger[c].next]
          \/ logger'[c] = [at |-> "waits", next |-> logger[c].next + 1]
      BY <1>0, <1>5, ReceiveFacts
    <3> QED  BY ONLY <3>1, <3>2
  <2> QED  BY <1>0, <2>1, QuietStep
<1>6. ASSUME NEW c \in Commands, NEW ok \in BOOLEAN, WriteText(c, ok) PROVE OrderInv'
  <2>1. /\ logger[c].at = "text"
        /\ file' = IF ok THEN Append(file, Event(c, logger[c].next)) ELSE file
        /\ \A d \in Commands : d # c => logger'[d] = logger[d]
        /\ logger'[c] = IF ok THEN [at |-> "end", next |-> logger[c].next]
                        ELSE [at |-> "waits", next |-> logger[c].next + 1]
    BY <1>0, <1>6, WriteTextFacts
  <2>2. CASE ~ok
    BY <1>0, <2>1, <2>2, QuietStep
  <2>3. CASE ok
    <3> DEFINE x == Event(c, logger[c].next)
               n == Len(file)
    <3>1. x \in EventRecord /\ x.by = c /\ x.number = logger[c].next
      BY <1>0, EventType DEF LogTypeOK, Event
    <3>2. /\ n \in Nat /\ Len(file') = n + 1
          /\ \A k \in 1..n : file'[k] = file[k]
          /\ file'[n + 1] = x
      BY <1>0, <2>1, <2>3, <3>1, AppendFacts
    <3>3. /\ logger'[c].at = "end" /\ logger'[c].next = logger[c].next
          /\ \A d \in Commands : d # c => logger'[d] = logger[d]
      BY <2>1, <2>3
    <3>4. logger[c].next \in Nat
      BY <1>0 DEF LogTypeOK
    <3>5. \A k \in 1..n : file[k].by = c => file[k].number < logger[c].next
      BY <1>0, <2>1 DEF Behind
    <3> HIDE DEF x, n
    <3>6. ASSUME NEW d \in Commands, NEW k \in 1..Len(file'), file'[k].by = d
          PROVE  /\ file'[k].number <= logger'[d].next
                 /\ logger'[d].at \in {"waits", "text"} => file'[k].number < logger'[d].next
      <4>1. CASE k = n + 1
        BY <3>1, <3>2, <3>3, <3>4, <3>6, <4>1
      <4>2. CASE k # n + 1
        <5>1. k \in 1..n /\ file'[k] = file[k] /\ file[k].by = d
          BY <3>2, <3>6, <4>2
        <5>2. /\ file[k].number <= logger[d].next
              /\ logger[d].at \in {"waits", "text"} => file[k].number < logger[d].next
          BY <1>0, <5>1 DEF Behind, n
        <5>3. CASE d = c
          BY <3>3, <5>1, <5>2, <5>3
        <5>4. CASE d # c
          BY <3>3, <5>1, <5>2, <5>4
        <5> QED  BY <5>3, <5>4
      <4> QED  BY <4>1, <4>2
    <3>7. Behind'
      BY ONLY <3>6 DEF Behind
    <3>8. ASSUME NEW k \in 1..Len(file'), file'[k] # LineEnd,
                 NEW j \in 1..(k - 1), file'[j].by = file'[k].by
          PROVE  file'[j].number < file'[k].number
      <4>1. j \in 1..n /\ file'[j] = file[j]
        BY <3>2
      <4>2. CASE k = n + 1
        BY <3>1, <3>2, <3>5, <3>8, <4>1, <4>2
      <4>3. CASE k # n + 1
        <5>1. k \in 1..n /\ file'[k] = file[k]
          BY <3>2, <4>3
        <5> QED  BY <1>0, <3>8, <4>1, <5>1 DEF FileInOrder, n
      <4> QED  BY <4>2, <4>3
    <3>9. FileInOrder'
      BY ONLY <3>8 DEF FileInOrder
    <3> QED  BY <1>0, <3>7, <3>9 DEF OrderInv
  <2> QED  BY <2>2, <2>3
<1>7. ASSUME NEW c \in Commands, NEW ok \in BOOLEAN, WriteEnd(c, ok) PROVE OrderInv'
  <2>1. /\ file' = IF ok THEN Append(file, LineEnd) ELSE file
        /\ \A d \in Commands : d # c => logger'[d] = logger[d]
        /\ logger'[c].next = logger[c].next + 1
    BY <1>0, <1>7 DEF WriteEnd, Advance, LogTypeOK
  <2>2. CASE ~ok
    BY <1>0, <2>1, <2>2, QuietStep
  <2>3. CASE ok
    <3> DEFINE n == Len(file)
    <3>1. /\ n \in Nat /\ Len(file') = n + 1
          /\ \A k \in 1..n : file'[k] = file[k]
          /\ file'[n + 1] = LineEnd
      BY <1>0, <2>1, <2>3, AppendFacts
    <3>2. \A d \in Commands : logger[d].next \in Nat
      BY <1>0 DEF LogTypeOK
    <3>3. \A k \in 1..n : file[k].by \in Commands => file[k].number \in Nat
      BY <1>0, EventLogAssumption DEF LogTypeOK, EventRecord, LineEnd
    <3> HIDE DEF n
    <3>4. ASSUME NEW d \in Commands, NEW k \in 1..Len(file'), file'[k].by = d
          PROVE  /\ file'[k].number <= logger'[d].next
                 /\ logger'[d].at \in {"waits", "text"} => file'[k].number < logger'[d].next
      <4>1. k \in 1..n /\ file'[k] = file[k] /\ file[k].by = d
        BY <3>1, <3>4, EventLogAssumption DEF LineEnd
      <4>2. /\ file[k].number <= logger[d].next /\ file[k].number \in Nat
            /\ logger[d].at \in {"waits", "text"} => file[k].number < logger[d].next
        BY <1>0, <3>3, <4>1 DEF Behind, n
      <4>3. CASE d = c
        BY <2>1, <3>2, <4>1, <4>2, <4>3
      <4>4. CASE d # c
        BY <2>1, <4>1, <4>2, <4>4
      <4> QED  BY <4>3, <4>4
    <3>5. Behind'
      BY ONLY <3>4 DEF Behind
    <3>6. ASSUME NEW k \in 1..Len(file'), file'[k] # LineEnd,
                 NEW j \in 1..(k - 1), file'[j].by = file'[k].by
          PROVE  file'[j].number < file'[k].number
      <4>1. k \in 1..n /\ file'[k] = file[k] /\ j \in 1..n /\ file'[j] = file[j]
        BY <3>1, <3>6
      <4> QED  BY <1>0, <3>6, <4>1 DEF FileInOrder, n
    <3>7. FileInOrder'
      BY ONLY <3>6 DEF FileInOrder, LineEnd
    <3> QED  BY <1>0, <3>5, <3>7 DEF OrderInv
  <2> QED  BY <2>2, <2>3
<1>8. CASE UNCHANGED logVars
  BY <1>0, <1>8, QuietStep DEF logVars
<1> QED  BY <1>1, <1>2, <1>3, <1>4, <1>5, <1>6, <1>7, <1>8 DEF LogNext

\* Whatever was written between what and wherever a task was killed, logs shows
\* the last of the events that can be read and are wanted, as many as it was
\* asked for, and those of one command in the order in which it emitted them.
THEOREM EventLogsShowTheLast == LogSpec => []LogsShowTheLast
<1>1. OrderInv => LogsShowTheLast
  <2> SUFFICES ASSUME OrderInv PROVE LogsShowTheLast
    OBVIOUS
  <2>1. ReadEvents \in Seq(EventRecord) /\ Ordered(ReadEvents)
    BY ReadInOrder DEF OrderInv, LogTypeOK
  <2> DEFINE events == ReadEvents
  <2> HIDE DEF events
  <2>2. ASSUME NEW types, NEW tail \in 1..2
        PROVE  /\ ShownEvents(events, tail, types)
                    = LastOf(Chosen(events, {k \in 1..Len(events) : EventTypes[events[k].number] \in types}), tail)
               /\ \A i, j \in 1..Len(ShownEvents(events, tail, types)) :
                    /\ i < j
                    /\ ShownEvents(events, tail, types)[i].by = ShownEvents(events, tail, types)[j].by
                    => ShownEvents(events, tail, types)[i].number < ShownEvents(events, tail, types)[j].number
    <3>1. tail \in Nat \ {0} /\ events \in Seq(EventRecord) /\ Ordered(events)
      BY <2>1 DEF events
    <3>2. Ordered(ShownEvents(events, tail, types))
      BY <3>1, ShownInOrder
    <3> QED  BY <3>1, <3>2, ShownAreLast DEF Ordered
  <2> QED  BY ONLY <2>2 DEF LogsShowTheLast, events
<1>2. OrderInv /\ [LogNext]_logVars => OrderInv'
  BY OrderStep
<1>3. LogInit => OrderInv
  BY OrderStart
<1> QED BY <1>1, <1>2, <1>3, PTL DEF LogSpec

(***************************************************************************)
(* What the diff of a candidate says (Diff): the table of common lines is  *)
(* that of the longest common subsequence, the operations read from it align*)
(* the texts, and the hunks of an alignment are the change.                *)
(***************************************************************************)
\* The rule of a recursive function: its value at a point depends on the values
\* at points of lower rank.
IsRule(rule, D, V, rank) ==
  /\ rule \in [[D -> V] -> [D -> V]]
  /\ \A g, h \in [D -> V] : \A p \in D :
       (\A q \in D : rank[q] < rank[p] => g[q] = h[q]) => rule[g][p] = rule[h][p]

\* There is a function that follows such a rule.
LEMMA RecursionExists ==
  ASSUME NEW D, NEW V, NEW v \in V, NEW top \in Nat, NEW rank \in [D -> 0..top],
         NEW rule, IsRule(rule, D, V, rank)
  PROVE  \E f \in [D -> V] : rule[f] = f
<1> DEFINE W == [D -> V]
           first == [p \in D |-> v]
           step == [k \in 1..(top + 2) |-> rule]
<1>1. first \in W /\ rule \in [W -> W] /\ step \in [1..(top + 2) -> [W -> W]] /\ top + 2 \in Nat
  BY DEF IsRule
<1>2. \A k \in 1..(top + 2) : step[k] = rule
  OBVIOUS
<1> HIDE DEF first, step, W
<1>3. PICK t : IsFold(t, top + 2, W, first, step)
  BY <1>1, FoldExists
<1>4. \A k \in 0..(top + 2) : t[k] \in W
  BY <1>3 DEF IsFold
<1>5. \A k \in 0..(top + 1) : t[k + 1] = rule[t[k]]
  <2> TAKE k \in 0..(top + 1)
  <2>1. k + 1 \in 1..(top + 2) /\ (k + 1) - 1 = k
    OBVIOUS
  <2> QED  BY <1>2, <1>3, <2>1 DEF IsFold
<1> DEFINE S == {k \in Nat : k <= top + 1 => \A p \in D : rank[p] < k => t[k + 1][p] = t[k][p]}
<1>6. 0 \in S
  <2>1. \A p \in D : ~(rank[p] < 0)
    OBVIOUS
  <2> QED  BY <2>1
<1>7. ASSUME NEW k \in Nat, k \in S, k + 1 <= top + 1, NEW p \in D, rank[p] < k + 1
      PROVE  t[(k + 1) + 1][p] = t[k + 1][p]
  <2>1. k \in 0..(top + 1) /\ k + 1 \in 0..(top + 1) /\ k <= top + 1
    BY <1>7
  <2>2. t[k + 1] = rule[t[k]] /\ t[(k + 1) + 1] = rule[t[k + 1]] /\ t[k] \in W /\ t[k + 1] \in W
    <3>1. k \in 0..(top + 2) /\ k + 1 \in 0..(top + 2)
      BY <2>1
    <3> QED  BY <1>4, <1>5, <2>1, <3>1
  <2>3. ASSUME NEW q \in D, rank[q] < rank[p] PROVE t[k + 1][q] = t[k][q]
    <3>1. rank[q] \in Nat /\ rank[p] \in Nat /\ rank[q] < k
      BY <1>7, <2>3
    <3> QED  BY <1>7, <2>1, <3>1
  <2> HIDE DEF S
  <2>4. rule[t[k + 1]][p] = rule[t[k]][p]
    BY <2>2, <2>3 DEF IsRule, W
  <2> QED  BY <2>2, <2>4
<1>8. \A k \in Nat : k \in S => k + 1 \in S
  BY <1>7
<1> HIDE DEF S
<1>9. top + 1 \in S
  BY <1>6, <1>8, Induction
<1>10. \A p \in D : t[(top + 1) + 1][p] = t[top + 1][p]
  <2>1. \A p \in D : rank[p] < top + 1
    OBVIOUS
  <2> QED  BY <1>9, <2>1 DEF S
<1>11. t[top + 1] \in W /\ t[(top + 1) + 1] \in W /\ t[(top + 1) + 1] = rule[t[top + 1]]
  <2>1. top + 1 \in 0..(top + 2) /\ (top + 1) + 1 \in 0..(top + 2) /\ top + 1 \in 0..(top + 1)
    OBVIOUS
  <2> QED  BY <1>4, <1>5, <2>1
<1>12. t[(top + 1) + 1] = t[top + 1]
  BY <1>10, <1>11 DEF W
<1> QED  BY <1>11, <1>12 DEF W

---------------------------------------------------------------------------

Entry(f, i, j) == f[<<i, j>>]
Grid(old, new) == (0..Len(old)) \X (0..Len(new))
Ahead(old, new) == [p \in Grid(old, new) |-> (Len(old) - p[1]) + (Len(new) - p[2])]

AreTexts(old, new) == IsSequence(old) /\ IsSequence(new)

\* The length of a text.
LEMMA TextLengths ==
  ASSUME NEW old, NEW new, AreTexts(old, new)
  PROVE  Len(old) \in Nat /\ Len(new) \in Nat
BY DEF AreTexts, IsSequence

\* Places in a text are numbers.
LEMMA Places ==
  ASSUME NEW S, NEW m \in Nat, NEW x \in [S -> 0..m]
  PROVE  \A k \in S : x[k] \in Nat
<1>1. \A i \in 0..m : i \in Nat
  OBVIOUS
<1>2. \A k \in S : x[k] \in 0..m
  OBVIOUS
<1> QED  BY ONLY <1>1, <1>2

\* One more and one less.
LEMMA OneBack == ASSUME NEW i \in Nat PROVE (i + 1) - 1 = i
OBVIOUS

\* A position that is not the end of both texts has less ahead of it at the next
\* line of the old, of the new or of both.
LEMMA AheadFacts ==
  ASSUME NEW old, NEW new, AreTexts(old, new)
  PROVE  /\ Ahead(old, new) \in [Grid(old, new) -> 0..(Len(old) + Len(new))]
         /\ \A i \in 0..Len(old), j \in 0..Len(new) :
              Entry(Ahead(old, new), i, j) = (Len(old) - i) + (Len(new) - j)
<1>1. Len(old) \in Nat /\ Len(new) \in Nat
  BY TextLengths
<1>2. ASSUME NEW p \in Grid(old, new)
      PROVE  (Len(old) - p[1]) + (Len(new) - p[2]) \in 0..(Len(old) + Len(new))
  <2>1. p[1] \in 0..Len(old) /\ p[2] \in 0..Len(new)
    BY DEF Grid
  <2> QED  BY <1>1, <2>1
<1>3. \A i \in 0..Len(old), j \in 0..Len(new) : <<i, j>> \in Grid(old, new)
  BY DEF Grid
<1> QED  BY <1>2, <1>3 DEF Ahead, Entry

TableAt(old, new, t, i, j) ==
  IF i = Len(old) \/ j = Len(new) THEN 0
  ELSE IF old[i + 1] = new[j + 1] THEN Entry(t, i + 1, j + 1) + 1
  ELSE IF Entry(t, i + 1, j) >= Entry(t, i, j + 1) THEN Entry(t, i + 1, j) ELSE Entry(t, i, j + 1)

IsTable(old, new, t) ==
  \A i \in 0..Len(old), j \in 0..Len(new) : Entry(t, i, j) = TableAt(old, new, t, i, j)

OpsAt(old, new, t, f, i, j) ==
  IF i = Len(old) /\ j = Len(new) THEN <<>>
  ELSE IF i < Len(old) /\ j < Len(new) /\ old[i + 1] = new[j + 1]
  THEN <<Keep(i + 1, j + 1)>> \o Entry(f, i + 1, j + 1)
  ELSE IF j = Len(new) \/ (i < Len(old) /\ Entry(t, i + 1, j) >= Entry(t, i, j + 1))
  THEN <<Delete(i + 1)>> \o Entry(f, i + 1, j)
  ELSE <<Insert(j + 1)>> \o Entry(f, i, j + 1)

Operations == [op : {"keep", "delete", "insert"}, old : Nat, new : Nat]

AreOps(old, new, t, f) ==
  \A i \in 0..Len(old), j \in 0..Len(new) : Entry(f, i, j) = OpsAt(old, new, t, f, i, j)

\* The coordinates of a pair of positions.
LEMMA GridPoint ==
  ASSUME NEW old, NEW new, NEW p \in Grid(old, new)
  PROVE  /\ p[1] \in 0..Len(old) /\ p[2] \in 0..Len(new) /\ p = <<p[1], p[2]>>
         /\ \A f : f[p] = Entry(f, p[1], p[2])
BY DEF Grid, Entry

\* Two positions, one of each text, are a pair of the table.
LEMMA GridHas ==
  ASSUME NEW old, NEW new, NEW i \in 0..Len(old), NEW j \in 0..Len(new)
  PROVE  <<i, j>> \in Grid(old, new) /\ <<i, j>>[1] = i /\ <<i, j>>[2] = j
BY DEF Grid

\* There is a table with the common length at every pair of positions.
LEMMA TableExists ==
  ASSUME NEW old, NEW new, AreTexts(old, new)
  PROVE  \E t \in [Grid(old, new) -> Nat] :
           t = [p \in Grid(old, new) |-> TableAt(old, new, t, p[1], p[2])]
<1> DEFINE D == Grid(old, new)
           V == Nat
           top == Len(old) + Len(new)
           rank == Ahead(old, new)
           rule == [t \in [D -> V] |-> [p \in D |-> TableAt(old, new, t, p[1], p[2])]]
<1>0. Len(old) \in Nat /\ Len(new) \in Nat /\ top \in Nat
  BY TextLengths
<1>1. ASSUME NEW t \in [D -> V], NEW p \in D PROVE TableAt(old, new, t, p[1], p[2]) \in V
  <2>1. p[1] \in 0..Len(old) /\ p[2] \in 0..Len(new)
    BY GridPoint
  <2>2. \A i \in 0..Len(old), j \in 0..Len(new) : Entry(t, i, j) \in Nat
    BY GridHas DEF Entry
  <2>3. CASE p[1] = Len(old) \/ p[2] = Len(new)
    BY <2>3 DEF TableAt
  <2>4. CASE ~(p[1] = Len(old) \/ p[2] = Len(new))
    <3>1. p[1] + 1 \in 0..Len(old) /\ p[2] + 1 \in 0..Len(new)
      BY <1>0, <2>1, <2>4
    <3>2. /\ Entry(t, p[1] + 1, p[2] + 1) \in Nat /\ Entry(t, p[1] + 1, p[2]) \in Nat
          /\ Entry(t, p[1], p[2] + 1) \in Nat
      BY <2>1, <2>2, <3>1
    <3> QED  BY <2>4, <3>2 DEF TableAt
  <2> QED  BY <2>3, <2>4
<1>2. ASSUME NEW g \in [D -> V], NEW h \in [D -> V], NEW p \in D,
             \A q \in D : rank[q] < rank[p] => g[q] = h[q]
      PROVE  TableAt(old, new, g, p[1], p[2]) = TableAt(old, new, h, p[1], p[2])
  <2>1. p[1] \in 0..Len(old) /\ p[2] \in 0..Len(new)
    BY GridPoint
  <2>2. rank[p] = (Len(old) - p[1]) + (Len(new) - p[2])
    BY GridPoint, AheadFacts, <2>1
  <2>3. ASSUME NEW i \in 0..Len(old), NEW j \in 0..Len(new), i + j > p[1] + p[2]
        PROVE  Entry(g, i, j) = Entry(h, i, j)
    <3>1. Entry(rank, i, j) = (Len(old) - i) + (Len(new) - j)
      BY AheadFacts
    <3>2. Entry(rank, i, j) < rank[p]
      <4> DEFINE n == Len(old)
                 m == Len(new)
                 a == p[1]
                 b == p[2]
      <4>1. n \in Nat /\ m \in Nat /\ a \in 0..n /\ b \in 0..m /\ i \in 0..n /\ j \in 0..m /\ i + j > a + b
        BY <1>0, <2>1, <2>3
      <4>2. Entry(rank, i, j) = (n - i) + (m - j) /\ rank[p] = (n - a) + (m - b)
        BY <2>2, <3>1
      <4> HIDE DEF n, m, a, b
      <4>3. (n - i) + (m - j) < (n - a) + (m - b)
        BY ONLY <4>1
      <4> QED  BY <4>2, <4>3
    <3>3. <<i, j>> \in D
      BY GridHas
    <3> QED  BY <1>2, <3>2, <3>3 DEF Entry
  <2>4. CASE p[1] = Len(old) \/ p[2] = Len(new)
    BY <2>4 DEF TableAt
  <2>5. CASE ~(p[1] = Len(old) \/ p[2] = Len(new))
    <3>1. p[1] + 1 \in 0..Len(old) /\ p[2] + 1 \in 0..Len(new)
      BY <1>0, <2>1, <2>5
    <3>2. /\ Entry(g, p[1] + 1, p[2] + 1) = Entry(h, p[1] + 1, p[2] + 1)
          /\ Entry(g, p[1] + 1, p[2]) = Entry(h, p[1] + 1, p[2])
          /\ Entry(g, p[1], p[2] + 1) = Entry(h, p[1], p[2] + 1)
      <4> DEFINE a == p[1]
                 b == p[2]
                 c == p[1] + 1
                 d == p[2] + 1
      <4>4. a \in 0..Len(old) /\ b \in 0..Len(new) /\ c \in 0..Len(old) /\ d \in 0..Len(new)
        BY <2>1, <3>1
      <4>5. c = a + 1 /\ d = b + 1
        OBVIOUS
      <4>2. \A i \in 0..Len(old), j \in 0..Len(new) : i + j > a + b => Entry(g, i, j) = Entry(h, i, j)
        BY <2>3
      <4> HIDE DEF a, b, c, d
      <4>6. a \in Nat /\ b \in Nat
        BY ONLY <1>0, <4>4
      <4>7. c + d > a + b /\ c + b > a + b /\ a + d > a + b
        BY ONLY <4>5, <4>6
      <4>1. /\ a \in 0..Len(old) /\ b \in 0..Len(new) /\ c \in 0..Len(old) /\ d \in 0..Len(new)
            /\ c + d > a + b /\ c + b > a + b /\ a + d > a + b
        BY <4>4, <4>7
      <4>3. Entry(g, c, d) = Entry(h, c, d) /\ Entry(g, c, b) = Entry(h, c, b) /\ Entry(g, a, d) = Entry(h, a, d)
        BY ONLY <4>1, <4>2
      <4> QED  BY <4>3 DEF a, b, c, d
    <3> QED  BY <2>5, <3>2 DEF TableAt
  <2> QED  BY <2>4, <2>5
<1>3. \A t \in [D -> V] : rule[t] = [p \in D |-> TableAt(old, new, t, p[1], p[2])]
  OBVIOUS
<1>4. rule \in [[D -> V] -> [D -> V]]
  BY <1>1
<1>5. IsRule(rule, D, V, rank)
  <2>1. ASSUME NEW g \in [D -> V], NEW h \in [D -> V], NEW p \in D,
               \A q \in D : rank[q] < rank[p] => g[q] = h[q]
        PROVE  rule[g][p] = rule[h][p]
    <3>1. rule[g][p] = TableAt(old, new, g, p[1], p[2]) /\ rule[h][p] = TableAt(old, new, h, p[1], p[2])
      BY <1>3
    <3> HIDE DEF rule, D, V, rank
    <3> QED  BY <1>2, <2>1, <3>1
  <2> HIDE DEF rule, D, V, rank
  <2> QED  BY <1>4, <2>1 DEF IsRule
<1>6. rank \in [D -> 0..top]
  BY AheadFacts
<1>7. 0 \in V
  OBVIOUS
<1> HIDE DEF rule, D, V, rank, top
<1>8. PICK f \in [D -> V] : rule[f] = f
  BY <1>0, <1>5, <1>6, <1>7, RecursionExists
<1>9. f = [p \in D |-> TableAt(old, new, f, p[1], p[2])]
  BY <1>3, <1>8
<1> QED  BY <1>9 DEF D, V

\* The table of lcs_ops.
LEMMA TableIs ==
  ASSUME NEW old, NEW new, AreTexts(old, new)
  PROVE  IsTable(old, new, LcsTable(old, new))
<1> DEFINE t == CHOOSE g : g = [p \in Grid(old, new) |-> TableAt(old, new, g, p[1], p[2])]
<1>1. t = [p \in Grid(old, new) |-> TableAt(old, new, t, p[1], p[2])]
  BY TableExists
<1>2. LcsTable(old, new) = t
  BY DEF LcsTable, Grid, TableAt, Entry
<1> HIDE DEF t
<1>3. ASSUME NEW i \in 0..Len(old), NEW j \in 0..Len(new)
      PROVE  Entry(t, i, j) = TableAt(old, new, t, i, j)
  <2>1. <<i, j>> \in Grid(old, new) /\ <<i, j>>[1] = i /\ <<i, j>>[2] = j
    BY GridHas
  <2>2. t[<<i, j>>] = TableAt(old, new, t, <<i, j>>[1], <<i, j>>[2])
    BY <1>1, <2>1
  <2> QED  BY <2>1, <2>2 DEF Entry
<1> QED  BY <1>2, <1>3 DEF IsTable

NumbersUpTo(old, new, t, r) ==
  \A i \in 0..Len(old), j \in 0..Len(new) :
    (Len(old) - i) + (Len(new) - j) <= r => Entry(t, i, j) \in Nat

\* Its entries are numbers.
LEMMA TableType ==
  ASSUME NEW old, NEW new, AreTexts(old, new), NEW t, IsTable(old, new, t)
  PROVE  \A i \in 0..Len(old), j \in 0..Len(new) : Entry(t, i, j) \in Nat
<1>0. Len(old) \in Nat /\ Len(new) \in Nat
  BY TextLengths
<1> DEFINE S == {r \in Nat : NumbersUpTo(old, new, t, r)}
<1>1. 0 \in S
  <2>1. \A i \in 0..Len(old), j \in 0..Len(new) :
          (Len(old) - i) + (Len(new) - j) <= 0 => i = Len(old) /\ j = Len(new)
    BY <1>0
  <2> QED  BY <2>1 DEF IsTable, TableAt, NumbersUpTo
<1>2. ASSUME NEW r \in Nat, NumbersUpTo(old, new, t, r), NEW i \in 0..Len(old), NEW j \in 0..Len(new),
             (Len(old) - i) + (Len(new) - j) <= r + 1
      PROVE  Entry(t, i, j) \in Nat
  <2>1. Entry(t, i, j) = TableAt(old, new, t, i, j)
    BY DEF IsTable
  <2>2. CASE i = Len(old) \/ j = Len(new)
    BY <2>1, <2>2 DEF TableAt
  <2>3. CASE ~(i = Len(old) \/ j = Len(new))
    <3>1. /\ i + 1 \in 0..Len(old) /\ j + 1 \in 0..Len(new)
          /\ (Len(old) - (i + 1)) + (Len(new) - (j + 1)) <= r
          /\ (Len(old) - (i + 1)) + (Len(new) - j) <= r
          /\ (Len(old) - i) + (Len(new) - (j + 1)) <= r
      BY <1>0, <1>2, <2>3
    <3>2. Entry(t, i + 1, j + 1) \in Nat /\ Entry(t, i + 1, j) \in Nat /\ Entry(t, i, j + 1) \in Nat
      BY <1>2, <3>1 DEF NumbersUpTo
    <3> QED  BY <2>1, <2>3, <3>2 DEF TableAt
  <2> QED  BY <2>2, <2>3
<1>3. \A r \in Nat : r \in S => r + 1 \in S
  <2>1. \A r \in Nat : NumbersUpTo(old, new, t, r) => NumbersUpTo(old, new, t, r + 1)
    BY <1>2 DEF NumbersUpTo
  <2> QED  BY <2>1
<1> HIDE DEF S
<1>4. Len(old) + Len(new) \in S
  <2>1. Len(old) + Len(new) \in Nat
    BY <1>0
  <2> QED  BY <1>1, <1>3, <2>1, Induction
<1>5. \A i \in 0..Len(old), j \in 0..Len(new) : (Len(old) - i) + (Len(new) - j) <= Len(old) + Len(new)
  BY <1>0
<1> QED  BY <1>4, <1>5 DEF S, NumbersUpTo

\* Places of a text after one of its lines, in order.
Rises(f, c, n, i) ==
  /\ f \in [1..c -> 1..n]
  /\ \A k \in 1..c : i < f[k]
  /\ \A k \in 2..c : f[k - 1] < f[k]

Match(old, new, c, f, g) == \A k \in 1..c : old[f[k]] = new[g[k]]

\* What follows a position of both texts has no more lines in common than the
\* table says there.
Longest(old, new, t, i, j) ==
  \A c \in Nat : \A f, g :
    Rises(f, c, Len(old), i) /\ Rises(g, c, Len(new), j) /\ Match(old, new, c, f, g) => c <= Entry(t, i, j)

\* Where the first is, the others are after it.
LEMMA FirstIsLeast ==
  ASSUME NEW c \in Nat, NEW n \in Nat, NEW i \in Nat, NEW f, Rises(f, c, n, i)
  PROVE  \A k \in 1..c : f[1] <= f[k]
<1>0. f \in [1..c -> 1..n] /\ \A k \in 2..c : f[k - 1] < f[k]
  BY DEF Rises
<1> DEFINE S == {k \in Nat : k + 1 <= c => f[1] <= f[k + 1]}
<1>1. 0 \in S
  <2>1. ASSUME 1 <= c PROVE f[1] <= f[1]
    <3>1. 1 \in 1..c
      BY <2>1
    <3>2. f[1] \in 1..n
      BY <1>0, <3>1
    <3> QED  BY <3>2
  <2> QED  BY <2>1
<1>2. ASSUME NEW k \in Nat, k \in S, (k + 1) + 1 <= c PROVE f[1] <= f[(k + 1) + 1]
  <2>1. /\ 1 \in 1..c /\ k + 1 \in 1..c /\ (k + 1) + 1 \in 1..c /\ (k + 1) + 1 \in 2..c
        /\ ((k + 1) + 1) - 1 = k + 1 /\ k + 1 <= c
    BY <1>2
  <2>2. f[1] \in 1..n /\ f[k + 1] \in 1..n /\ f[(k + 1) + 1] \in 1..n
    BY <1>0, <2>1
  <2>3. f[k + 1] < f[(k + 1) + 1]
    BY <1>0, <2>1
  <2>4. f[1] <= f[k + 1]
    BY <1>2, <2>1
  <2> QED  BY <2>2, <2>3, <2>4
<1>3. \A k \in Nat : k \in S => k + 1 \in S
  BY <1>2
<1> HIDE DEF S
<1>4. ASSUME NEW k \in 1..c PROVE f[1] <= f[k]
  <2>1. k - 1 \in Nat /\ (k - 1) + 1 = k /\ k <= c
    OBVIOUS
  <2>2. k - 1 \in S
    BY <1>1, <1>3, <2>1, Induction
  <2> QED  BY <2>1, <2>2 DEF S
<1> QED  BY <1>4

\* The places after the first.
LEMMA RisingTail ==
  ASSUME NEW c \in Nat, c # 0, NEW n \in Nat, NEW b \in Nat, NEW f, Rises(f, c, n, b)
  PROVE  \E h : Rises(h, c - 1, n, b + 1) /\ \A k \in 1..(c - 1) : h[k] = f[k + 1]
<1>0. f \in [1..c -> 1..n] /\ (\A k \in 2..c : f[k - 1] < f[k]) /\ \A k \in 1..c : b < f[k]
  BY DEF Rises
<1> DEFINE h == [k \in 1..(c - 1) |-> f[k + 1]]
<1>1. ASSUME NEW k \in 1..(c - 1)
      PROVE  /\ k + 1 \in 1..c /\ k + 1 \in 2..c /\ (k + 1) - 1 = k /\ k \in 1..c
             /\ h[k] = f[k + 1] /\ h[k] \in 1..n /\ b + 1 < h[k]
  <2>1. k + 1 \in 1..c /\ k + 1 \in 2..c /\ (k + 1) - 1 = k /\ k \in 1..c
    OBVIOUS
  <2>2. h[k] = f[k + 1]
    OBVIOUS
  <2> HIDE DEF h
  <2>3. h[k] \in 1..n
    BY <1>0, <2>1, <2>2
  <2>4. f[k] \in 1..n /\ b < f[k]
    BY <1>0, <2>1
  <2>5. f[(k + 1) - 1] < f[k + 1]
    BY <1>0, <2>1
  <2>6. f[k] < h[k]
    BY <2>1, <2>2, <2>5
  <2> QED  BY <2>1, <2>2, <2>3, <2>4, <2>6
<1>2. h \in [1..(c - 1) -> 1..n]
  BY <1>1
<1> HIDE DEF h
<1>3. ASSUME NEW k \in 2..(c - 1) PROVE h[k - 1] < h[k]
  <2>1. k - 1 \in 1..(c - 1) /\ k \in 1..(c - 1) /\ (k - 1) + 1 = k /\ k \in 2..c /\ k + 1 \in 2..c /\ (k + 1) - 1 = k
    OBVIOUS
  <2>2. h[k - 1] = f[(k - 1) + 1] /\ h[k] = f[k + 1]
    BY <1>1, <2>1
  <2>3. f[(k + 1) - 1] < f[k + 1]
    BY <1>0, <2>1
  <2> QED  BY <2>1, <2>2, <2>3
<1>4. Rises(h, c - 1, n, b + 1)
  BY <1>1, <1>2, <1>3 DEF Rises
<1> QED  BY <1>1, <1>4

LongestUpTo(old, new, t, r) ==
  \A i \in 0..Len(old), j \in 0..Len(new) :
    (Len(old) - i) + (Len(new) - j) <= r => Longest(old, new, t, i, j)

\* The table says this of all positions with more ahead when it does of those
\* with less.
LEMMA LongestGrows ==
  ASSUME NEW old, NEW new, AreTexts(old, new), NEW t, IsTable(old, new, t), NEW r \in Nat,
         LongestUpTo(old, new, t, r), NEW i \in 0..Len(old), NEW j \in 0..Len(new),
         (Len(old) - i) + (Len(new) - j) <= r + 1
  PROVE  Longest(old, new, t, i, j)
<1>0. Len(old) \in Nat /\ Len(new) \in Nat
  BY TextLengths
<1> SUFFICES ASSUME NEW c \in Nat, NEW f, NEW g, Rises(f, c, Len(old), i), Rises(g, c, Len(new), j),
      Match(old, new, c, f, g)
    PROVE  c <= Entry(t, i, j)
  BY DEF Longest
<1>1. Entry(t, i, j) = TableAt(old, new, t, i, j) /\ Entry(t, i, j) \in Nat
  BY TableType DEF IsTable
<1>2. CASE c = 0
  BY <1>1, <1>2
<1>3. CASE c # 0
  <2>1. 1 \in 1..c /\ f[1] \in 1..Len(old) /\ g[1] \in 1..Len(new) /\ i < f[1] /\ j < g[1] /\ old[f[1]] = new[g[1]]
    BY <1>3 DEF Rises, Match
  <2>2. /\ \A k \in 1..c : f[1] <= f[k]
        /\ \A k \in 1..c : g[1] <= g[k]
    <3>1. i \in Nat /\ j \in Nat
      BY <1>0
    <3> QED  BY <1>0, <3>1, FirstIsLeast
  <2>3. /\ i + 1 \in 0..Len(old) /\ j + 1 \in 0..Len(new) /\ i # Len(old) /\ j # Len(new)
        /\ (Len(old) - (i + 1)) + (Len(new) - (j + 1)) <= r
        /\ (Len(old) - (i + 1)) + (Len(new) - j) <= r
        /\ (Len(old) - i) + (Len(new) - (j + 1)) <= r
    BY <1>0, <2>1
  <2>4. /\ Longest(old, new, t, i + 1, j + 1) /\ Longest(old, new, t, i + 1, j)
        /\ Longest(old, new, t, i, j + 1)
    BY <2>3 DEF LongestUpTo
  <2>5. /\ Entry(t, i + 1, j + 1) \in Nat /\ Entry(t, i + 1, j) \in Nat /\ Entry(t, i, j + 1) \in Nat
    BY <2>3, TableType
  <2>6. CASE old[i + 1] = new[j + 1]
    <3>0. i \in Nat /\ j \in Nat /\ c - 1 \in Nat
      BY <1>0, <1>3
    <3>1. PICK ff : Rises(ff, c - 1, Len(old), i + 1) /\ \A k \in 1..(c - 1) : ff[k] = f[k + 1]
      BY <1>0, <1>3, <3>0, RisingTail
    <3>2. PICK gg : Rises(gg, c - 1, Len(new), j + 1) /\ \A k \in 1..(c - 1) : gg[k] = g[k + 1]
      BY <1>0, <1>3, <3>0, RisingTail
    <3>3. Match(old, new, c - 1, ff, gg)
      <4> SUFFICES ASSUME NEW k \in 1..(c - 1) PROVE old[ff[k]] = new[gg[k]]
        BY DEF Match
      <4>1. k + 1 \in 1..c
        BY <3>0
      <4>2. old[f[k + 1]] = new[g[k + 1]]
        BY <4>1 DEF Match
      <4> QED  BY <3>1, <3>2, <4>2
    <3>6. c - 1 <= Entry(t, i + 1, j + 1)
      BY <2>4, <3>0, <3>1, <3>2, <3>3 DEF Longest
    <3>7. Entry(t, i, j) = Entry(t, i + 1, j + 1) + 1
      BY <1>1, <2>3, <2>6 DEF TableAt
    <3> QED  BY <2>5, <3>6, <3>7
  <2>7. CASE old[i + 1] # new[j + 1]
    <3>1. Entry(t, i, j) >= Entry(t, i + 1, j) /\ Entry(t, i, j) >= Entry(t, i, j + 1)
      BY <1>1, <2>3, <2>5, <2>7 DEF TableAt
    <3>2. f[1] # i + 1 \/ g[1] # j + 1
      BY <2>1, <2>7
    <3>3. CASE f[1] # i + 1
      <4>1. f \in [1..c -> 1..Len(old)]
        BY DEF Rises
      <4>2. \A k \in 1..c : i + 1 < f[k]
        BY <1>0, <2>1, <2>2, <3>3, <4>1
      <4>3. Rises(f, c, Len(old), i + 1)
        BY <4>2 DEF Rises
      <4>4. c <= Entry(t, i + 1, j)
        BY <2>4, <4>3 DEF Longest
      <4> QED  BY <1>1, <2>5, <3>1, <4>4
    <3>4. CASE g[1] # j + 1
      <4>1. g \in [1..c -> 1..Len(new)]
        BY DEF Rises
      <4>2. \A k \in 1..c : j + 1 < g[k]
        BY <1>0, <2>1, <2>2, <3>4, <4>1
      <4>3. Rises(g, c, Len(new), j + 1)
        BY <4>2 DEF Rises
      <4>4. c <= Entry(t, i, j + 1)
        BY <2>4, <4>3 DEF Longest
      <4> QED  BY <1>1, <2>5, <3>1, <4>4
    <3> QED  BY <3>2, <3>3, <3>4
  <2> QED  BY <2>6, <2>7
<1> QED  BY <1>2, <1>3

\* It says so of every position.
LEMMA TableIsLongest ==
  ASSUME NEW old, NEW new, AreTexts(old, new), NEW t, IsTable(old, new, t)
  PROVE  \A i \in 0..Len(old), j \in 0..Len(new) : Longest(old, new, t, i, j)
<1>0. Len(old) \in Nat /\ Len(new) \in Nat
  BY TextLengths
<1> DEFINE S == {r \in Nat : LongestUpTo(old, new, t, r)}
<1>1. 0 \in S
  <2>1. ASSUME NEW i \in 0..Len(old), NEW j \in 0..Len(new), (Len(old) - i) + (Len(new) - j) <= 0
        PROVE  Longest(old, new, t, i, j)
    <3>1. i = Len(old)
      BY <1>0, <2>1
    <3> SUFFICES ASSUME NEW c \in Nat, NEW f, NEW g, Rises(f, c, Len(old), i), Rises(g, c, Len(new), j),
          Match(old, new, c, f, g)
        PROVE  c <= Entry(t, i, j)
      BY DEF Longest
    <3>2. Entry(t, i, j) \in Nat
      BY TableType
    <3>3. c = 0
      <4> SUFFICES ASSUME c # 0 PROVE FALSE
        OBVIOUS
      <4>1. 1 \in 1..c
        OBVIOUS
      <4>2. f[1] \in 1..Len(old) /\ i < f[1]
        BY <4>1 DEF Rises
      <4> QED  BY <1>0, <3>1, <4>2
    <3> QED  BY <3>2, <3>3
  <2> QED  BY <2>1 DEF LongestUpTo
<1>2. \A r \in Nat : r \in S => r + 1 \in S
  <2>1. \A r \in Nat : LongestUpTo(old, new, t, r) => LongestUpTo(old, new, t, r + 1)
    BY LongestGrows DEF LongestUpTo
  <2> QED  BY <2>1
<1> HIDE DEF S
<1>3. Len(old) + Len(new) \in S
  <2>1. Len(old) + Len(new) \in Nat
    BY <1>0
  <2> QED  BY <1>1, <1>2, <2>1, Induction
<1>4. \A i \in 0..Len(old), j \in 0..Len(new) : (Len(old) - i) + (Len(new) - j) <= Len(old) + Len(new)
  BY <1>0
<1> QED  BY <1>3, <1>4 DEF S, LongestUpTo

\* One operation before others.
LEMMA Prepended ==
  ASSUME NEW V, NEW o \in V, NEW s \in Seq(V)
  PROVE  /\ <<o>> \o s \in Seq(V)
         /\ Len(<<o>> \o s) = Len(s) + 1
         /\ (<<o>> \o s)[1] = o
         /\ \A k \in 1..Len(s) : (<<o>> \o s)[k + 1] = s[k]
<1>1. <<o>> \in Seq(V) /\ Len(<<o>>) = 1 /\ <<o>>[1] = o /\ Len(s) \in Nat
  OBVIOUS
<1> DEFINE u == <<o>>
<1> HIDE DEF u
<1>2. u \in Seq(V) /\ Len(u) = 1 /\ u[1] = o
  BY <1>1 DEF u
<1>3. /\ u \o s \in Seq(V)
      /\ Len(u \o s) = Len(u) + Len(s)
      /\ \A k \in 1..(Len(u) + Len(s)) : (u \o s)[k] = IF k <= Len(u) THEN u[k] ELSE s[k - Len(u)]
  BY <1>2, ConcatProperties
<1>4. Len(u \o s) = Len(s) + 1 /\ (u \o s)[1] = o
  BY <1>1, <1>2, <1>3
<1>5. \A k \in 1..Len(s) : (u \o s)[k + 1] = s[k]
  <2> TAKE k \in 1..Len(s)
  <2>1. k + 1 \in 1..(Len(u) + Len(s)) /\ ~(k + 1 <= Len(u)) /\ (k + 1) - Len(u) = k
    BY <1>1, <1>2
  <2> QED  BY <1>3, <2>1
<1> QED  BY <1>3, <1>4, <1>5 DEF u

\* The operations of positions.
LEMMA OperationsAre ==
  ASSUME NEW i \in Nat, NEW j \in Nat
  PROVE  Keep(i, j) \in Operations /\ Delete(i) \in Operations /\ Insert(j) \in Operations
BY DEF Keep, Delete, Insert, Operations

\* There is a function with the operations from every pair of positions.
LEMMA OpsExist ==
  ASSUME NEW old, NEW new, AreTexts(old, new), NEW t, IsTable(old, new, t)
  PROVE  \E f \in [Grid(old, new) -> Seq(Operations)] :
           f = [p \in Grid(old, new) |-> OpsAt(old, new, t, f, p[1], p[2])]
<1> DEFINE D == Grid(old, new)
           V == Seq(Operations)
           top == Len(old) + Len(new)
           rank == Ahead(old, new)
           rule == [f \in [D -> V] |-> [p \in D |-> OpsAt(old, new, t, f, p[1], p[2])]]
<1>0. Len(old) \in Nat /\ Len(new) \in Nat /\ top \in Nat
  BY TextLengths
<1>1. ASSUME NEW f \in [D -> V], NEW p \in D PROVE OpsAt(old, new, t, f, p[1], p[2]) \in V
  <2> DEFINE i == p[1]
             j == p[2]
  <2>1. i \in 0..Len(old) /\ j \in 0..Len(new)
    BY GridPoint
  <2>2. \A k \in 0..Len(old), l \in 0..Len(new) : Entry(f, k, l) \in V
    BY GridHas DEF Entry
  <2> HIDE DEF i, j
  <2>3. Keep(i + 1, j + 1) \in Operations /\ Delete(i + 1) \in Operations /\ Insert(j + 1) \in Operations
    BY <1>0, <2>1, OperationsAre
  <2>4. CASE i = Len(old) /\ j = Len(new)
    <3>1. OpsAt(old, new, t, f, i, j) = <<>>
      BY <2>4 DEF OpsAt
    <3> QED  BY <3>1 DEF i, j
  <2>5. CASE i < Len(old) /\ j < Len(new) /\ old[i + 1] = new[j + 1]
    <3>1. i + 1 \in 0..Len(old) /\ j + 1 \in 0..Len(new)
      BY <1>0, <2>1, <2>5
    <3>2. OpsAt(old, new, t, f, i, j) = <<Keep(i + 1, j + 1)>> \o Entry(f, i + 1, j + 1)
      BY <1>0, <2>1, <2>5 DEF OpsAt
    <3>3. OpsAt(old, new, t, f, i, j) \in V
      BY <2>2, <2>3, <3>1, <3>2, Prepended
    <3> QED  BY <3>3 DEF i, j
  <2>6. CASE /\ ~(i = Len(old) /\ j = Len(new)) /\ ~(i < Len(old) /\ j < Len(new) /\ old[i + 1] = new[j + 1])
             /\ (j = Len(new) \/ (i < Len(old) /\ Entry(t, i + 1, j) >= Entry(t, i, j + 1)))
    <3>1. i + 1 \in 0..Len(old)
      BY <1>0, <2>1, <2>6
    <3>2. OpsAt(old, new, t, f, i, j) = <<Delete(i + 1)>> \o Entry(f, i + 1, j)
      BY <2>6 DEF OpsAt
    <3>3. OpsAt(old, new, t, f, i, j) \in V
      BY <2>1, <2>2, <2>3, <3>1, <3>2, Prepended
    <3> QED  BY <3>3 DEF i, j
  <2>7. CASE /\ ~(i = Len(old) /\ j = Len(new)) /\ ~(i < Len(old) /\ j < Len(new) /\ old[i + 1] = new[j + 1])
             /\ ~(j = Len(new) \/ (i < Len(old) /\ Entry(t, i + 1, j) >= Entry(t, i, j + 1)))
    <3>1. j + 1 \in 0..Len(new)
      BY <1>0, <2>1, <2>7
    <3>2. OpsAt(old, new, t, f, i, j) = <<Insert(j + 1)>> \o Entry(f, i, j + 1)
      BY <2>7 DEF OpsAt
    <3>3. OpsAt(old, new, t, f, i, j) \in V
      BY <2>1, <2>2, <2>3, <3>1, <3>2, Prepended
    <3> QED  BY <3>3 DEF i, j
  <2> QED  BY <2>4, <2>5, <2>6, <2>7
<1>2. ASSUME NEW g \in [D -> V], NEW h \in [D -> V], NEW p \in D,
             \A q \in D : rank[q] < rank[p] => g[q] = h[q]
      PROVE  OpsAt(old, new, t, g, p[1], p[2]) = OpsAt(old, new, t, h, p[1], p[2])
  <2> DEFINE i == p[1]
             j == p[2]
  <2>1. i \in 0..Len(old) /\ j \in 0..Len(new)
    BY GridPoint
  <2>2. rank[p] = (Len(old) - i) + (Len(new) - j)
    BY GridPoint, AheadFacts, <2>1
  <2> HIDE DEF i, j
  <2>3. ASSUME NEW k \in 0..Len(old), NEW l \in 0..Len(new), k + l > i + j
        PROVE  Entry(g, k, l) = Entry(h, k, l)
    <3>1. Entry(rank, k, l) = (Len(old) - k) + (Len(new) - l)
      BY AheadFacts
    <3>2. Entry(rank, k, l) < rank[p]
      BY <1>0, <2>1, <2>2, <2>3, <3>1
    <3>3. <<k, l>> \in D
      BY GridHas
    <3> QED  BY <1>2, <3>2, <3>3 DEF Entry
  <2>4. i < Len(old) /\ j < Len(new) => Entry(g, i + 1, j + 1) = Entry(h, i + 1, j + 1)
    <3> SUFFICES ASSUME i < Len(old), j < Len(new) PROVE Entry(g, i + 1, j + 1) = Entry(h, i + 1, j + 1)
      OBVIOUS
    <3>1. i + 1 \in 0..Len(old) /\ j + 1 \in 0..Len(new) /\ (i + 1) + (j + 1) > i + j
      BY <1>0, <2>1
    <3> QED  BY <2>3, <3>1
  <2>5. i < Len(old) => Entry(g, i + 1, j) = Entry(h, i + 1, j)
    <3> SUFFICES ASSUME i < Len(old) PROVE Entry(g, i + 1, j) = Entry(h, i + 1, j)
      OBVIOUS
    <3>1. i + 1 \in 0..Len(old) /\ (i + 1) + j > i + j
      BY <1>0, <2>1
    <3> QED  BY <2>1, <2>3, <3>1
  <2>6. j < Len(new) => Entry(g, i, j + 1) = Entry(h, i, j + 1)
    <3> SUFFICES ASSUME j < Len(new) PROVE Entry(g, i, j + 1) = Entry(h, i, j + 1)
      OBVIOUS
    <3>1. j + 1 \in 0..Len(new) /\ i + (j + 1) > i + j
      BY <1>0, <2>1
    <3> QED  BY <2>1, <2>3, <3>1
  <2>7. ~(i = Len(old) /\ j = Len(new)) /\ (j = Len(new) \/ i < Len(old)) => i < Len(old)
    BY <1>0, <2>1
  <2>8. ~(j = Len(new)) => j < Len(new)
    BY <1>0, <2>1
  <2>9. OpsAt(old, new, t, g, i, j) = OpsAt(old, new, t, h, i, j)
    BY <2>4, <2>5, <2>6, <2>7, <2>8 DEF OpsAt
  <2> QED  BY <2>9 DEF i, j
<1>3. \A f \in [D -> V] : rule[f] = [p \in D |-> OpsAt(old, new, t, f, p[1], p[2])]
  OBVIOUS
<1>4. rule \in [[D -> V] -> [D -> V]]
  BY <1>1
<1>5. IsRule(rule, D, V, rank)
  <2>1. ASSUME NEW g \in [D -> V], NEW h \in [D -> V], NEW p \in D,
               \A q \in D : rank[q] < rank[p] => g[q] = h[q]
        PROVE  rule[g][p] = rule[h][p]
    <3>1. rule[g][p] = OpsAt(old, new, t, g, p[1], p[2]) /\ rule[h][p] = OpsAt(old, new, t, h, p[1], p[2])
      BY <1>3
    <3> HIDE DEF rule, D, V, rank
    <3> QED  BY <1>2, <2>1, <3>1
  <2> HIDE DEF rule, D, V, rank
  <2> QED  BY <1>4, <2>1 DEF IsRule
<1>6. rank \in [D -> 0..top]
  BY AheadFacts
<1>7. <<>> \in V
  OBVIOUS
<1> HIDE DEF rule, D, V, rank, top
<1>8. PICK f \in [D -> V] : rule[f] = f
  BY <1>0, <1>5, <1>6, <1>7, RecursionExists
<1>9. f = [p \in D |-> OpsAt(old, new, t, f, p[1], p[2])]
  BY <1>3, <1>8
<1> QED  BY <1>9 DEF D, V

\* The alignment is what follows the beginning of both texts.
LEMMA OpsAre ==
  ASSUME NEW old, NEW new, AreTexts(old, new)
  PROVE  \E f : AreOps(old, new, LcsTable(old, new), f) /\ LcsOps(old, new) = Entry(f, 0, 0)
<1> DEFINE t == LcsTable(old, new)
           f == CHOOSE g : g = [p \in Grid(old, new) |-> OpsAt(old, new, t, g, p[1], p[2])]
<1>0. IsTable(old, new, t)
  BY TableIs
<1>1. f = [p \in Grid(old, new) |-> OpsAt(old, new, t, f, p[1], p[2])]
  <2> HIDE DEF t
  <2> QED  BY <1>0, OpsExist
<1>2. LcsOps(old, new) = Entry(f, 0, 0)
  BY DEF LcsOps, Grid, OpsAt, Entry
<1> HIDE DEF t, f
<1>3. ASSUME NEW i \in 0..Len(old), NEW j \in 0..Len(new)
      PROVE  Entry(f, i, j) = OpsAt(old, new, t, f, i, j)
  <2>1. <<i, j>> \in Grid(old, new) /\ <<i, j>>[1] = i /\ <<i, j>>[2] = j
    BY GridHas
  <2>2. f[<<i, j>>] = OpsAt(old, new, t, f, <<i, j>>[1], <<i, j>>[2])
    BY <1>1, <2>1
  <2> QED  BY <2>1, <2>2 DEF Entry
<1> QED  BY <1>2, <1>3 DEF AreOps, t

\* One operation goes from <<i, j>> to <<k, l>>.
Goes(o, old, new, i, j, k, l) ==
  \/ o = Keep(k, l) /\ k = i + 1 /\ l = j + 1 /\ old[k] = new[l]
  \/ o = Delete(k) /\ k = i + 1 /\ l = j
  \/ o = Insert(l) /\ k = i /\ l = j + 1

\* An alignment goes to the end of both texts, by its operations.
IsWalk(ops, old, new, x, y) ==
  /\ ops \in Seq(Operations)
  /\ x \in [0..Len(ops) -> 0..Len(old)] /\ y \in [0..Len(ops) -> 0..Len(new)]
  /\ x[Len(ops)] = Len(old) /\ y[Len(ops)] = Len(new)
  /\ \A k \in 1..Len(ops) : Goes(ops[k], old, new, x[k - 1], y[k - 1], x[k], y[k])

Walks(ops, old, new, i, j) == \E x, y : IsWalk(ops, old, new, x, y) /\ x[0] = i /\ y[0] = j

\* One more operation before an alignment.
LEMMA WalkOn ==
  ASSUME NEW old, NEW new, NEW ops, NEW k, NEW l, Walks(ops, old, new, k, l),
         NEW i \in 0..Len(old), NEW j \in 0..Len(new), NEW o \in Operations,
         Goes(o, old, new, i, j, k, l)
  PROVE  Walks(<<o>> \o ops, old, new, i, j) /\ Len(<<o>> \o ops) = Len(ops) + 1
<1>1. PICK x, y : IsWalk(ops, old, new, x, y) /\ x[0] = k /\ y[0] = l
  BY DEF Walks
<1> DEFINE n == Len(ops)
           more == <<o>> \o ops
           xx == [m \in 0..(n + 1) |-> IF m = 0 THEN i ELSE x[m - 1]]
           yy == [m \in 0..(n + 1) |-> IF m = 0 THEN j ELSE y[m - 1]]
<1>2. /\ ops \in Seq(Operations) /\ n \in Nat
      /\ x \in [0..n -> 0..Len(old)] /\ y \in [0..n -> 0..Len(new)]
      /\ x[n] = Len(old) /\ y[n] = Len(new)
      /\ \A m \in 1..n : Goes(ops[m], old, new, x[m - 1], y[m - 1], x[m], y[m])
  BY <1>1 DEF IsWalk
<1>3. /\ more \in Seq(Operations) /\ Len(more) = n + 1 /\ more[1] = o
      /\ \A m \in 1..n : more[m + 1] = ops[m]
  <2> HIDE DEF n
  <2> QED  BY <1>2, Prepended DEF n
<1>4. \A m \in 0..n : xx[m + 1] = x[m] /\ yy[m + 1] = y[m]
  <2> TAKE m \in 0..n
  <2>1. m + 1 \in 0..(n + 1) /\ m + 1 # 0 /\ (m + 1) - 1 = m
    BY <1>2
  <2> QED  BY <2>1
<1>5. xx[0] = i /\ yy[0] = j
  BY <1>2
<1>6. xx \in [0..(n + 1) -> 0..Len(old)] /\ yy \in [0..(n + 1) -> 0..Len(new)]
  <2>1. ASSUME NEW m \in 0..(n + 1) PROVE m = 0 \/ (m - 1 \in 0..n /\ m # 0)
    BY <1>2
  <2>2. ASSUME NEW m \in 0..(n + 1) PROVE xx[m] \in 0..Len(old) /\ yy[m] \in 0..Len(new)
    BY <1>2, <2>1
  <2> QED  BY <2>2
<1> HIDE DEF n, more, xx, yy
<1>7. ASSUME NEW m \in 1..(n + 1)
      PROVE  Goes(more[m], old, new, xx[m - 1], yy[m - 1], xx[m], yy[m])
  <2>1. CASE m = 1
    <3>1. m - 1 = 0 /\ 0 \in 0..n /\ 0 + 1 = m
      BY <1>2, <2>1
    <3>2. xx[m] = k /\ yy[m] = l /\ xx[m - 1] = i /\ yy[m - 1] = j /\ more[m] = o
      BY <1>1, <1>3, <1>4, <1>5, <2>1, <3>1
    <3> QED  BY <3>2
  <2>2. CASE m # 1
    <3>1. PICK q \in 1..n : m = q + 1
      <4>1. m - 1 \in 1..n /\ m = (m - 1) + 1
        BY <1>2, <2>2
      <4> QED  BY <4>1
    <3>2. q \in 0..n /\ q - 1 \in 0..n /\ m - 1 = q /\ (q - 1) + 1 = q
      BY <1>2, <3>1
    <3>3. /\ more[m] = ops[q] /\ xx[m] = x[q] /\ yy[m] = y[q]
          /\ xx[m - 1] = x[q - 1] /\ yy[m - 1] = y[q - 1]
      <4>1. xx[(q - 1) + 1] = x[q - 1] /\ yy[(q - 1) + 1] = y[q - 1]
        BY <1>4, <3>2
      <4> QED  BY <1>3, <1>4, <3>1, <3>2, <4>1
    <3>4. Goes(ops[q], old, new, x[q - 1], y[q - 1], x[q], y[q])
      BY <1>2
    <3> QED  BY <3>3, <3>4
  <2> QED  BY <2>1, <2>2
<1>8. xx[n + 1] = Len(old) /\ yy[n + 1] = Len(new)
  <2>1. n \in 0..n
    BY <1>2
  <2> QED  BY <1>2, <1>4, <2>1
<1>9. IsWalk(more, old, new, xx, yy)
  BY <1>3, <1>6, <1>7, <1>8 DEF IsWalk
<1>10. Walks(more, old, new, i, j)
  BY <1>5, <1>9 DEF Walks
<1> QED  BY <1>3, <1>10 DEF more, n

WalkUpTo(old, new, t, f, r) ==
  \A i \in 0..Len(old), j \in 0..Len(new) :
    (Len(old) - i) + (Len(new) - j) <= r =>
      /\ Walks(Entry(f, i, j), old, new, i, j)
      /\ Len(Entry(f, i, j)) + Entry(t, i, j) = (Len(old) - i) + (Len(new) - j)

\* The alignment goes on where there is more ahead, and it is as long as it must
\* be for the lines that the table says are kept.
LEMMA WalkGrows ==
  ASSUME NEW old, NEW new, AreTexts(old, new), NEW t, IsTable(old, new, t),
         NEW f, AreOps(old, new, t, f), NEW r \in Nat,
         WalkUpTo(old, new, t, f, r), NEW i \in 0..Len(old), NEW j \in 0..Len(new),
         (Len(old) - i) + (Len(new) - j) <= r + 1,
         ~(i = Len(old) /\ j = Len(new))
  PROVE  /\ Walks(Entry(f, i, j), old, new, i, j)
         /\ Len(Entry(f, i, j)) + Entry(t, i, j) = (Len(old) - i) + (Len(new) - j)
<1>0. Len(old) \in Nat /\ Len(new) \in Nat /\ i \in Nat /\ j \in Nat
  BY TextLengths
<1>1. Entry(f, i, j) = OpsAt(old, new, t, f, i, j) /\ Entry(t, i, j) = TableAt(old, new, t, i, j)
  BY DEF AreOps, IsTable
<1>2. /\ \A k \in 0..Len(old), l \in 0..Len(new) : Entry(t, k, l) \in Nat
  BY TableType
<1>3. Keep(i + 1, j + 1) \in Operations /\ Delete(i + 1) \in Operations /\ Insert(j + 1) \in Operations
  BY <1>0, OperationsAre
<1>4. \A ops, k, l : Walks(ops, old, new, k, l) => Len(ops) \in Nat
  BY DEF Walks, IsWalk
<1>5. CASE i < Len(old) /\ j < Len(new) /\ old[i + 1] = new[j + 1]
  <2> DEFINE rest == Entry(f, i + 1, j + 1)
  <2>1. /\ i + 1 \in 0..Len(old) /\ j + 1 \in 0..Len(new)
        /\ (Len(old) - (i + 1)) + (Len(new) - (j + 1)) <= r
        /\ i # Len(old) /\ j # Len(new)
    <3> DEFINE n == Len(old)
               m == Len(new)
    <3>1. n \in Nat /\ m \in Nat /\ i \in Nat /\ j \in Nat /\ r \in Nat /\ i < n /\ j < m /\ (n - i) + (m - j) <= r + 1
      BY <1>0, <1>5
    <3> HIDE DEF n, m
    <3>2. i + 1 \in 0..n /\ j + 1 \in 0..m /\ (n - (i + 1)) + (m - (j + 1)) <= r /\ i # n /\ j # m
      BY ONLY <3>1
    <3> QED  BY <3>2 DEF n, m
  <2>2. /\ Walks(rest, old, new, i + 1, j + 1)
        /\ Len(rest) + Entry(t, i + 1, j + 1) = (Len(old) - (i + 1)) + (Len(new) - (j + 1))
    BY <2>1 DEF WalkUpTo
  <2> HIDE DEF rest
  <2>3. Entry(f, i, j) = <<Keep(i + 1, j + 1)>> \o rest
    BY <1>1, <1>5, <2>1 DEF OpsAt, rest
  <2>4. Goes(Keep(i + 1, j + 1), old, new, i, j, i + 1, j + 1)
    BY <1>5 DEF Goes
  <2>5. Walks(Entry(f, i, j), old, new, i, j) /\ Len(Entry(f, i, j)) = Len(rest) + 1
    BY <1>3, <2>2, <2>3, <2>4, WalkOn
  <2>6. Entry(t, i, j) = Entry(t, i + 1, j + 1) + 1
    BY <1>1, <1>5, <2>1 DEF TableAt
  <2>7. Len(rest) \in Nat /\ Entry(t, i + 1, j + 1) \in Nat
    BY <1>2, <1>4, <2>1, <2>2
  <2> DEFINE n == Len(old)
             m == Len(new)
             l == Len(rest)
             e == Entry(t, i + 1, j + 1)
  <2>8. n \in Nat /\ m \in Nat /\ i \in Nat /\ j \in Nat /\ l \in Nat /\ e \in Nat
        /\ l + e = (n - (i + 1)) + (m - (j + 1))
    BY <1>0, <2>2, <2>7
  <2> HIDE DEF n, m, l, e
  <2>9. (l + 1) + (e + 1) = (n - i) + (m - j)
    BY ONLY <2>8
  <2> QED  BY <2>5, <2>6, <2>9 DEF n, m, l, e
<1>6. CASE /\ ~(i < Len(old) /\ j < Len(new) /\ old[i + 1] = new[j + 1])
           /\ (j = Len(new) \/ (i < Len(old) /\ Entry(t, i + 1, j) >= Entry(t, i, j + 1)))
  <2> DEFINE rest == Entry(f, i + 1, j)
  <2>1. /\ i + 1 \in 0..Len(old) /\ i < Len(old)
        /\ (Len(old) - (i + 1)) + (Len(new) - j) <= r
        /\ i # Len(old)
    BY <1>0, <1>6
  <2>2. /\ Walks(rest, old, new, i + 1, j)
        /\ Len(rest) + Entry(t, i + 1, j) = (Len(old) - (i + 1)) + (Len(new) - j)
    BY <2>1 DEF WalkUpTo
  <2> HIDE DEF rest
  <2>3. Entry(f, i, j) = <<Delete(i + 1)>> \o rest
    BY <1>1, <1>6, <2>1 DEF OpsAt, rest
  <2>4. Goes(Delete(i + 1), old, new, i, j, i + 1, j)
    BY DEF Goes
  <2>5. Walks(Entry(f, i, j), old, new, i, j) /\ Len(Entry(f, i, j)) = Len(rest) + 1
    BY <1>3, <2>2, <2>3, <2>4, WalkOn
  <2>6. Entry(t, i, j) = Entry(t, i + 1, j)
    <3>1. CASE j = Len(new)
      <4>1. Entry(t, i, j) = 0
        BY <1>1, <3>1 DEF TableAt
      <4>2. Entry(t, i + 1, j) = 0
        BY <2>1, <3>1 DEF IsTable, TableAt
      <4> QED  BY <4>1, <4>2
    <3>2. CASE j # Len(new)
      <4>1. j < Len(new)
        BY <1>0, <3>2
      <4> QED  BY <1>1, <1>6, <2>1, <3>2, <4>1 DEF TableAt
    <3> QED  BY <3>1, <3>2
  <2>7. Len(rest) \in Nat /\ Entry(t, i + 1, j) \in Nat
    BY <1>2, <1>4, <2>1, <2>2
  <2> QED  BY <1>0, <2>2, <2>5, <2>6, <2>7
<1>7. CASE /\ ~(i < Len(old) /\ j < Len(new) /\ old[i + 1] = new[j + 1])
           /\ ~(j = Len(new) \/ (i < Len(old) /\ Entry(t, i + 1, j) >= Entry(t, i, j + 1)))
  <2> DEFINE rest == Entry(f, i, j + 1)
  <2>1. /\ j + 1 \in 0..Len(new) /\ j < Len(new)
        /\ (Len(old) - i) + (Len(new) - (j + 1)) <= r
        /\ j # Len(new)
    BY <1>0, <1>7
  <2>2. /\ Walks(rest, old, new, i, j + 1)
        /\ Len(rest) + Entry(t, i, j + 1) = (Len(old) - i) + (Len(new) - (j + 1))
    BY <2>1 DEF WalkUpTo
  <2> HIDE DEF rest
  <2>3. Entry(f, i, j) = <<Insert(j + 1)>> \o rest
    BY <1>1, <1>7, <2>1 DEF OpsAt, rest
  <2>4. Goes(Insert(j + 1), old, new, i, j, i, j + 1)
    BY DEF Goes
  <2>5. Walks(Entry(f, i, j), old, new, i, j) /\ Len(Entry(f, i, j)) = Len(rest) + 1
    BY <1>3, <2>2, <2>3, <2>4, WalkOn
  <2>6. Entry(t, i, j) = Entry(t, i, j + 1)
    <3>1. CASE i = Len(old)
      <4>1. Entry(t, i, j) = 0
        BY <1>1, <3>1 DEF TableAt
      <4>2. Entry(t, i, j + 1) = 0
        BY <2>1, <3>1 DEF IsTable, TableAt
      <4> QED  BY <4>1, <4>2
    <3>2. CASE i # Len(old)
      <4>1. i < Len(old)
        BY <1>0, <3>2
      <4> QED  BY <1>1, <1>7, <2>1, <3>2, <4>1 DEF TableAt
    <3> QED  BY <3>1, <3>2
  <2>7. Len(rest) \in Nat /\ Entry(t, i, j + 1) \in Nat
    BY <1>2, <1>4, <2>1, <2>2
  <2> QED  BY <1>0, <2>2, <2>5, <2>6, <2>7
<1> QED  BY <1>5, <1>6, <1>7

\* The end of both texts.
LEMMA WalkEnds ==
  ASSUME NEW old, NEW new, AreTexts(old, new)
  PROVE  Walks(<<>>, old, new, Len(old), Len(new))
<1> DEFINE x == [k \in 0..0 |-> Len(old)]
           y == [k \in 0..0 |-> Len(new)]
           none == <<>>
<1>0. Len(old) \in Nat /\ Len(new) \in Nat
  BY TextLengths
<1>1. none \in Seq(Operations) /\ Len(none) = 0
  OBVIOUS
<1>2. x \in [0..0 -> 0..Len(old)] /\ y \in [0..0 -> 0..Len(new)] /\ x[0] = Len(old) /\ y[0] = Len(new)
  BY <1>0
<1> HIDE DEF x, y, none
<1>3. IsWalk(none, old, new, x, y)
  BY <1>1, <1>2 DEF IsWalk
<1> QED  BY <1>2, <1>3 DEF Walks, none

\* lcs_ops aligns the texts, and keeps as many lines as the table says.
LEMMA LcsOpsWalk ==
  ASSUME NEW old, NEW new, AreTexts(old, new)
  PROVE  /\ Walks(LcsOps(old, new), old, new, 0, 0)
         /\ Len(LcsOps(old, new)) + Entry(LcsTable(old, new), 0, 0) = Len(old) + Len(new)
<1> DEFINE t == LcsTable(old, new)
<1>0. Len(old) \in Nat /\ Len(new) \in Nat /\ IsTable(old, new, t)
  BY TextLengths, TableIs
<1> HIDE DEF t
<1>1. PICK f : AreOps(old, new, t, f) /\ LcsOps(old, new) = Entry(f, 0, 0)
  BY OpsAre DEF t
<1>2. Walks(Entry(f, Len(old), Len(new)), old, new, Len(old), Len(new))
      /\ Len(Entry(f, Len(old), Len(new))) + Entry(t, Len(old), Len(new)) = 0
  <2>1. Len(old) \in 0..Len(old) /\ Len(new) \in 0..Len(new)
    BY <1>0
  <2>2. Entry(f, Len(old), Len(new)) = <<>>
    BY <1>1, <2>1 DEF AreOps, OpsAt
  <2>3. Entry(t, Len(old), Len(new)) = 0
    BY <1>0, <2>1 DEF IsTable, TableAt
  <2>4. Len(<<>>) = 0
    OBVIOUS
  <2> QED  BY <2>2, <2>3, <2>4, WalkEnds
<1> DEFINE S == {r \in Nat : WalkUpTo(old, new, t, f, r)}
<1>3. 0 \in S
  <2>1. ASSUME NEW i \in 0..Len(old), NEW j \in 0..Len(new), (Len(old) - i) + (Len(new) - j) <= 0
        PROVE  /\ Walks(Entry(f, i, j), old, new, i, j)
               /\ Len(Entry(f, i, j)) + Entry(t, i, j) = (Len(old) - i) + (Len(new) - j)
    <3>1. i = Len(old) /\ j = Len(new) /\ (Len(old) - i) + (Len(new) - j) = 0
      BY <1>0, <2>1
    <3> QED  BY <1>2, <3>1
  <2> QED  BY <2>1 DEF WalkUpTo
<1>4. \A r \in Nat : r \in S => r + 1 \in S
  <2>1. ASSUME NEW r \in Nat, WalkUpTo(old, new, t, f, r) PROVE WalkUpTo(old, new, t, f, r + 1)
    <3> SUFFICES ASSUME NEW i \in 0..Len(old), NEW j \in 0..Len(new), (Len(old) - i) + (Len(new) - j) <= r + 1
          PROVE  /\ Walks(Entry(f, i, j), old, new, i, j)
                 /\ Len(Entry(f, i, j)) + Entry(t, i, j) = (Len(old) - i) + (Len(new) - j)
      BY DEF WalkUpTo
    <3>1. CASE i = Len(old) /\ j = Len(new)
      <4>1. (Len(old) - i) + (Len(new) - j) = 0
        BY <1>0, <3>1
      <4> QED  BY <1>2, <3>1, <4>1
    <3>2. CASE ~(i = Len(old) /\ j = Len(new))
      BY <1>0, <1>1, <2>1, <3>2, WalkGrows
    <3> QED  BY <3>1, <3>2
  <2> QED  BY <2>1
<1> HIDE DEF S
<1>5. Len(old) + Len(new) \in S
  <2>1. Len(old) + Len(new) \in Nat
    BY <1>0
  <2> QED  BY <1>3, <1>4, <2>1, Induction
<1>6. 0 \in 0..Len(old) /\ 0 \in 0..Len(new) /\ (Len(old) - 0) + (Len(new) - 0) = Len(old) + Len(new)
      /\ Len(old) + Len(new) <= Len(old) + Len(new)
  BY <1>0
<1>7. /\ Walks(Entry(f, 0, 0), old, new, 0, 0)
      /\ Len(Entry(f, 0, 0)) + Entry(t, 0, 0) = Len(old) + Len(new)
  BY <1>5, <1>6 DEF S, WalkUpTo
<1> QED  BY <1>1, <1>7 DEF t

\* coarse_ops aligns texts too: it takes away the one and adds the other.
LEMMA CoarseOpsWalk ==
  ASSUME NEW old, NEW new, AreTexts(old, new)
  PROVE  Walks(CoarseOps(Len(old), Len(new)), old, new, 0, 0)
<1> DEFINE n == Len(old)
           m == Len(new)
           ops == CoarseOps(n, m)
           x == [k \in 0..(n + m) |-> IF k <= n THEN k ELSE n]
           y == [k \in 0..(n + m) |-> IF k <= n THEN 0 ELSE k - n]
<1>0. n \in Nat /\ m \in Nat
  BY TextLengths
<1> HIDE DEF n, m
<1>1. ASSUME NEW k \in 1..(n + m) PROVE ops[k] = (IF k <= n THEN Delete(k) ELSE Insert(k - n)) /\ ops[k] \in Operations
  <2>1. ops[k] = IF k <= n THEN Delete(k) ELSE Insert(k - n)
    BY DEF CoarseOps
  <2> HIDE DEF ops
  <2>2. k \in Nat /\ (~(k <= n) => k - n \in Nat)
    BY <1>0
  <2> QED  BY <2>1, <2>2, OperationsAre
<1>2. ops \in Seq(Operations) /\ Len(ops) = n + m
  <2>1. ops = [k \in 1..(n + m) |-> ops[k]]
    BY DEF CoarseOps
  <2> HIDE DEF ops
  <2>2. ops \in [1..(n + m) -> Operations] /\ n + m \in Nat
    BY <1>0, <1>1, <2>1
  <2> QED  BY <2>2
<1>3. /\ \A k \in 0..(n + m) : x[k] = IF k <= n THEN k ELSE n
      /\ \A k \in 0..(n + m) : y[k] = IF k <= n THEN 0 ELSE k - n
      /\ x \in [0..(n + m) -> 0..n] /\ y \in [0..(n + m) -> 0..m]
  BY <1>0
<1> HIDE DEF ops, x, y
<1>4. x[0] = 0 /\ y[0] = 0 /\ x[n + m] = n /\ y[n + m] = m
  <2>1. 0 \in 0..(n + m) /\ n + m \in 0..(n + m) /\ 0 <= n /\ (n + m <= n => n + m = n /\ m = 0) /\ (n + m) - n = m
    BY <1>0
  <2> QED  BY <1>0, <1>3, <2>1
<1>5. ASSUME NEW k \in 1..(n + m) PROVE Goes(ops[k], old, new, x[k - 1], y[k - 1], x[k], y[k])
  <2>1. k - 1 \in 0..(n + m) /\ k \in 0..(n + m) /\ k = (k - 1) + 1 /\ k \in Nat
    BY <1>0
  <2>2. CASE k <= n
    <3>1. x[k] = k /\ y[k] = 0 /\ x[k - 1] = k - 1 /\ y[k - 1] = 0 /\ ops[k] = Delete(k)
      BY <1>0, <1>1, <1>3, <2>1, <2>2
    <3> QED  BY <2>1, <3>1 DEF Goes
  <2>3. CASE ~(k <= n)
    <3>1. x[k] = n /\ y[k] = k - n /\ ops[k] = Insert(k - n)
      BY <1>0, <1>1, <1>3, <2>1, <2>3
    <3>2. x[k - 1] = n /\ y[k - 1] = (k - n) - 1
      <4>1. CASE k - 1 <= n
        <5>1. k - 1 = n /\ (k - n) - 1 = 0
          BY <1>0, <2>1, <2>3, <4>1
        <5> QED  BY <1>3, <2>1, <4>1, <5>1
      <4>2. CASE ~(k - 1 <= n)
        <5>1. (k - 1) - n = (k - n) - 1
          BY <1>0, <2>1
        <5> QED  BY <1>3, <2>1, <4>2, <5>1
      <4> QED  BY <4>1, <4>2
    <3>3. k - n = ((k - n) - 1) + 1
      BY <1>0, <2>1
    <3> QED  BY <3>1, <3>2, <3>3 DEF Goes
  <2> QED  BY <2>2, <2>3
<1>6. IsWalk(ops, old, new, x, y)
  BY <1>2, <1>3, <1>4, <1>5 DEF IsWalk, n, m
<1> QED  BY <1>4, <1>6 DEF Walks, ops, n, m

IsTally(s, Q, a, b) ==
  /\ s \in [(a - 1)..b -> Int]
  /\ \A k \in a..b : s[k] = s[k - 1] + (IF k \in Q THEN 1 ELSE 0)

\* The members of a set in an interval are counted one after the other.
LEMMA Counted ==
  ASSUME NEW a \in Nat, a >= 1, NEW b \in Nat, b >= a - 1, NEW Q, NEW s, IsTally(s, Q, a, b)
  PROVE  Cardinality({k \in a..b : k \in Q}) + s[a - 1] = s[b]
<1>0. s \in [(a - 1)..b -> Int] /\ \A k \in a..b : s[k] = s[k - 1] + (IF k \in Q THEN 1 ELSE 0)
  BY DEF IsTally
<1> DEFINE Part(e) == {k \in a..e : k \in Q}
           T == {d \in Nat : (a - 1) + d <= b =>
                   IsFiniteSet(Part((a - 1) + d)) /\ Cardinality(Part((a - 1) + d)) + s[a - 1] = s[(a - 1) + d]}
<1>1. 0 \in T
  <2>1. (a - 1) + 0 = a - 1 /\ a..(a - 1) = {}
    OBVIOUS
  <2>2. Part((a - 1) + 0) = {}
    BY <2>1
  <2>3. IsFiniteSet({}) /\ Cardinality({}) = 0
    BY FS_EmptySet
  <2>4. s[a - 1] \in Int
    <3>1. a - 1 \in (a - 1)..b
      OBVIOUS
    <3> QED  BY <1>0, <3>1
  <2> HIDE DEF Part
  <2>5. s[(a - 1) + 0] = s[a - 1]
    BY <2>1
  <2>6. IsFiniteSet(Part((a - 1) + 0)) /\ Cardinality(Part((a - 1) + 0)) + s[a - 1] = s[(a - 1) + 0]
    BY <2>2, <2>3, <2>4, <2>5
  <2> QED  BY <2>6
<1>2. ASSUME NEW d \in Nat, d \in T, (a - 1) + (d + 1) <= b
      PROVE  /\ IsFiniteSet(Part((a - 1) + (d + 1)))
             /\ Cardinality(Part((a - 1) + (d + 1))) + s[a - 1] = s[(a - 1) + (d + 1)]
  <2> DEFINE e == (a - 1) + d
             f == (a - 1) + (d + 1)
  <2>1. e \in Nat /\ f = e + 1 /\ e >= a - 1 /\ f \in a..b /\ f - 1 = e /\ f \in Nat /\ e <= b
    BY <1>2
  <2>2. IsFiniteSet(Part(e)) /\ Cardinality(Part(e)) + s[a - 1] = s[e]
    BY <1>2, <2>1
  <2>3. s[e] \in Int /\ s[a - 1] \in Int /\ s[f] = s[e] + (IF f \in Q THEN 1 ELSE 0)
    <3> HIDE DEF e, f
    <3>1. e \in (a - 1)..b /\ a - 1 \in (a - 1)..b /\ f \in (a - 1)..b /\ f \in a..b /\ f - 1 = e
      BY <2>1
    <3>2. s[f] = s[f - 1] + (IF f \in Q THEN 1 ELSE 0)
      BY <1>0, <3>1
    <3> QED  BY <1>0, <3>1, <3>2
  <2>4. a..f = (a..e) \cup {f} /\ f \notin a..e
    <3> HIDE DEF e, f
    <3> QED  BY <2>1
  <2> HIDE DEF e, f
  <2>5. Cardinality(Part(e)) \in Nat
    BY <2>2, FS_CardinalityType
  <2>6. CASE f \in Q
    <3>1. Part(f) = Part(e) \cup {f} /\ f \notin Part(e)
      BY <2>4, <2>6
    <3> HIDE DEF Part
    <3>2. IsFiniteSet(Part(f)) /\ Cardinality(Part(f)) = Cardinality(Part(e)) + 1
      BY <2>2, <3>1, FS_AddElement
    <3>3. Cardinality(Part(f)) + s[a - 1] = s[f]
      BY <2>2, <2>3, <2>5, <2>6, <3>2
    <3> QED  BY <3>2, <3>3 DEF f
  <2>7. CASE f \notin Q
    <3>1. Part(f) = Part(e)
      BY <2>4, <2>7
    <3> HIDE DEF Part
    <3>2. Cardinality(Part(f)) + s[a - 1] = s[f]
      BY <2>2, <2>3, <2>5, <2>7, <3>1
    <3> QED  BY <2>2, <3>1, <3>2 DEF f
  <2> QED  BY <2>6, <2>7
<1> HIDE DEF Part
<1>3. \A d \in Nat : d \in T => d + 1 \in T
  BY <1>2
<1> HIDE DEF T
<1>4. b - (a - 1) \in Nat /\ (a - 1) + (b - (a - 1)) = b
  OBVIOUS
<1>5. b - (a - 1) \in T
  BY <1>1, <1>3, <1>4, Induction
<1>6. Cardinality(Part(b)) + s[a - 1] = s[b]
  BY <1>4, <1>5 DEF T
<1> QED  BY <1>6 DEF Part

\* What an operation of an alignment does, by its mark.
LEMMA GoesBy ==
  ASSUME NEW o, NEW old, NEW new, NEW i, NEW j, NEW k, NEW l, Goes(o, old, new, i, j, k, l)
  PROVE  /\ o.op \in {"keep", "delete", "insert"}
         /\ o.op = "keep" => k = i + 1 /\ l = j + 1 /\ o.old = k /\ o.new = l /\ old[k] = new[l]
         /\ o.op = "delete" => k = i + 1 /\ l = j /\ o.old = k
         /\ o.op = "insert" => k = i /\ l = j + 1 /\ o.new = l
<1>1. CASE o = Keep(k, l) /\ k = i + 1 /\ l = j + 1 /\ old[k] = new[l]
  BY <1>1 DEF Keep
<1>2. CASE o = Delete(k) /\ k = i + 1 /\ l = j
  BY <1>2 DEF Delete
<1>3. CASE o = Insert(l) /\ k = i /\ l = j + 1
  BY <1>3 DEF Insert
<1> QED  BY <1>1, <1>2, <1>3 DEF Goes

Changes(ops, from, to) == Cardinality({i \in from..to : ops[i].op # "keep"})

\* The lines of either side, and the changes, in a part of an alignment.
LEMMA Counts ==
  ASSUME NEW old, NEW new, AreTexts(old, new), NEW ops, NEW x, NEW y, IsWalk(ops, old, new, x, y),
         NEW a \in Nat, a >= 1, NEW b \in 0..Len(ops), b >= a - 1
  PROVE  /\ Count(ops, "delete", a, b) + x[a - 1] = x[b]
         /\ Count(ops, "insert", a, b) + y[a - 1] = y[b]
         /\ Changes(ops, a, b) + ((2 * (a - 1) - x[a - 1]) - y[a - 1]) = (2 * b - x[b]) - y[b]
<1>0. /\ Len(old) \in Nat /\ Len(new) \in Nat /\ Len(ops) \in Nat /\ b \in Nat
      /\ x \in [0..Len(ops) -> 0..Len(old)] /\ y \in [0..Len(ops) -> 0..Len(new)]
  BY TextLengths DEF IsWalk
<1>14. \A k \in 0..Len(ops) : x[k] \in Nat /\ y[k] \in Nat
  BY <1>0, Places
<1> DEFINE u == [k \in (a - 1)..b |-> x[k]]
           v == [k \in (a - 1)..b |-> y[k]]
           w == [k \in (a - 1)..b |-> (2 * k - x[k]) - y[k]]
           Q == {k \in 1..Len(ops) : ops[k].op \in {"keep", "delete"}}
           R == {k \in 1..Len(ops) : ops[k].op \in {"keep", "insert"}}
           C == {k \in 1..Len(ops) : ops[k].op # "keep"}
<1>1. \A k \in (a - 1)..b : k \in 0..Len(ops)
  BY <1>0
<1>2. /\ u \in [(a - 1)..b -> Int] /\ v \in [(a - 1)..b -> Int] /\ w \in [(a - 1)..b -> Int]
  <2>1. \A k \in (a - 1)..b : x[k] \in Nat /\ y[k] \in Nat /\ k \in Nat
    BY <1>0, <1>1
  <2> QED  BY <2>1
<1>3. ASSUME NEW k \in a..b
      PROVE  /\ k \in 1..Len(ops) /\ k - 1 \in (a - 1)..b /\ k \in (a - 1)..b
             /\ k \in Q <=> ops[k].op \in {"keep", "delete"}
             /\ k \in R <=> ops[k].op \in {"keep", "insert"}
             /\ k \in C <=> ops[k].op # "keep"
             /\ x[k] = x[k - 1] + (IF ops[k].op \in {"keep", "delete"} THEN 1 ELSE 0)
             /\ y[k] = y[k - 1] + (IF ops[k].op \in {"keep", "insert"} THEN 1 ELSE 0)
             /\ w[k] = w[k - 1] + (IF ops[k].op # "keep" THEN 1 ELSE 0)
             /\ u[k] = x[k] /\ u[k - 1] = x[k - 1] /\ v[k] = y[k] /\ v[k - 1] = y[k - 1]
  <2>1. k \in 1..Len(ops) /\ k - 1 \in (a - 1)..b /\ k \in (a - 1)..b /\ k - 1 \in 0..Len(ops) /\ k \in 0..Len(ops)
    BY <1>0
  <2>2. Goes(ops[k], old, new, x[k - 1], y[k - 1], x[k], y[k])
    BY <2>1 DEF IsWalk
  <2>3. x[k] \in Nat /\ y[k] \in Nat /\ x[k - 1] \in Nat /\ y[k - 1] \in Nat
    BY <1>14, <2>1
  <2>4. /\ u[k] = x[k] /\ u[k - 1] = x[k - 1] /\ v[k] = y[k] /\ v[k - 1] = y[k - 1]
        /\ w[k] = (2 * k - x[k]) - y[k] /\ w[k - 1] = (2 * (k - 1) - x[k - 1]) - y[k - 1]
    BY <2>1
  <2>5. /\ k \in Q <=> ops[k].op \in {"keep", "delete"}
        /\ k \in R <=> ops[k].op \in {"keep", "insert"}
        /\ k \in C <=> ops[k].op # "keep"
    BY <2>1
  <2> HIDE DEF u, v, w, Q, R, C
  <2>6. ops[k].op \in {"keep", "delete", "insert"}
    BY <2>2, GoesBy
  <2>7. CASE ops[k].op = "keep"
    <3>1. x[k] = x[k - 1] + 1 /\ y[k] = y[k - 1] + 1
      BY <2>2, <2>7, GoesBy
    <3>2. w[k] = w[k - 1] + 0
      <4>1. k \in Nat
        BY <2>1
      <4> DEFINE p == x[k - 1]
                 q == y[k - 1]
      <4>2. p \in Nat /\ q \in Nat /\ x[k] = p + 1 /\ y[k] = q + 1
        BY <2>3, <3>1
      <4>3. w[k] = (2 * k - x[k]) - y[k] /\ w[k - 1] = (2 * (k - 1) - p) - q
        BY <2>4
      <4> HIDE DEF p, q
      <4>4. (2 * k - (p + 1)) - (q + 1) = (2 * (k - 1) - p) - q /\ (2 * (k - 1) - p) - q \in Int
        BY <4>1, <4>2
      <4>5. w[k] = w[k - 1] /\ w[k - 1] \in Int
        BY <4>2, <4>3, <4>4
      <4> QED  BY <4>5
    <3> QED  BY <2>1, <2>4, <2>5, <2>7, <3>1, <3>2
  <2>8. CASE ops[k].op = "delete"
    <3>1. x[k] = x[k - 1] + 1 /\ y[k] = y[k - 1]
      BY <2>2, <2>8, GoesBy
    <3>2. w[k] = w[k - 1] + 1 /\ y[k] = y[k - 1] + 0
      <4> DEFINE p == x[k - 1]
                 q == y[k - 1]
      <4>1. k \in Nat /\ p \in Nat /\ q \in Nat
        BY <1>0, <2>1, <2>3
      <4>2. x[k] = p + 1 /\ y[k] = q
        BY <3>1
      <4>3. w[k] = (2 * k - x[k]) - y[k] /\ w[k - 1] = (2 * (k - 1) - p) - q
        BY <2>4
      <4> HIDE DEF p, q
      <4>4. (2 * k - (p + 1)) - q = ((2 * (k - 1) - p) - q) + 1
        BY ONLY <4>1
      <4>5. q + 0 = q
        BY ONLY <4>1
      <4>6. w[k] = w[k - 1] + 1
        BY <4>2, <4>3, <4>4
      <4> QED  BY <4>2, <4>5, <4>6 DEF p, q
    <3> QED  BY <2>1, <2>4, <2>5, <2>8, <3>1, <3>2
  <2>9. CASE ops[k].op = "insert"
    <3>1. x[k] = x[k - 1] /\ y[k] = y[k - 1] + 1
      BY <2>2, <2>9, GoesBy
    <3>2. w[k] = w[k - 1] + 1 /\ x[k] = x[k - 1] + 0
      <4> DEFINE p == x[k - 1]
                 q == y[k - 1]
      <4>1. k \in Nat /\ p \in Nat /\ q \in Nat
        BY <1>0, <2>1, <2>3
      <4>2. x[k] = p /\ y[k] = q + 1
        BY <3>1
      <4>3. w[k] = (2 * k - x[k]) - y[k] /\ w[k - 1] = (2 * (k - 1) - p) - q
        BY <2>4
      <4> HIDE DEF p, q
      <4>4. (2 * k - p) - (q + 1) = ((2 * (k - 1) - p) - q) + 1
        BY ONLY <4>1
      <4>5. p + 0 = p
        BY ONLY <4>1
      <4>6. w[k] = w[k - 1] + 1
        BY <4>2, <4>3, <4>4
      <4> QED  BY <4>2, <4>5, <4>6 DEF p, q
    <3> QED  BY <2>1, <2>4, <2>5, <2>9, <3>1, <3>2
  <2> QED  BY <2>6, <2>7, <2>8, <2>9
<1>4. a - 1 \in (a - 1)..b /\ b \in (a - 1)..b
  BY <1>0
<1>5. /\ u[a - 1] = x[a - 1] /\ u[b] = x[b] /\ v[a - 1] = y[a - 1] /\ v[b] = y[b]
      /\ w[a - 1] = (2 * (a - 1) - x[a - 1]) - y[a - 1] /\ w[b] = (2 * b - x[b]) - y[b]
  BY <1>4
<1>6. /\ {k \in a..b : k \in Q} = {k \in a..b : ops[k].op \in {"keep", "delete"}}
      /\ {k \in a..b : k \in R} = {k \in a..b : ops[k].op \in {"keep", "insert"}}
      /\ {k \in a..b : k \in C} = {k \in a..b : ops[k].op # "keep"}
  BY <1>3
<1> HIDE DEF u, v, w, Q, R, C
<1>7. IsTally(u, Q, a, b) /\ IsTally(v, R, a, b) /\ IsTally(w, C, a, b)
  <2>1. \A k \in a..b : u[k] = u[k - 1] + (IF k \in Q THEN 1 ELSE 0)
    BY <1>3
  <2>2. \A k \in a..b : v[k] = v[k - 1] + (IF k \in R THEN 1 ELSE 0)
    BY <1>3
  <2>3. \A k \in a..b : w[k] = w[k - 1] + (IF k \in C THEN 1 ELSE 0)
    BY <1>3
  <2> QED  BY <1>2, <2>1, <2>2, <2>3 DEF IsTally
<1>15. a \in Nat /\ a >= 1 /\ b \in Nat /\ b >= a - 1
  BY <1>0
<1>8. Cardinality({k \in a..b : k \in Q}) + u[a - 1] = u[b]
  BY ONLY <1>15, <1>7, Counted
<1>9. Cardinality({k \in a..b : k \in R}) + v[a - 1] = v[b]
  BY ONLY <1>15, <1>7, Counted
<1>10. Cardinality({k \in a..b : k \in C}) + w[a - 1] = w[b]
  BY ONLY <1>15, <1>7, Counted
<1>11. Count(ops, "delete", a, b) = Cardinality({k \in a..b : k \in Q})
  BY <1>6 DEF Count
<1>12. Count(ops, "insert", a, b) = Cardinality({k \in a..b : k \in R})
  BY <1>6 DEF Count
<1>13. Changes(ops, a, b) = Cardinality({k \in a..b : k \in C})
  BY <1>6 DEF Changes
<1> QED  BY <1>5, <1>8, <1>9, <1>10, <1>11, <1>12, <1>13

LineOf(old, new, o) == <<o.op, IF o.op = "insert" THEN new[o.new] ELSE old[o.old]>>
TextOf(old, new, h) == [h EXCEPT !.ops = [k \in 1..Len(h.ops) |-> LineOf(old, new, h.ops[k])]]

\* The header of a hunk says where it is on either side, and its lines are those
\* of its operations.
LEMMA HunkFacts ==
  ASSUME NEW old, NEW new, AreTexts(old, new), NEW ops, NEW x, NEW y, IsWalk(ops, old, new, x, y),
         NEW a \in 1..Len(ops), NEW b \in a..Len(ops), NEW h, h = TextOf(old, new, Hunk(ops, a, b)),
         x[0] = 0, y[0] = 0
  PROVE  /\ h.oldCount = x[b] - x[a - 1] /\ h.newCount = y[b] - y[a - 1]
         /\ h.oldAt = x[a - 1] + (IF h.oldCount = 0 THEN 0 ELSE 1)
         /\ h.newAt = y[a - 1] + (IF h.newCount = 0 THEN 0 ELSE 1)
         /\ Len(h.ops) = (b - a) + 1
         /\ \A k \in 1..Len(h.ops) : h.ops[k] = LineOf(old, new, ops[(a - 1) + k])
<1> DEFINE g == Hunk(ops, a, b)
           part == SubSeq(ops, a, b)
<1>0. /\ Len(ops) \in Nat /\ a \in Nat /\ b \in Nat /\ ops \in Seq(Operations)
      /\ x[a - 1] \in Nat /\ y[a - 1] \in Nat /\ x[b] \in Nat /\ y[b] \in Nat
  <2>1. /\ Len(old) \in Nat /\ Len(new) \in Nat /\ Len(ops) \in Nat
        /\ x \in [0..Len(ops) -> 0..Len(old)] /\ y \in [0..Len(ops) -> 0..Len(new)]
    BY TextLengths DEF IsWalk
  <2>2. \A k \in 0..Len(ops) : x[k] \in Nat /\ y[k] \in Nat
    BY <2>1
  <2>3. a - 1 \in 0..Len(ops) /\ b \in 0..Len(ops) /\ a \in Nat /\ b \in Nat
    BY <2>1
  <2> QED  BY <2>1, <2>2, <2>3 DEF IsWalk
<1>1. /\ Count(ops, "delete", a, b) + x[a - 1] = x[b]
      /\ Count(ops, "insert", a, b) + y[a - 1] = y[b]
  <2>1. a >= 1 /\ b \in 0..Len(ops) /\ b >= a - 1
    BY <1>0
  <2> QED  BY <1>0, <2>1, Counts
<1>2. /\ Count(ops, "delete", 1, a - 1) + x[0] = x[a - 1]
      /\ Count(ops, "insert", 1, a - 1) + y[0] = y[a - 1]
  <2>1. 1 \in Nat /\ 1 >= 1 /\ a - 1 \in 0..Len(ops) /\ a - 1 >= 1 - 1 /\ 1 - 1 = 0
    BY <1>0
  <2> DEFINE one == 1
             c == a - 1
  <2>2. one \in Nat /\ one >= 1 /\ c \in 0..Len(ops) /\ c >= one - 1 /\ one - 1 = 0
    BY <2>1
  <2> HIDE DEF one, c
  <2>3. /\ Count(ops, "delete", one, c) + x[one - 1] = x[c]
        /\ Count(ops, "insert", one, c) + y[one - 1] = y[c]
    BY <2>2, Counts
  <2>4. /\ Count(ops, "delete", one, c) + x[0] = x[c]
        /\ Count(ops, "insert", one, c) + y[0] = y[c]
    BY <2>2, <2>3
  <2> QED  BY <2>4 DEF one, c
<1>3. part \in Seq(Operations) /\ Len(part) = (b - a) + 1 /\ \A k \in 1..((b - a) + 1) : part[k] = ops[(a - 1) + k]
  <2>1. \A k \in a..b : ops[k] \in Operations
    BY <1>0, ElementOfSeq
  <2>2. a \in Int /\ b \in Int /\ a <= b
    BY <1>0
  <2>3. /\ SubSeq(ops, a, b) \in Seq(Operations)
        /\ Len(SubSeq(ops, a, b)) = IF a <= b THEN b - a + 1 ELSE 0
        /\ \A k \in 1..(b - a + 1) : SubSeq(ops, a, b)[k] = ops[a + k - 1]
    BY <2>1, <2>2, SubSeqProperties
  <2>4. \A k \in 1..((b - a) + 1) : a + k - 1 = (a - 1) + k
    BY <1>0
  <2> QED  BY <2>2, <2>3, <2>4
<1>4. /\ g.oldCount = Count(ops, "delete", a, b) /\ g.newCount = Count(ops, "insert", a, b)
      /\ g.oldAt = Count(ops, "delete", 1, a - 1) + (IF Count(ops, "delete", a, b) = 0 THEN 0 ELSE 1)
      /\ g.newAt = Count(ops, "insert", 1, a - 1) + (IF Count(ops, "insert", a, b) = 0 THEN 0 ELSE 1)
      /\ g.ops = part
      /\ DOMAIN g = {"oldAt", "oldCount", "newAt", "newCount", "ops"}
  BY DEF Hunk
<1> HIDE DEF g, part
<1>5. /\ h.oldCount = g.oldCount /\ h.newCount = g.newCount /\ h.oldAt = g.oldAt /\ h.newAt = g.newAt
      /\ h.ops = [k \in 1..Len(g.ops) |-> LineOf(old, new, g.ops[k])]
  <2>1. h = TextOf(old, new, g)
    BY DEF g
  <2> QED  BY <1>4, <2>1 DEF TextOf
<1>6. /\ Count(ops, "delete", a, b) = x[b] - x[a - 1] /\ Count(ops, "delete", 1, a - 1) = x[a - 1]
      /\ Count(ops, "insert", a, b) = y[b] - y[a - 1] /\ Count(ops, "insert", 1, a - 1) = y[a - 1]
  <2>1. \A side, from, to : Count(ops, side, from, to) = Cardinality({i \in from..to : ops[i].op \in {"keep", side}})
    BY DEF Count
  <2>2. \A side : /\ Count(ops, side, a, b) \in Nat
                  /\ Count(ops, side, 1, a - 1) \in Nat
    <3> TAKE side
    <3>1. IsFiniteSet(a..b) /\ IsFiniteSet(1..(a - 1))
      BY <1>0, FS_Interval
    <3>2. IsFiniteSet({i \in a..b : ops[i].op \in {"keep", side}})
          /\ IsFiniteSet({i \in 1..(a - 1) : ops[i].op \in {"keep", side}})
      BY <3>1, FS_Subset
    <3> QED  BY <2>1, <3>2, FS_CardinalityType
  <2> QED  BY <1>0, <1>1, <1>2, <2>2
<1>7. Len(h.ops) = (b - a) + 1 /\ \A k \in 1..((b - a) + 1) : h.ops[k] = LineOf(old, new, ops[(a - 1) + k])
  <2>1. h.ops = [k \in 1..((b - a) + 1) |-> LineOf(old, new, part[k])] /\ (b - a) + 1 \in Nat
    BY <1>0, <1>3, <1>4, <1>5
  <2>2. Len(h.ops) = (b - a) + 1
    BY <2>1
  <2> QED  BY <1>3, <2>1, <2>2
<1> QED  BY <1>4, <1>5, <1>6, <1>7

\* What a hunk says with a sign, when it is known line for line.
SaysTo(h, sign, s) ==
  /\ s = [k \in 0..Len(h.ops) |-> s[k]]
  /\ s[0] = <<>>
  /\ \A k \in 1..Len(h.ops) :
       s[k] = IF h.ops[k][1] \in {"keep", sign} THEN Append(s[k - 1], h.ops[k][2]) ELSE s[k - 1]

\* What a hunk says with a sign, when it is known line for line.
LEMMA SaidIs ==
  ASSUME NEW h, Len(h.ops) \in Nat, NEW sign, NEW s, SaysTo(h, sign, s)
  PROVE  Said(h, sign) = s[Len(h.ops)]
<1> DEFINE n == Len(h.ops)
           IsFrom(f) == f = [k \in 0..n |-> IF k = 0 THEN <<>>
                               ELSE IF h.ops[k][1] \in {"keep", sign} THEN Append(f[k - 1], h.ops[k][2]) ELSE f[k - 1]]
           from == CHOOSE f : IsFrom(f)
<1>1. IsFrom(s)
  <2>1. \A k \in 0..n : s[k] = IF k = 0 THEN <<>>
                               ELSE IF h.ops[k][1] \in {"keep", sign} THEN Append(s[k - 1], h.ops[k][2]) ELSE s[k - 1]
    <3> TAKE k \in 0..n
    <3>1. k = 0 \/ k \in 1..n
      OBVIOUS
    <3> QED  BY <3>1 DEF SaysTo
  <2> QED  BY <2>1 DEF SaysTo
<1>2. IsFrom(from)
  <2> HIDE DEF IsFrom
  <2> QED  BY <1>1
<1>3. Said(h, sign) = from[n]
  BY DEF Said
<1> HIDE DEF from
<1>4. /\ from[0] = <<>>
      /\ \A k \in 1..n : from[k] = IF h.ops[k][1] \in {"keep", sign} THEN Append(from[k - 1], h.ops[k][2]) ELSE from[k - 1]
  <2>1. 0 \in 0..n /\ \A k \in 1..n : k \in 0..n /\ k # 0
    OBVIOUS
  <2> QED  BY <1>2, <2>1
<1> DEFINE T == {k \in Nat : k <= n => from[k] = s[k]}
<1>5. 0 \in T
  BY <1>4 DEF SaysTo
<1>6. ASSUME NEW k \in Nat, k \in T, k + 1 <= n PROVE from[k + 1] = s[k + 1]
  <2>1. k + 1 \in 1..n /\ (k + 1) - 1 = k /\ k <= n
    BY <1>6
  <2>2. from[k] = s[k]
    BY <1>6, <2>1
  <2> DEFINE m == k + 1
  <2>3. m \in 1..n /\ m - 1 = k
    BY <2>1
  <2> HIDE DEF IsFrom, T, m
  <2>4. s[m] = IF h.ops[m][1] \in {"keep", sign} THEN Append(s[m - 1], h.ops[m][2]) ELSE s[m - 1]
    BY <2>3 DEF SaysTo
  <2>5. from[m] = IF h.ops[m][1] \in {"keep", sign} THEN Append(from[m - 1], h.ops[m][2]) ELSE from[m - 1]
    BY <1>4, <2>3
  <2>6. from[m] = s[m]
    BY <2>2, <2>3, <2>4, <2>5
  <2> QED  BY <2>6 DEF m
<1>7. \A k \in Nat : k \in T => k + 1 \in T
  BY <1>6
<1> HIDE DEF T, IsFrom
<1>8. n \in T
  BY <1>5, <1>7, Induction
<1> QED  BY <1>3, <1>8 DEF T

\* A part of a text that grows by its next line.
LEMMA PartGrows ==
  ASSUME NEW V, NEW s \in Seq(V), NEW i \in Nat, NEW j \in Nat, i <= j, j + 1 <= Len(s)
  PROVE  SubSeq(s, i + 1, j + 1) = Append(SubSeq(s, i + 1, j), s[j + 1])
<1>0. Len(s) \in Nat
  OBVIOUS
<1>1. \A k \in (i + 1)..(j + 1) : s[k] \in V
  BY <1>0, ElementOfSeq
<1>2. i + 1 \in Int /\ j + 1 \in Int /\ j \in Int /\ i + 1 <= j + 1
  OBVIOUS
<1> DEFINE p == SubSeq(s, i + 1, j + 1)
           q == SubSeq(s, i + 1, j)
<1>3. p \in Seq(V) /\ Len(p) = ((j + 1) - (i + 1)) + 1 /\ \A k \in 1..(((j + 1) - (i + 1)) + 1) : p[k] = s[((i + 1) + k) - 1]
  BY <1>1, <1>2, SubSeqProperties
<1>4. q \in Seq(V) /\ Len(q) = (IF i + 1 <= j THEN (j - (i + 1)) + 1 ELSE 0) /\ \A k \in 1..((j - (i + 1)) + 1) : q[k] = s[((i + 1) + k) - 1]
  <2>1. \A k \in (i + 1)..j : s[k] \in V
    BY <1>1
  <2> QED  BY <1>2, <2>1, SubSeqProperties
<1> HIDE DEF p, q
<1>5. Len(q) = j - i /\ Len(p) = (j - i) + 1
  BY <1>3, <1>4
<1>6. s[j + 1] \in V
  BY <1>1, <1>2
<1>7. Append(q, s[j + 1]) \in Seq(V)
  BY <1>4, <1>6, AppendProperties
<1>8. Len(Append(q, s[j + 1])) = (j - i) + 1
  <2>1. Len(Append(q, s[j + 1])) = Len(q) + 1
    BY <1>4, <1>6, AppendProperties
  <2> QED  BY <1>5, <2>1
<1>9. \A k \in 1..Len(q) : Append(q, s[j + 1])[k] = q[k]
  BY <1>4, <1>6, AppendProperties
<1>10. Append(q, s[j + 1])[Len(q) + 1] = s[j + 1]
  BY <1>4, <1>6, AppendProperties
<1>11. \A k \in 1..Len(p) : p[k] = Append(q, s[j + 1])[k]
  <2> TAKE k \in 1..Len(p)
  <2>1. k \in 1..(((j + 1) - (i + 1)) + 1)
    BY <1>3
  <2>2. CASE k <= j - i
    <3>1. k \in 1..Len(q) /\ k \in 1..((j - (i + 1)) + 1)
      BY <1>5, <2>1, <2>2
    <3> QED  BY <1>3, <1>4, <1>9, <2>1, <3>1
  <2>3. CASE ~(k <= j - i)
    <3>1. k = Len(q) + 1 /\ ((i + 1) + k) - 1 = j + 1
      BY <1>5, <2>1, <2>3
    <3> QED  BY <1>3, <1>10, <2>1, <3>1
  <2> QED  BY <2>2, <2>3
<1>12. p = Append(q, s[j + 1])
  BY <1>3, <1>5, <1>7, <1>8, <1>11, SeqEqual
<1> QED  BY <1>12 DEF p, q

\* A count of operations is a number.
LEMMA CountType ==
  ASSUME NEW ops, NEW side, NEW a \in Nat, NEW b \in Nat
  PROVE  Count(ops, side, a, b) \in Nat
<1>1. IsFiniteSet(a..b)
  BY FS_Interval
<1>2. IsFiniteSet({i \in a..b : ops[i].op \in {"keep", side}})
  BY <1>1, FS_Subset
<1> QED  BY <1>2, FS_CardinalityType DEF Count

\* An alignment goes forward in both texts.
LEMMA WalkForward ==
  ASSUME NEW old, NEW new, AreTexts(old, new), NEW ops, NEW x, NEW y, IsWalk(ops, old, new, x, y),
         NEW i \in 0..Len(ops), NEW j \in i..Len(ops)
  PROVE  /\ i \in Nat /\ j \in Nat /\ j \in 0..Len(ops)
         /\ x[i] \in Nat /\ x[j] \in Nat /\ x[i] <= x[j] /\ x[j] <= Len(old)
         /\ y[i] \in Nat /\ y[j] \in Nat /\ y[i] <= y[j] /\ y[j] <= Len(new)
<1>1. /\ Len(old) \in Nat /\ Len(new) \in Nat /\ Len(ops) \in Nat
      /\ x \in [0..Len(ops) -> 0..Len(old)] /\ y \in [0..Len(ops) -> 0..Len(new)]
  BY TextLengths DEF IsWalk
<1>2. \A k \in 0..Len(ops) : x[k] \in Nat /\ y[k] \in Nat /\ x[k] <= Len(old) /\ y[k] <= Len(new)
  BY <1>1
<1>3. i \in Nat /\ j \in Nat /\ j \in 0..Len(ops) /\ i <= j
  BY <1>1
<1> DEFINE a == i + 1
<1>4. a \in Nat /\ a >= 1 /\ j >= a - 1 /\ a - 1 = i
  BY <1>3
<1> HIDE DEF a
<1>5. /\ Count(ops, "delete", a, j) + x[a - 1] = x[j]
      /\ Count(ops, "insert", a, j) + y[a - 1] = y[j]
  BY <1>3, <1>4, Counts
<1>6. Count(ops, "delete", a, j) \in Nat /\ Count(ops, "insert", a, j) \in Nat
  BY <1>3, <1>4, CountType
<1> QED  BY <1>2, <1>3, <1>4, <1>5, <1>6

\* The line that an operation shows.
LEMMA LineAt ==
  ASSUME NEW old, NEW new, AreTexts(old, new), NEW ops, NEW x, NEW y, IsWalk(ops, old, new, x, y),
         NEW p \in 1..Len(ops), NEW l, l = LineOf(old, new, ops[p])
  PROVE  /\ l[1] = ops[p].op
         /\ l[1] \in {"keep", "delete", "insert"}
         /\ l[1] \in {"keep", "insert"} => y[p] = y[p - 1] + 1 /\ l[2] = new[y[p]]
         /\ l[1] \notin {"keep", "insert"} => y[p] = y[p - 1]
         /\ l[1] \in {"keep", "delete"} => x[p] = x[p - 1] + 1 /\ l[2] = old[x[p]]
         /\ l[1] \notin {"keep", "delete"} => x[p] = x[p - 1]
<1>1. Goes(ops[p], old, new, x[p - 1], y[p - 1], x[p], y[p])
  BY DEF IsWalk
<1>2. l[1] = ops[p].op /\ l[2] = IF ops[p].op = "insert" THEN new[ops[p].new] ELSE old[ops[p].old]
  BY DEF LineOf
<1>3. ops[p].op \in {"keep", "delete", "insert"}
  BY <1>1, GoesBy
<1>4. CASE ops[p].op = "keep"
  <2>1. /\ x[p] = x[p - 1] + 1 /\ y[p] = y[p - 1] + 1 /\ ops[p].old = x[p]
        /\ old[x[p]] = new[y[p]]
    BY <1>1, <1>4, GoesBy
  <2> QED  BY <1>2, <1>4, <2>1
<1>5. CASE ops[p].op = "delete"
  <2>1. x[p] = x[p - 1] + 1 /\ y[p] = y[p - 1] /\ ops[p].old = x[p]
    BY <1>1, <1>5, GoesBy
  <2> QED  BY <1>2, <1>5, <2>1
<1>6. CASE ops[p].op = "insert"
  <2>1. x[p] = x[p - 1] /\ y[p] = y[p - 1] + 1 /\ ops[p].new = y[p]
    BY <1>1, <1>6, GoesBy
  <2> QED  BY <1>2, <1>6, <2>1
<1> QED  BY <1>3, <1>4, <1>5, <1>6

\* An empty part of a text.
LEMMA PartEmpty ==
  ASSUME NEW s, NEW i \in Nat
  PROVE  SubSeq(s, i + 1, i) = <<>>
<1>1. i + 1 \in Int /\ i \in Int /\ i < i + 1
  OBVIOUS
<1> QED  BY <1>1, SubSeqEmpty

\* A hunk says what the new lines are, and what the old ones are.
LEMMA HunkSays ==
  ASSUME NEW old, NEW new, AreTexts(old, new), NEW ops, NEW x, NEW y, IsWalk(ops, old, new, x, y),
         NEW a \in 1..Len(ops), NEW b \in a..Len(ops), NEW h, h = TextOf(old, new, Hunk(ops, a, b)),
         x[0] = 0, y[0] = 0
  PROVE  /\ Said(h, "insert") = SubSeq(new, y[a - 1] + 1, y[b])
         /\ Said(h, "delete") = SubSeq(old, x[a - 1] + 1, x[b])
<1>0. /\ h.oldCount = x[b] - x[a - 1] /\ h.newCount = y[b] - y[a - 1]
      /\ h.oldAt = x[a - 1] + (IF h.oldCount = 0 THEN 0 ELSE 1)
      /\ h.newAt = y[a - 1] + (IF h.newCount = 0 THEN 0 ELSE 1)
      /\ Len(h.ops) = (b - a) + 1
      /\ \A k \in 1..Len(h.ops) : h.ops[k] = LineOf(old, new, ops[(a - 1) + k])
  BY HunkFacts
<1> DEFINE n == Len(h.ops)
           s == [k \in 0..n |-> SubSeq(new, y[a - 1] + 1, y[(a - 1) + k])]
           t == [k \in 0..n |-> SubSeq(old, x[a - 1] + 1, x[(a - 1) + k])]
<1>1. n = (b - a) + 1 /\ \A k \in 1..n : h.ops[k] = LineOf(old, new, ops[(a - 1) + k])
  BY <1>0
<1>2. /\ Len(ops) \in Nat /\ a \in Nat /\ b \in Nat /\ n \in Nat /\ (a - 1) + n = b /\ a - 1 \in 0..Len(ops)
      /\ IsSequence(old) /\ IsSequence(new)
  <2>1. Len(ops) \in Nat
    BY DEF IsWalk
  <2> HIDE DEF n
  <2> QED  BY <1>1, <2>1 DEF AreTexts
<1>3. PICK V : old \in Seq(V)
  BY <1>2 DEF IsSequence
<1>4. PICK W : new \in Seq(W)
  BY <1>2 DEF IsSequence
<1> HIDE DEF n
<1>5. /\ \A k \in 0..n : s[k] = SubSeq(new, y[a - 1] + 1, y[(a - 1) + k])
      /\ \A k \in 0..n : t[k] = SubSeq(old, x[a - 1] + 1, x[(a - 1) + k])
      /\ s = [k \in 0..n |-> s[k]] /\ t = [k \in 0..n |-> t[k]]
  OBVIOUS
<1> HIDE DEF s, t
<1>6. x[a - 1] \in Nat /\ y[a - 1] \in Nat
  <2>1. a - 1 \in (a - 1)..Len(ops)
    BY <1>2
  <2> QED  BY <1>2, <2>1, WalkForward
<1>7. s[0] = <<>> /\ t[0] = <<>>
  <2>1. 0 \in 0..n /\ (a - 1) + 0 = a - 1
    BY <1>2
  <2>2. s[0] = SubSeq(new, y[a - 1] + 1, y[a - 1]) /\ t[0] = SubSeq(old, x[a - 1] + 1, x[a - 1])
    BY <1>5, <2>1
  <2> QED  BY <1>6, <2>2, PartEmpty
<1>8. ASSUME NEW k \in 1..n
      PROVE  /\ s[k] = IF h.ops[k][1] \in {"keep", "insert"} THEN Append(s[k - 1], h.ops[k][2]) ELSE s[k - 1]
             /\ t[k] = IF h.ops[k][1] \in {"keep", "delete"} THEN Append(t[k - 1], h.ops[k][2]) ELSE t[k - 1]
  <2> DEFINE p == (a - 1) + k
             l == h.ops[k]
  <2>1. /\ p \in 1..Len(ops) /\ k \in 0..n /\ k - 1 \in 0..n /\ (a - 1) + (k - 1) = p - 1
        /\ p - 1 \in (a - 1)..Len(ops) /\ p \in (p - 1)..Len(ops) /\ p - 1 \in 0..Len(ops)
    BY <1>2
  <2>2. l = LineOf(old, new, ops[p])
    BY <1>1
  <2>3. s[k] = SubSeq(new, y[a - 1] + 1, y[p]) /\ t[k] = SubSeq(old, x[a - 1] + 1, x[p])
    BY <1>5, <2>1
  <2>4. s[k - 1] = SubSeq(new, y[a - 1] + 1, y[p - 1]) /\ t[k - 1] = SubSeq(old, x[a - 1] + 1, x[p - 1])
    BY <1>5, <2>1
  <2> HIDE DEF p, l
  <2>5. /\ x[p - 1] \in Nat /\ x[a - 1] <= x[p - 1] /\ y[p - 1] \in Nat /\ y[a - 1] <= y[p - 1]
    BY <1>2, <2>1, WalkForward
  <2>6. x[p] \in Nat /\ x[p] <= Len(old) /\ y[p] \in Nat /\ y[p] <= Len(new)
    BY <2>1, WalkForward
  <2>7. /\ l[1] \in {"keep", "insert"} => y[p] = y[p - 1] + 1 /\ l[2] = new[y[p]]
        /\ l[1] \notin {"keep", "insert"} => y[p] = y[p - 1]
        /\ l[1] \in {"keep", "delete"} => x[p] = x[p - 1] + 1 /\ l[2] = old[x[p]]
        /\ l[1] \notin {"keep", "delete"} => x[p] = x[p - 1]
    BY <2>1, <2>2, LineAt
  <2>8. s[k] = IF l[1] \in {"keep", "insert"} THEN Append(s[k - 1], l[2]) ELSE s[k - 1]
    <3>1. CASE l[1] \in {"keep", "insert"}
      <4>1. y[p - 1] + 1 <= Len(new) /\ y[p] = y[p - 1] + 1 /\ l[2] = new[y[p - 1] + 1]
        BY <2>6, <2>7, <3>1
      <4>2. SubSeq(new, y[a - 1] + 1, y[p - 1] + 1) = Append(SubSeq(new, y[a - 1] + 1, y[p - 1]), new[y[p - 1] + 1])
        BY <1>4, <1>6, <2>5, <4>1, PartGrows
      <4> QED  BY <2>3, <2>4, <3>1, <4>1, <4>2
    <3>2. CASE l[1] \notin {"keep", "insert"}
      BY <2>3, <2>4, <2>7, <3>2
    <3> QED  BY <3>1, <3>2
  <2>9. t[k] = IF l[1] \in {"keep", "delete"} THEN Append(t[k - 1], l[2]) ELSE t[k - 1]
    <3>1. CASE l[1] \in {"keep", "delete"}
      <4>1. x[p - 1] + 1 <= Len(old) /\ x[p] = x[p - 1] + 1 /\ l[2] = old[x[p - 1] + 1]
        BY <2>6, <2>7, <3>1
      <4>2. SubSeq(old, x[a - 1] + 1, x[p - 1] + 1) = Append(SubSeq(old, x[a - 1] + 1, x[p - 1]), old[x[p - 1] + 1])
        BY <1>3, <1>6, <2>5, <4>1, PartGrows
      <4> QED  BY <2>3, <2>4, <3>1, <4>1, <4>2
    <3>2. CASE l[1] \notin {"keep", "delete"}
      BY <2>3, <2>4, <2>7, <3>2
    <3> QED  BY <3>1, <3>2
  <2> QED  BY <2>8, <2>9 DEF l
<1>9. SaysTo(h, "insert", s) /\ SaysTo(h, "delete", t)
  BY <1>5, <1>7, <1>8 DEF SaysTo, n
<1>10. Said(h, "insert") = s[n] /\ Said(h, "delete") = t[n]
  BY <1>2, <1>9, SaidIs DEF n
<1>11. n \in 0..n
  BY <1>2
<1> QED  BY <1>2, <1>5, <1>10, <1>11

\* The header names lines of either side, and the line that begins the new ones.
LEMMA HunkHeader ==
  ASSUME NEW old, NEW new, AreTexts(old, new), NEW ops, NEW x, NEW y, IsWalk(ops, old, new, x, y),
         NEW a \in 1..Len(ops), NEW b \in a..Len(ops), NEW h, h = TextOf(old, new, Hunk(ops, a, b)),
         x[0] = 0, y[0] = 0
  PROVE  /\ h.oldCount > 0 => h.oldAt \in 1..Len(old)
         /\ h.newCount > 0 => h.newAt \in 1..Len(new)
         /\ h.newCount > 0 /\ h.ops[1][1] # "delete" => new[h.newAt] = h.ops[1][2]
         /\ First(h) = x[a - 1] + 1 /\ First(h) + h.oldCount = x[b] + 1
<1>1. /\ h.oldCount = x[b] - x[a - 1] /\ h.newCount = y[b] - y[a - 1]
      /\ h.oldAt = x[a - 1] + (IF h.oldCount = 0 THEN 0 ELSE 1)
      /\ h.newAt = y[a - 1] + (IF h.newCount = 0 THEN 0 ELSE 1)
      /\ Len(h.ops) = (b - a) + 1
      /\ \A k \in 1..Len(h.ops) : h.ops[k] = LineOf(old, new, ops[(a - 1) + k])
  BY HunkFacts
<1>2. Len(ops) \in Nat /\ Len(old) \in Nat /\ Len(new) \in Nat
  BY TextLengths DEF IsWalk
<1>3. a - 1 \in 0..Len(ops) /\ b \in (a - 1)..Len(ops) /\ a \in Nat /\ b \in Nat /\ a <= b
  BY <1>2
<1>4. /\ x[a - 1] \in Nat /\ x[b] \in Nat /\ x[a - 1] <= x[b] /\ x[b] <= Len(old)
      /\ y[a - 1] \in Nat /\ y[b] \in Nat /\ y[a - 1] <= y[b] /\ y[b] <= Len(new)
  BY <1>3, WalkForward
<1>5. First(h) = x[a - 1] + 1 /\ First(h) + h.oldCount = x[b] + 1
  <2>1. CASE h.oldCount = 0
    <3>1. h.oldAt = x[a - 1] + 0 /\ First(h) = h.oldAt + 1
      BY <1>1, <2>1 DEF First
    <3>2. x[b] = x[a - 1]
      BY <1>1, <1>4, <2>1
    <3> QED  BY <1>4, <2>1, <3>1, <3>2
  <2>2. CASE h.oldCount # 0
    <3>1. h.oldAt = x[a - 1] + 1 /\ First(h) = h.oldAt
      BY <1>1, <2>2 DEF First
    <3>2. (x[a - 1] + 1) + (x[b] - x[a - 1]) = x[b] + 1
      BY <1>4
    <3> QED  BY <1>1, <3>1, <3>2
  <2> QED  BY <2>1, <2>2
<1>6. h.oldCount > 0 => h.oldAt \in 1..Len(old)
  BY <1>1, <1>2, <1>4
<1>7. h.newCount > 0 => h.newAt \in 1..Len(new) /\ h.newAt = y[a - 1] + 1
  BY <1>1, <1>2, <1>4
<1>8. ASSUME h.newCount > 0, h.ops[1][1] # "delete" PROVE new[h.newAt] = h.ops[1][2]
  <2>1. 1 \in 1..Len(h.ops) /\ (a - 1) + 1 = a
    BY <1>1, <1>3
  <2>2. h.ops[1] = LineOf(old, new, ops[a])
    BY <1>1, <2>1
  <2>3. h.ops[1][1] \in {"keep", "insert"}
    BY <1>8, <2>2, LineAt
  <2>4. y[a] = y[a - 1] + 1 /\ h.ops[1][2] = new[y[a]]
    BY <2>2, <2>3, LineAt
  <2> QED  BY <1>7, <1>8, <2>4
<1> QED  BY <1>5, <1>6, <1>7, <1>8

\* It has lines.
LEMMA HunkLength ==
  ASSUME NEW old, NEW new, AreTexts(old, new), NEW ops, NEW x, NEW y, IsWalk(ops, old, new, x, y),
         NEW a \in 1..Len(ops), NEW b \in a..Len(ops), NEW h, h = TextOf(old, new, Hunk(ops, a, b)),
         x[0] = 0, y[0] = 0
  PROVE  Len(h.ops) \in Nat
<1>1. /\ h.oldCount = x[b] - x[a - 1] /\ h.newCount = y[b] - y[a - 1]
      /\ h.oldAt = x[a - 1] + (IF h.oldCount = 0 THEN 0 ELSE 1)
      /\ h.newAt = y[a - 1] + (IF h.newCount = 0 THEN 0 ELSE 1)
      /\ Len(h.ops) = (b - a) + 1
      /\ \A k \in 1..Len(h.ops) : h.ops[k] = LineOf(old, new, ops[(a - 1) + k])
  BY HunkFacts
<1>2. Len(ops) \in Nat
  BY DEF IsWalk
<1> QED  BY <1>1, <1>2

\* Every change is shown, and nothing outside the alignment.
LEMMA RangesFacts ==
  ASSUME NEW ops, Len(ops) \in Nat
  PROVE  /\ Ranges(ops) \subseteq 1..Len(ops)
         /\ \A p \in 1..Len(ops) : p \notin Ranges(ops) => ops[p].op = "keep"
<1>1. Ranges(ops) \subseteq 1..Len(ops)
  BY DEF Ranges
<1>2. ASSUME NEW p \in 1..Len(ops), ops[p].op # "keep" PROVE p \in Ranges(ops)
  <2>1. p <= p + Context
    BY DiffAssumption DEF DiffAssumption
  <2> QED  BY <1>2, <2>1 DEF Ranges
<1> QED  BY <1>1, <1>2

IsEnd(ops, i, e) == i <= e /\ i..e \subseteq Ranges(ops) /\ e + 1 \notin Ranges(ops)
EndOf(ops, i) == CHOOSE e \in Ranges(ops) : i <= e /\ i..e \subseteq Ranges(ops) /\ e + 1 \notin Ranges(ops)

\* What is shown from a position on ends.
LEMMA EndExists ==
  ASSUME NEW ops, Len(ops) \in Nat, NEW i \in Ranges(ops)
  PROVE  EndOf(ops, i) \in 1..Len(ops) /\ IsEnd(ops, i, EndOf(ops, i))
<1> DEFINE at == Ranges(ops)
           Out == {p \in Nat : i < p /\ p \notin at}
<1>1. at \subseteq 1..Len(ops) /\ i \in 1..Len(ops) /\ i \in Nat
  BY RangesFacts
<1>2. Len(ops) + 1 \in Out
  BY <1>1
<1>3. PICK q \in Out : \A p \in Out : q <= p
  <2>1. Out \subseteq Nat /\ Out # {}
    BY <1>2
  <2> HIDE DEF Out
  <2> QED  BY <2>1, Least
<1>4. q \in Nat /\ i < q /\ q \notin at
  OBVIOUS
<1> DEFINE e == q - 1
<1>5. e \in Nat /\ e + 1 = q /\ i <= e
  BY <1>1, <1>4
<1> HIDE DEF e
<1>6. ASSUME NEW p \in i..e PROVE p \in at
  <2>1. p \in Nat /\ i <= p /\ p < q
    BY <1>1, <1>4, <1>5
  <2>2. p = i \/ i < p
    BY <1>1, <2>1
  <2>3. p \notin Out
    BY <1>3, <1>4, <2>1
  <2> QED  BY <2>1, <2>2, <2>3
<1>7. e \in at
  <2>1. e \in i..e
    BY <1>1, <1>5
  <2> QED  BY <1>6, <2>1
<1>8. e \in at /\ (i <= e /\ i..e \subseteq Ranges(ops) /\ e + 1 \notin Ranges(ops))
  BY <1>4, <1>5, <1>6, <1>7
<1>9. /\ EndOf(ops, i) \in Ranges(ops)
      /\ i <= EndOf(ops, i) /\ i..EndOf(ops, i) \subseteq Ranges(ops) /\ EndOf(ops, i) + 1 \notin Ranges(ops)
  BY <1>8 DEF EndOf
<1> QED  BY <1>1, <1>9 DEF IsEnd

EndBefore(B, k) == IF k = 0 THEN 0 ELSE B[k]
HunksOf(ops) == {Hunk(ops, a, b) : a \in 1..Len(ops), b \in 1..Len(ops)}

\* A hunk is between two positions, and nothing between it and the one before is shown.
IsLaid(ops, H, A, B, i) ==
  /\ H[i] = Hunk(ops, A[i], B[i])
  /\ A[i] <= B[i] /\ EndBefore(B, i - 1) < A[i]
  /\ \A p \in 1..Len(ops) : EndBefore(B, i - 1) < p /\ p < A[i] => p \notin Ranges(ops)

\* The hunks that begin up to a position.
Laid(ops, H, A, B, k) ==
  /\ A \in Seq(1..Len(ops)) /\ B \in Seq(1..Len(ops)) /\ H \in Seq(HunksOf(ops))
  /\ Len(A) = Len(H) /\ Len(B) = Len(H)
  /\ \A i \in 1..Len(H) : IsLaid(ops, H, A, B, i)
  /\ \A p \in 1..k : EndBefore(B, Len(B)) < p => p \notin Ranges(ops)
  /\ EndBefore(B, Len(B)) > 0 => EndBefore(B, Len(B)) + 1 \notin Ranges(ops)
  /\ EndBefore(B, Len(B)) > k => \A p \in k..EndBefore(B, Len(B)) : p \in Ranges(ops)

LaidFor(ops, H, k) == \E A, B : Laid(ops, H, A, B, k)

\* Where the hunk before one ends is a position.
LEMMA EndBeforeType ==
  ASSUME NEW ops, Len(ops) \in Nat, NEW B \in Seq(1..Len(ops)), NEW k \in 0..Len(B)
  PROVE  EndBefore(B, k) \in 0..Len(ops)
<1>1. Len(B) \in Nat
  OBVIOUS
<1>2. CASE k = 0
  BY <1>2 DEF EndBefore
<1>3. CASE k # 0
  <2>1. k \in 1..Len(B)
    BY <1>1, <1>3
  <2>2. B[k] \in 1..Len(ops)
    BY <2>1, ElementOfSeq
  <2> QED  BY <1>3, <2>2 DEF EndBefore
<1> QED  BY <1>2, <1>3

\* One more hunk begins.
LEMMA LaidMore ==
  ASSUME NEW ops, Len(ops) \in Nat, NEW H, NEW A, NEW B, NEW k \in Nat, k + 1 <= Len(ops),
         Laid(ops, H, A, B, k), k + 1 \in Ranges(ops), k \notin Ranges(ops)
  PROVE  \E a, b : Laid(ops, Append(H, Hunk(ops, k + 1, EndOf(ops, k + 1))), a, b, k + 1)
<1> DEFINE from == k + 1
           to == EndOf(ops, k + 1)
           h == Hunk(ops, from, to)
           e == EndBefore(B, Len(B))
           n == Len(H)
<1>1. /\ A \in Seq(1..Len(ops)) /\ B \in Seq(1..Len(ops)) /\ H \in Seq(HunksOf(ops))
      /\ Len(A) = n /\ Len(B) = n /\ n \in Nat
      /\ \A i \in 1..n : IsLaid(ops, H, A, B, i)
      /\ \A p \in 1..k : e < p => p \notin Ranges(ops)
      /\ e > k => \A p \in k..e : p \in Ranges(ops)
  BY DEF Laid
<1>2. from \in 1..Len(ops) /\ from \in Nat
  OBVIOUS
<1>3. to \in 1..Len(ops) /\ IsEnd(ops, from, to)
  BY EndExists
<1>4. e \in 0..Len(ops)
  <2>1. Len(B) \in 0..Len(B)
    BY <1>1
  <2> QED  BY <1>1, <2>1, EndBeforeType
<1>5. h \in HunksOf(ops)
  <2> HIDE DEF from, to
  <2> QED  BY <1>2, <1>3 DEF HunksOf
<1>6. e <= k
  <2> SUFFICES ASSUME e > k PROVE FALSE
    BY <1>4
  <2>1. k \in k..e
    BY <1>4
  <2> QED  BY <1>1, <2>1
<1> HIDE DEF from, to, h, e, n
<1> DEFINE HH == Append(H, h)
           AA == Append(A, from)
           BB == Append(B, to)
<1>7. /\ HH \in Seq(HunksOf(ops)) /\ AA \in Seq(1..Len(ops)) /\ BB \in Seq(1..Len(ops))
  BY <1>1, <1>2, <1>3, <1>5, AppendProperties
<1>8. Len(HH) = n + 1
  BY <1>1, <1>5, AppendProperties DEF n
<1>9. Len(AA) = n + 1
  BY <1>1, <1>2, AppendProperties
<1>10. Len(BB) = n + 1
  BY <1>1, <1>3, AppendProperties
<1>11. \A i \in 1..n : HH[i] = H[i]
  BY <1>1, <1>5, AppendProperties DEF n
<1>12. \A i \in 1..n : AA[i] = A[i]
  BY <1>1, <1>2, AppendProperties
<1>13. \A i \in 1..n : BB[i] = B[i]
  BY <1>1, <1>3, AppendProperties
<1>14. HH[n + 1] = h
  BY <1>1, <1>5, AppendProperties DEF n
<1>15. AA[n + 1] = from
  <2>1. A \in Seq(1..Len(ops)) /\ from \in 1..Len(ops)
    BY <1>1, <1>2
  <2>2. Append(A, from)[Len(A) + 1] = from
    BY ONLY <2>1, AppendProperties
  <2> QED  BY <1>1, <2>2
<1>16. BB[n + 1] = to
  <2>1. BB[Len(B) + 1] = to
    BY <1>1, <1>3, AppendProperties
  <2> QED  BY <1>1, <2>1
<1> HIDE DEF HH, AA, BB
<1>17. \A i \in 0..n : EndBefore(BB, i) = EndBefore(B, i)
  <2> TAKE i \in 0..n
  <2>1. i = 0 \/ i \in 1..n
    BY <1>1
  <2> QED  BY <1>13, <2>1 DEF EndBefore
<1>18. ASSUME NEW i \in 1..(n + 1) PROVE IsLaid(ops, HH, AA, BB, i)
  <2>1. CASE i \in 1..n
    <3>1. i - 1 \in 0..n
      BY <1>1, <2>1
    <3>2. HH[i] = H[i] /\ AA[i] = A[i] /\ BB[i] = B[i] /\ EndBefore(BB, i - 1) = EndBefore(B, i - 1)
      BY <1>11, <1>12, <1>13, <1>17, <2>1, <3>1
    <3> QED  BY <1>1, <2>1, <3>2 DEF IsLaid
  <2>2. CASE i \notin 1..n
    <3>1. i = n + 1 /\ i - 1 = n /\ n \in 0..n
      BY <1>1, <2>2
    <3>2. HH[i] = h /\ AA[i] = from /\ BB[i] = to
      BY <1>14, <1>15, <1>16, <3>1
    <3>3. EndBefore(BB, i - 1) = e
      BY <1>1, <1>17, <3>1 DEF e
    <3>4. e < from
      BY <1>4, <1>6 DEF from
    <3>5. from <= to
      BY <1>3 DEF IsEnd
    <3>6. \A p \in 1..Len(ops) : e < p /\ p < from => p \notin Ranges(ops)
      <4> SUFFICES ASSUME NEW p \in 1..Len(ops), e < p, p < from PROVE p \notin Ranges(ops)
        OBVIOUS
      <4>1. p \in 1..k
        BY DEF from
      <4> QED  BY <1>1, <4>1
    <3> QED  BY <3>2, <3>3, <3>4, <3>5, <3>6 DEF IsLaid, h
  <2> QED  BY <2>1, <2>2
<1>19. EndBefore(BB, Len(BB)) = to
  BY <1>1, <1>10, <1>16 DEF EndBefore
<1>20. \A p \in 1..from : to < p => p \notin Ranges(ops)
  BY <1>2, <1>3 DEF IsEnd
<1>21. to + 1 \notin Ranges(ops)
  BY <1>3 DEF IsEnd
<1>22. \A p \in from..to : p \in Ranges(ops)
  BY <1>3 DEF IsEnd
<1>23. Laid(ops, HH, AA, BB, from)
  BY <1>7, <1>8, <1>9, <1>10, <1>18, <1>19, <1>20, <1>21, <1>22 DEF Laid
<1> QED  BY <1>23 DEF HH, h, from, to

\* No hunk begins.
LEMMA LaidOn ==
  ASSUME NEW ops, Len(ops) \in Nat, NEW H, NEW A, NEW B, NEW k \in Nat, k + 1 <= Len(ops),
         Laid(ops, H, A, B, k), ~(k + 1 \in Ranges(ops) /\ k \notin Ranges(ops))
  PROVE  Laid(ops, H, A, B, k + 1)
<1> DEFINE e == EndBefore(B, Len(B))
<1>1. /\ A \in Seq(1..Len(ops)) /\ B \in Seq(1..Len(ops)) /\ H \in Seq(HunksOf(ops))
      /\ Len(A) = Len(H) /\ Len(B) = Len(H) /\ Len(H) \in Nat
      /\ \A i \in 1..Len(H) : IsLaid(ops, H, A, B, i)
      /\ \A p \in 1..k : e < p => p \notin Ranges(ops)
      /\ e > 0 => e + 1 \notin Ranges(ops)
      /\ e > k => \A p \in k..e : p \in Ranges(ops)
  BY DEF Laid
<1>2. e \in 0..Len(ops)
  <2>1. Len(B) \in 0..Len(B)
    BY <1>1
  <2> QED  BY <1>1, <2>1, EndBeforeType
<1> HIDE DEF e
<1>3. \A p \in 1..(k + 1) : e < p => p \notin Ranges(ops)
  <2> SUFFICES ASSUME NEW p \in 1..(k + 1), e < p, p \in Ranges(ops) PROVE FALSE
    OBVIOUS
  <2>1. p = k + 1
    <3>1. p \notin 1..k
      BY <1>1
    <3> QED  BY <3>1
  <2>2. k \in Ranges(ops)
    BY <2>1
  <2>3. k \in 1..k
    BY <2>2, RangesFacts
  <2>4. ~(e < k)
    BY <1>1, <2>2, <2>3
  <2>5. e = k /\ e > 0
    BY <1>2, <2>1, <2>3, <2>4
  <2> QED  BY <1>1, <2>1, <2>5
<1>4. e > k + 1 => \A p \in (k + 1)..e : p \in Ranges(ops)
  <2> SUFFICES ASSUME e > k + 1, NEW p \in (k + 1)..e PROVE p \in Ranges(ops)
    OBVIOUS
  <2>1. e > k /\ p \in k..e
    BY <1>2
  <2> QED  BY <1>1, <2>1
<1> QED  BY <1>1, <1>3, <1>4 DEF Laid, e

\* The hunks of an alignment.
LEMMA HunksLaid ==
  ASSUME NEW ops, Len(ops) \in Nat
  PROVE  \E A, B : Laid(ops, Hunks(ops), A, B, Len(ops))
<1> DEFINE n == Len(ops)
           at == Ranges(ops)
           W == Seq(HunksOf(ops))
           Begins(k) == k \in at /\ k - 1 \notin at
           step == [k \in 1..n |-> [s \in W |-> IF Begins(k) THEN Append(s, Hunk(ops, k, EndOf(ops, k))) ELSE s]]
           IsFrom(f) == f = [k \in 0..n |-> IF k = 0 THEN <<>>
                               ELSE IF k \in at /\ k - 1 \notin at THEN Append(f[k - 1], Hunk(ops, k, EndOf(ops, k)))
                               ELSE f[k - 1]]
           from == CHOOSE f : IsFrom(f)
<1>1. \A k \in 1..n : Begins(k) => Hunk(ops, k, EndOf(ops, k)) \in HunksOf(ops)
  BY EndExists DEF HunksOf
<1>2. <<>> \in W
  OBVIOUS
<1>3. step \in [1..n -> [W -> W]]
  <2>1. ASSUME NEW k \in 1..n, NEW s \in W
        PROVE  (IF Begins(k) THEN Append(s, Hunk(ops, k, EndOf(ops, k))) ELSE s) \in W
    <3>1. CASE Begins(k)
      <4>1. Hunk(ops, k, EndOf(ops, k)) \in HunksOf(ops)
        BY <1>1, <3>1
      <4>2. Append(s, Hunk(ops, k, EndOf(ops, k))) \in Seq(HunksOf(ops))
        BY <4>1, AppendProperties
      <4> QED  BY <3>1, <4>2
    <3>2. CASE ~Begins(k)
      BY <3>2
    <3> QED  BY <3>1, <3>2
  <2> HIDE DEF W, Begins
  <2> QED  BY <2>1
<1>4. \A k \in 1..n, s \in W : step[k][s] = IF Begins(k) THEN Append(s, Hunk(ops, k, EndOf(ops, k))) ELSE s
  <2> HIDE DEF W, Begins
  <2> QED  OBVIOUS
<1> HIDE DEF step, W
<1>5. PICK g : IsFold(g, n, W, <<>>, step)
  BY <1>2, <1>3, FoldExists
<1>6. IsFrom(g)
  <2>1. ASSUME NEW k \in 0..n
        PROVE  g[k] = IF k = 0 THEN <<>>
                      ELSE IF k \in at /\ k - 1 \notin at THEN Append(g[k - 1], Hunk(ops, k, EndOf(ops, k)))
                      ELSE g[k - 1]
    <3>1. CASE k = 0
      BY <1>5, <3>1 DEF IsFold
    <3>2. CASE k # 0
      <4>1. k \in 1..n /\ k - 1 \in 0..n
        BY <3>2
      <4>2. g[k - 1] \in W /\ g[k] = step[k][g[k - 1]]
        BY <1>5, <4>1 DEF IsFold
      <4>3. g[k] = IF Begins(k) THEN Append(g[k - 1], Hunk(ops, k, EndOf(ops, k))) ELSE g[k - 1]
        <5> HIDE DEF Begins
        <5> QED  BY <1>4, <4>1, <4>2
      <4> QED  BY <3>2, <4>3
    <3> QED  BY <3>1, <3>2
  <2>2. g = [k \in 0..n |-> g[k]]
    BY <1>5 DEF IsFold
  <2> QED  BY <2>1, <2>2
<1>7. IsFrom(from)
  <2> HIDE DEF IsFrom
  <2> QED  BY <1>6
<1>8. Hunks(ops) = from[n]
  BY DEF Hunks, EndOf
<1> HIDE DEF from
<1>9. /\ from[0] = <<>>
      /\ \A k \in 1..n : from[k] = IF k \in at /\ k - 1 \notin at THEN Append(from[k - 1], Hunk(ops, k, EndOf(ops, k)))
                                   ELSE from[k - 1]
  <2>1. 0 \in 0..n /\ \A k \in 1..n : k \in 0..n /\ k # 0
    OBVIOUS
  <2> QED  BY <1>7, <2>1
<1> HIDE DEF IsFrom
<1> DEFINE T == {k \in Nat : k <= n => LaidFor(ops, from[k], k)}
<1>10. 0 \in T
  <2> DEFINE none == <<>>
  <2>1. /\ none \in Seq(1..Len(ops)) /\ none \in Seq(HunksOf(ops)) /\ Len(none) = 0 /\ EndBefore(none, 0) = 0
    BY DEF EndBefore
  <2> HIDE DEF none
  <2>2. Laid(ops, none, none, none, 0)
    BY <2>1 DEF Laid
  <2>3. from[0] = none
    BY <1>9 DEF none
  <2> QED  BY <2>2, <2>3 DEF LaidFor
<1>11. ASSUME NEW k \in Nat, k \in T, k + 1 <= n
       PROVE  LaidFor(ops, from[k + 1], k + 1)
  <2>1. k <= n /\ k + 1 \in 1..n /\ (k + 1) - 1 = k
    BY <1>11
  <2>2. PICK A, B : Laid(ops, from[k], A, B, k)
    BY <1>11, <2>1 DEF LaidFor
  <2>3. CASE k + 1 \in at /\ k \notin at
    <3>1. from[k + 1] = Append(from[k], Hunk(ops, k + 1, EndOf(ops, k + 1)))
      BY <1>9, <2>1, <2>3
    <3> QED  BY <1>11, <2>2, <2>3, <3>1, LaidMore DEF LaidFor
  <2>4. CASE ~(k + 1 \in at /\ k \notin at)
    <3>1. from[k + 1] = from[k]
      BY <1>9, <2>1, <2>4
    <3>2. Laid(ops, from[k], A, B, k + 1)
      BY <1>11, <2>2, <2>4, LaidOn
    <3> QED  BY <3>1, <3>2 DEF LaidFor
  <2> QED  BY <2>3, <2>4
<1>12. \A k \in Nat : k \in T => k + 1 \in T
  BY <1>11
<1> HIDE DEF T
<1>13. n \in T
  BY <1>10, <1>12, Induction
<1> QED  BY <1>8, <1>13 DEF T, LaidFor

KeepsAll(ops, i, j) == \A p \in 1..Len(ops) : i < p /\ p <= j => ops[p].op = "keep"

KeptPart(ops, i, j) == i \in 0..Len(ops) /\ j \in i..Len(ops) /\ KeepsAll(ops, i, j)

KeptAlike(old, new, x, y, i, j) ==
  /\ x[j] = x[i] + (j - i) /\ y[j] = y[i] + (j - i)
  /\ SubSeq(old, x[i] + 1, x[j]) = SubSeq(new, y[i] + 1, y[j])

\* What is kept between two positions is the same in both texts.
LEMMA KeptLines ==
  ASSUME NEW old, NEW new, AreTexts(old, new), NEW ops, NEW x, NEW y, IsWalk(ops, old, new, x, y),
         NEW i, NEW j, KeptPart(ops, i, j)
  PROVE  KeptAlike(old, new, x, y, i, j)
<1>z. i \in 0..Len(ops) /\ j \in i..Len(ops) /\ KeepsAll(ops, i, j)
  BY DEF KeptPart
<1>0. /\ Len(old) \in Nat /\ Len(new) \in Nat /\ Len(ops) \in Nat
      /\ i \in Nat /\ j \in Nat /\ i <= j /\ j <= Len(ops)
  BY <1>z, TextLengths DEF IsWalk
<1>1. /\ x[i] \in Nat /\ x[j] \in Nat /\ x[i] <= x[j] /\ x[j] <= Len(old)
      /\ y[i] \in Nat /\ y[j] \in Nat /\ y[i] <= y[j] /\ y[j] <= Len(new)
  BY <1>z, WalkForward
<1> DEFINE T == {d \in Nat : i + d <= j =>
                   /\ x[i + d] = x[i] + d /\ y[i + d] = y[i] + d
                   /\ \A q \in 1..d : old[x[i] + q] = new[y[i] + q]}
<1>2. 0 \in T
  <2>1. i + 0 = i /\ x[i] + 0 = x[i] /\ y[i] + 0 = y[i] /\ 1..0 = {}
    BY <1>0, <1>1
  <2> QED  BY <2>1
<1>3. ASSUME NEW d \in Nat, d \in T, i + (d + 1) <= j
      PROVE  /\ x[i + (d + 1)] = x[i] + (d + 1) /\ y[i + (d + 1)] = y[i] + (d + 1)
             /\ \A q \in 1..(d + 1) : old[x[i] + q] = new[y[i] + q]
  <2> DEFINE p == i + (d + 1)
  <2>1. p \in 1..Len(ops) /\ i < p /\ p <= j /\ p - 1 = i + d /\ i + d <= j
    BY <1>0, <1>3
  <2>2. x[p - 1] = x[i] + d /\ y[p - 1] = y[i] + d /\ \A q \in 1..d : old[x[i] + q] = new[y[i] + q]
    BY <1>3, <2>1
  <2> HIDE DEF T, p
  <2>3. Goes(ops[p], old, new, x[p - 1], y[p - 1], x[p], y[p]) /\ ops[p].op = "keep"
    BY <1>z, <2>1 DEF IsWalk, KeepsAll
  <2>4. x[p] = x[p - 1] + 1 /\ y[p] = y[p - 1] + 1 /\ old[x[p]] = new[y[p]]
    BY <2>3, GoesBy
  <2>5. x[p] = x[i] + (d + 1) /\ y[p] = y[i] + (d + 1)
    <3>1. x[p] = (x[i] + d) + 1 /\ y[p] = (y[i] + d) + 1
      BY <2>2, <2>4
    <3>2. \A u \in Nat : (u + d) + 1 = u + (d + 1)
      OBVIOUS
    <3> QED  BY <1>1, <3>1, <3>2
  <2>6. \A q \in 1..(d + 1) : old[x[i] + q] = new[y[i] + q]
    <3> TAKE q \in 1..(d + 1)
    <3>1. q \in 1..d \/ q = d + 1
      OBVIOUS
    <3> QED  BY <2>2, <2>4, <2>5, <3>1
  <2> QED  BY <2>5, <2>6 DEF p
<1>4. \A d \in Nat : d \in T => d + 1 \in T
  BY <1>3
<1> HIDE DEF T
<1> DEFINE n == j - i
<1>5. n \in Nat /\ i + n = j
  BY <1>0
<1>6. n \in T
  BY <1>2, <1>4, <1>5, Induction
<1>7. /\ x[j] = x[i] + n /\ y[j] = y[i] + n
      /\ \A q \in 1..n : old[x[i] + q] = new[y[i] + q]
  BY <1>0, <1>5, <1>6 DEF T
<1> HIDE DEF n
<1>8. PICK V : old \in Seq(V)
  BY DEF AreTexts, IsSequence
<1>9. PICK W : new \in Seq(W)
  BY DEF AreTexts, IsSequence
<1> DEFINE U == V \cup W
           p == SubSeq(old, x[i] + 1, x[j])
           q == SubSeq(new, y[i] + 1, y[j])
<1>10. old \in Seq(U) /\ new \in Seq(U)
  BY <1>8, <1>9, SeqMonotonic
<1> HIDE DEF U
<1>11. p \in Seq(U) /\ Len(p) = n /\ \A k \in 1..n : p[k] = old[x[i] + k]
  <2>1. \A k \in (x[i] + 1)..x[j] : old[k] \in U
    BY <1>0, <1>1, <1>10, ElementOfSeq
  <2>2. x[i] + 1 \in Int /\ x[j] \in Int
    BY <1>1
  <2>3. /\ p \in Seq(U) /\ Len(p) = IF x[i] + 1 <= x[j] THEN x[j] - (x[i] + 1) + 1 ELSE 0
        /\ \A k \in 1..(x[j] - (x[i] + 1) + 1) : p[k] = old[(x[i] + 1) + k - 1]
    BY <2>1, <2>2, SubSeqProperties
  <2> HIDE DEF p
  <2>4. x[j] - (x[i] + 1) + 1 = n /\ (~(x[i] + 1 <= x[j]) => n = 0)
    BY <1>1, <1>5, <1>7
  <2>5. \A k \in 1..n : (x[i] + 1) + k - 1 = x[i] + k
    BY <1>1
  <2> QED  BY <2>3, <2>4, <2>5
<1>12. q \in Seq(U) /\ Len(q) = n /\ \A k \in 1..n : q[k] = new[y[i] + k]
  <2>1. \A k \in (y[i] + 1)..y[j] : new[k] \in U
    BY <1>0, <1>1, <1>10, ElementOfSeq
  <2>2. y[i] + 1 \in Int /\ y[j] \in Int
    BY <1>1
  <2>3. /\ q \in Seq(U) /\ Len(q) = IF y[i] + 1 <= y[j] THEN y[j] - (y[i] + 1) + 1 ELSE 0
        /\ \A k \in 1..(y[j] - (y[i] + 1) + 1) : q[k] = new[(y[i] + 1) + k - 1]
    BY <2>1, <2>2, SubSeqProperties
  <2> HIDE DEF q
  <2>4. y[j] - (y[i] + 1) + 1 = n /\ (~(y[i] + 1 <= y[j]) => n = 0)
    BY <1>1, <1>5, <1>7
  <2>5. \A k \in 1..n : (y[i] + 1) + k - 1 = y[i] + k
    BY <1>1
  <2> QED  BY <2>3, <2>4, <2>5
<1> HIDE DEF p, q
<1>13. p = q
  <2>1. Len(p) = Len(q) /\ \A k \in 1..Len(p) : p[k] = q[k]
    BY <1>7, <1>11, <1>12
  <2> QED  BY <1>11, <1>12, <2>1, SeqEqual
<1> QED  BY <1>7, <1>13 DEF p, q, n, KeptAlike

\* The changes that a hunk shows.
LEMMA HunkChanges ==
  ASSUME NEW old, NEW new, AreTexts(old, new), NEW ops, NEW x, NEW y, IsWalk(ops, old, new, x, y),
         NEW a \in 1..Len(ops), NEW b \in a..Len(ops), NEW h, h = TextOf(old, new, Hunk(ops, a, b)),
         x[0] = 0, y[0] = 0
  PROVE  Cardinality({k \in 1..Len(h.ops) : h.ops[k][1] # "keep"}) + ((2 * (a - 1) - x[a - 1]) - y[a - 1])
           = (2 * b - x[b]) - y[b]
<1>1. /\ h.oldCount = x[b] - x[a - 1] /\ h.newCount = y[b] - y[a - 1]
      /\ h.oldAt = x[a - 1] + (IF h.oldCount = 0 THEN 0 ELSE 1)
      /\ h.newAt = y[a - 1] + (IF h.newCount = 0 THEN 0 ELSE 1)
      /\ Len(h.ops) = (b - a) + 1
      /\ \A k \in 1..Len(h.ops) : h.ops[k] = LineOf(old, new, ops[(a - 1) + k])
  BY HunkFacts
<1> DEFINE n == Len(h.ops)
           Q == {k \in 1..n : h.ops[k][1] # "keep"}
           s == [k \in 0..n |-> (2 * ((a - 1) + k) - x[(a - 1) + k]) - y[(a - 1) + k]]
<1>2. /\ Len(ops) \in Nat /\ a \in Nat /\ b \in Nat /\ n \in Nat /\ (a - 1) + n = b
      /\ \A k \in 0..n : (a - 1) + k \in 0..Len(ops) /\ (a - 1) + k \in Nat
  <2>1. Len(ops) \in Nat
    BY DEF IsWalk
  <2> HIDE DEF Q, s
  <2>2. n = (b - a) + 1
    BY <1>1
  <2> HIDE DEF n
  <2> QED  BY <2>1, <2>2
<1> HIDE DEF n
<1>3. \A k \in 0..Len(ops) : x[k] \in Nat /\ y[k] \in Nat
  <2> TAKE k \in 0..Len(ops)
  <2>1. k \in k..Len(ops)
    BY <1>2
  <2> HIDE DEF Q, s
  <2> QED  BY <2>1, WalkForward
<1>4. \A k \in 0..n : s[k] = (2 * ((a - 1) + k) - x[(a - 1) + k]) - y[(a - 1) + k] /\ s[k] \in Int
  <2>1. \A k \in 0..n : s[k] = (2 * ((a - 1) + k) - x[(a - 1) + k]) - y[(a - 1) + k]
    OBVIOUS
  <2> HIDE DEF s
  <2>2. ASSUME NEW k \in 0..n PROVE (2 * ((a - 1) + k) - x[(a - 1) + k]) - y[(a - 1) + k] \in Int
    <3>1. x[(a - 1) + k] \in Nat /\ y[(a - 1) + k] \in Nat /\ (a - 1) + k \in Nat
      BY <1>2, <1>3
    <3> QED  BY <3>1
  <2> QED  BY <2>1, <2>2
<1>5. s \in [0..n -> Int]
  BY <1>4
<1> HIDE DEF s
<1>6. ASSUME NEW k \in 1..n PROVE s[k] = s[k - 1] + (IF k \in Q THEN 1 ELSE 0)
  <2> DEFINE p == (a - 1) + k
             l == h.ops[k]
  <2>1. p \in 1..Len(ops) /\ (a - 1) + (k - 1) = p - 1 /\ k \in 0..n /\ k - 1 \in 0..n /\ p \in Nat
        /\ p - 1 \in 0..Len(ops) /\ p \in 0..Len(ops)
    BY <1>2
  <2>2. l = LineOf(old, new, ops[p])
    BY <1>1 DEF n
  <2>3. s[k] = (2 * p - x[p]) - y[p] /\ s[k - 1] = (2 * (p - 1) - x[p - 1]) - y[p - 1]
    BY <1>4, <2>1
  <2>4. k \in Q <=> l[1] # "keep"
    OBVIOUS
  <2> HIDE DEF p, l, Q
  <2>5. x[p] \in Nat /\ y[p] \in Nat /\ x[p - 1] \in Nat /\ y[p - 1] \in Nat
    BY <1>3, <2>1
  <2>6. /\ l[1] \in {"keep", "delete", "insert"}
        /\ l[1] \in {"keep", "insert"} => y[p] = y[p - 1] + 1
        /\ l[1] \notin {"keep", "insert"} => y[p] = y[p - 1]
        /\ l[1] \in {"keep", "delete"} => x[p] = x[p - 1] + 1
        /\ l[1] \notin {"keep", "delete"} => x[p] = x[p - 1]
    BY <2>1, <2>2, LineAt
  <2> DEFINE xx == x[p - 1]
             yy == y[p - 1]
  <2>7. xx \in Nat /\ yy \in Nat /\ s[k - 1] = (2 * (p - 1) - xx) - yy
    BY <2>3, <2>5
  <2>8. CASE l[1] = "keep"
    <3>1. s[k] = (2 * p - (xx + 1)) - (yy + 1) /\ k \notin Q
      BY <2>3, <2>4, <2>6, <2>8
    <3> HIDE DEF xx, yy
    <3>2. (2 * p - (xx + 1)) - (yy + 1) = (2 * (p - 1) - xx) - yy /\ (2 * (p - 1) - xx) - yy \in Int
      BY <2>1, <2>7
    <3>3. s[k] = s[k - 1] /\ s[k - 1] \in Int
      BY <2>7, <3>1, <3>2
    <3> QED  BY <3>1, <3>3
  <2>9. CASE l[1] = "delete"
    <3>1. s[k] = (2 * p - (xx + 1)) - yy /\ k \in Q
      BY <2>3, <2>4, <2>6, <2>9
    <3> HIDE DEF xx, yy
    <3> QED  BY <2>1, <2>7, <3>1
  <2>10. CASE l[1] = "insert"
    <3>1. s[k] = (2 * p - xx) - (yy + 1) /\ k \in Q
      BY <2>3, <2>4, <2>6, <2>10
    <3> HIDE DEF xx, yy
    <3> QED  BY <2>1, <2>7, <3>1
  <2> QED  BY <2>6, <2>8, <2>9, <2>10
<1>7. {k \in 1..n : k \in Q} = Q
  OBVIOUS
<1> HIDE DEF Q
<1> DEFINE one == 1
<1>8. one \in Nat /\ one >= 1 /\ n >= one - 1 /\ one - 1 = 0
  BY <1>2
<1>9. IsTally(s, Q, one, n)
  BY <1>5, <1>6, <1>8 DEF IsTally
<1> HIDE DEF one
<1>10. Cardinality({k \in one..n : k \in Q}) + s[one - 1] = s[n]
  BY <1>2, <1>8, <1>9, Counted
<1>11. Cardinality(Q) + s[0] = s[n]
  BY <1>7, <1>8, <1>10 DEF one
<1>12. s[0] = (2 * (a - 1) - x[a - 1]) - y[a - 1] /\ s[n] = (2 * b - x[b]) - y[b]
  <2>1. 0 \in 0..n /\ n \in 0..n /\ (a - 1) + 0 = a - 1
    BY <1>2
  <2>2. /\ s[0] = (2 * ((a - 1) + 0) - x[(a - 1) + 0]) - y[(a - 1) + 0]
        /\ s[n] = (2 * ((a - 1) + n) - x[(a - 1) + n]) - y[(a - 1) + n]
    BY <1>4, <2>1
  <2> QED  BY <1>2, <2>1, <2>2
<1> QED  BY <1>11, <1>12 DEF Q, n

TextsOf(old, new, hunks) == [k \in 1..Len(hunks) |-> TextOf(old, new, hunks[k])]

\* What hunks make of a text, when it is known hunk for hunk.
MakesTo(old, hunks, sign, s) ==
  /\ s = [k \in 0..Len(hunks) |-> s[k]]
  /\ s[0] = <<>>
  /\ \A k \in 1..Len(hunks) :
       s[k] = (s[k - 1] \o SubSeq(old, After(hunks, k - 1), First(hunks[k]) - 1)) \o Said(hunks[k], sign)

\* What hunks make of a text is what their steps make of it.
LEMMA ChangeMadeIs ==
  ASSUME NEW old, NEW hunks, Len(hunks) \in Nat, NEW sign, NEW s, MakesTo(old, hunks, sign, s)
  PROVE  Made(old, hunks, sign) = s[Len(hunks)]
<1> DEFINE n == Len(hunks)
           Next(v, k) == (v \o SubSeq(old, After(hunks, k - 1), First(hunks[k]) - 1)) \o Said(hunks[k], sign)
           IsUpto(f) == f = [k \in 0..n |-> IF k = 0 THEN <<>>
                               ELSE (f[k - 1] \o SubSeq(old, After(hunks, k - 1), First(hunks[k]) - 1)) \o Said(hunks[k], sign)]
           upto == CHOOSE f : IsUpto(f)
<1>1. IsUpto(s)
  <2>1. ASSUME NEW k \in 0..n PROVE s[k] = IF k = 0 THEN <<>> ELSE Next(s[k - 1], k)
    <3>1. k = 0 \/ k \in 1..n
      OBVIOUS
    <3>2. k \in 1..n => s[k] = Next(s[k - 1], k)
      BY DEF MakesTo
    <3> HIDE DEF Next
    <3> QED  BY <3>1, <3>2 DEF MakesTo
  <2>2. s = [k \in 0..n |-> s[k]]
    BY DEF MakesTo
  <2> QED  BY <2>1, <2>2
<1>2. IsUpto(upto)
  <2> HIDE DEF IsUpto
  <2> QED  BY <1>1
<1>3. Made(old, hunks, sign) = upto[n]
  BY DEF Made
<1> HIDE DEF upto
<1>4. /\ upto[0] = <<>>
      /\ \A k \in 1..n : upto[k] = Next(upto[k - 1], k)
  <2>1. 0 \in 0..n /\ \A k \in 1..n : k \in 0..n /\ k # 0
    OBVIOUS
  <2> QED  BY <1>2, <2>1
<1>5. /\ s[0] = <<>>
      /\ \A k \in 1..n : s[k] = Next(s[k - 1], k)
  BY DEF MakesTo
<1> HIDE DEF IsUpto, Next
<1> DEFINE T == {k \in Nat : k <= n => upto[k] = s[k]}
<1>6. 0 \in T
  BY <1>4, <1>5
<1>7. ASSUME NEW k \in Nat, k \in T, k + 1 <= n PROVE upto[k + 1] = s[k + 1]
  <2> DEFINE m == k + 1
  <2>1. m \in 1..n /\ m - 1 = k /\ k <= n
    BY <1>7
  <2>2. upto[k] = s[k]
    BY <1>7, <2>1
  <2> HIDE DEF m, T
  <2>3. upto[m] = Next(upto[m - 1], m) /\ s[m] = Next(s[m - 1], m)
    BY <1>4, <1>5, <2>1
  <2>4. upto[m] = s[m]
    BY <2>1, <2>2, <2>3
  <2> QED  BY <2>4 DEF m
<1>8. \A k \in Nat : k \in T => k + 1 \in T
  BY <1>7
<1> HIDE DEF T
<1>9. n \in T
  BY <1>6, <1>8, Induction
<1> QED  BY <1>3, <1>9 DEF T

\* The changes that hunks show, when they are known hunk for hunk.
ChangesTo(hunks, s) ==
  /\ s = [k \in 0..Len(hunks) |-> s[k]]
  /\ s[0] = 0
  /\ \A k \in 1..Len(hunks) :
       s[k] = s[k - 1] + Cardinality({i \in 1..Len(hunks[k].ops) : hunks[k].ops[i][1] # "keep"})

\* The lines they change, likewise.
LEMMA ChangedLinesIs ==
  ASSUME NEW hunks, Len(hunks) \in Nat, NEW s, ChangesTo(hunks, s)
  PROVE  ChangedLines(hunks) = s[Len(hunks)]
<1> DEFINE n == Len(hunks)
           Shown(k) == Cardinality({i \in 1..Len(hunks[k].ops) : hunks[k].ops[i][1] # "keep"})
           IsUpto(f) == f = [k \in 0..n |-> IF k = 0 THEN 0
                               ELSE f[k - 1] + Cardinality({i \in 1..Len(hunks[k].ops) : hunks[k].ops[i][1] # "keep"})]
           upto == CHOOSE f : IsUpto(f)
<1>1. IsUpto(s)
  <2>1. ASSUME NEW k \in 0..n PROVE s[k] = IF k = 0 THEN 0 ELSE s[k - 1] + Shown(k)
    <3>1. k = 0 \/ k \in 1..n
      OBVIOUS
    <3>2. k \in 1..n => s[k] = s[k - 1] + Shown(k)
      BY DEF ChangesTo
    <3> HIDE DEF Shown
    <3> QED  BY <3>1, <3>2 DEF ChangesTo
  <2>2. s = [k \in 0..n |-> s[k]]
    BY DEF ChangesTo
  <2> QED  BY <2>1, <2>2
<1>2. IsUpto(upto)
  <2> HIDE DEF IsUpto
  <2> QED  BY <1>1
<1>3. ChangedLines(hunks) = upto[n]
  BY DEF ChangedLines
<1> HIDE DEF upto
<1>4. /\ upto[0] = 0
      /\ \A k \in 1..n : upto[k] = upto[k - 1] + Shown(k)
  <2>1. 0 \in 0..n /\ \A k \in 1..n : k \in 0..n /\ k # 0
    OBVIOUS
  <2> QED  BY <1>2, <2>1
<1>5. /\ s[0] = 0
      /\ \A k \in 1..n : s[k] = s[k - 1] + Shown(k)
  BY DEF ChangesTo
<1> HIDE DEF IsUpto, Shown
<1> DEFINE T == {k \in Nat : k <= n => upto[k] = s[k]}
<1>6. 0 \in T
  BY <1>4, <1>5
<1>7. ASSUME NEW k \in Nat, k \in T, k + 1 <= n PROVE upto[k + 1] = s[k + 1]
  <2> DEFINE m == k + 1
  <2>1. m \in 1..n /\ m - 1 = k /\ k <= n
    BY <1>7
  <2>2. upto[k] = s[k]
    BY <1>7, <2>1
  <2> HIDE DEF m, T
  <2>3. upto[m] = upto[m - 1] + Shown(m) /\ s[m] = s[m - 1] + Shown(m)
    BY <1>4, <1>5, <2>1
  <2>4. upto[m] = s[m]
    BY <2>1, <2>2, <2>3
  <2> QED  BY <2>4 DEF m
<1>8. \A k \in Nat : k \in T => k + 1 \in T
  BY <1>7
<1> HIDE DEF T
<1>9. n \in T
  BY <1>6, <1>8, Induction
<1> QED  BY <1>3, <1>9 DEF T

\* Where the hunk that ends last ends, and the one after it begins.
LEMMA LaidAt ==
  ASSUME NEW ops, Len(ops) \in Nat, NEW H, NEW A, NEW B, Laid(ops, H, A, B, Len(ops)), NEW k \in 1..Len(H)
  PROVE  /\ A[k] \in 1..Len(ops) /\ B[k] \in A[k]..Len(ops) /\ H[k] = Hunk(ops, A[k], B[k])
         /\ EndBefore(B, k - 1) \in 0..Len(ops) /\ A[k] - 1 \in EndBefore(B, k - 1)..Len(ops)
         /\ EndBefore(B, k) = B[k]
         /\ KeepsAll(ops, EndBefore(B, k - 1), A[k] - 1)
<1>1. /\ A \in Seq(1..Len(ops)) /\ B \in Seq(1..Len(ops)) /\ H \in Seq(HunksOf(ops))
      /\ Len(A) = Len(H) /\ Len(B) = Len(H) /\ Len(H) \in Nat /\ IsLaid(ops, H, A, B, k)
  BY DEF Laid
<1>2. A[k] \in 1..Len(ops) /\ B[k] \in 1..Len(ops)
  BY <1>1, ElementOfSeq
<1>3. k - 1 \in 0..Len(B) /\ k # 0 /\ k \in Nat
  BY <1>1
<1>4. EndBefore(B, k - 1) \in 0..Len(ops)
  BY <1>1, <1>3, EndBeforeType
<1>5. /\ H[k] = Hunk(ops, A[k], B[k]) /\ A[k] <= B[k] /\ EndBefore(B, k - 1) < A[k]
      /\ \A p \in 1..Len(ops) : EndBefore(B, k - 1) < p /\ p < A[k] => p \notin Ranges(ops)
  BY <1>1 DEF IsLaid
<1>6. EndBefore(B, k) = B[k]
  BY <1>3 DEF EndBefore
<1> DEFINE e == EndBefore(B, k - 1)
           a == A[k]
           b == B[k]
<1> HIDE DEF e, a, b
<1>7. b \in a..Len(ops) /\ a - 1 \in e..Len(ops)
  BY <1>2, <1>4, <1>5 DEF e, a, b
<1>8. \A p \in 1..Len(ops) : e < p /\ p <= a - 1 => p < a
  BY <1>2 DEF a
<1>9. KeepsAll(ops, e, a - 1)
  BY <1>5, <1>8, RangesFacts DEF KeepsAll, e, a
<1> QED  BY <1>2, <1>4, <1>5, <1>6, <1>7, <1>9 DEF e, a, b

\* After the last hunk nothing is changed.
LEMMA LaidEnd ==
  ASSUME NEW ops, Len(ops) \in Nat, NEW H, NEW A, NEW B, Laid(ops, H, A, B, Len(ops))
  PROVE  /\ EndBefore(B, Len(H)) \in 0..Len(ops)
         /\ KeepsAll(ops, EndBefore(B, Len(H)), Len(ops))
<1>1. /\ A \in Seq(1..Len(ops)) /\ B \in Seq(1..Len(ops)) /\ H \in Seq(HunksOf(ops))
      /\ Len(A) = Len(H) /\ Len(B) = Len(H) /\ Len(H) \in Nat
      /\ \A p \in 1..Len(ops) : EndBefore(B, Len(B)) < p => p \notin Ranges(ops)
  BY DEF Laid
<1>2. Len(H) \in 0..Len(B)
  BY <1>1
<1>3. EndBefore(B, Len(H)) \in 0..Len(ops)
  BY <1>1, <1>2, EndBeforeType
<1>4. \A p \in 1..Len(ops) : EndBefore(B, Len(H)) < p => ops[p].op = "keep"
  BY <1>1, RangesFacts
<1> QED  BY <1>3, <1>4 DEF KeepsAll

\* Three parts of a text, each where the one before ends.
LEMMA PartsJoin ==
  ASSUME NEW V, NEW s \in Seq(V), NEW i \in Nat, NEW j \in Nat, NEW k \in Nat, i <= j, j <= k, k <= Len(s)
  PROVE  SubSeq(s, i + 1, j) \o SubSeq(s, j + 1, k) = SubSeq(s, i + 1, k)
<1> DEFINE m == i + 1
<1>1. Len(s) \in Nat
  OBVIOUS
<1>2. m \in 1..(Len(s) + 1) /\ j \in (m - 1)..Len(s) /\ k \in j..Len(s)
  BY <1>1
<1> HIDE DEF m
<1>3. SubSeq(s, m, j) \o SubSeq(s, j + 1, k) = SubSeq(s, m, k)
  BY <1>2, ConcatAdjacentSubSeq
<1> QED  BY <1>3 DEF m

\* The hunks of an alignment: where each is, what is between it and the one
\* before, and what it says and shows.
HunkIs(old, new, x, y, hunks, k, e, a, b) ==
  /\ e \in Nat /\ a \in Nat /\ b \in Nat /\ Len(hunks[k].ops) \in Nat
  /\ x[e] \in Nat /\ x[a] \in Nat /\ x[b] \in Nat /\ x[e] <= x[a] /\ x[a] <= x[b] /\ x[b] <= Len(old)
  /\ y[e] \in Nat /\ y[a] \in Nat /\ y[b] \in Nat /\ y[e] <= y[a] /\ y[a] <= y[b] /\ y[b] <= Len(new)
  /\ SubSeq(old, x[e] + 1, x[a]) = SubSeq(new, y[e] + 1, y[a])
  /\ (2 * a - x[a]) - y[a] = (2 * e - x[e]) - y[e]
  /\ First(hunks[k]) = x[a] + 1 /\ First(hunks[k]) + hunks[k].oldCount = x[b] + 1
  /\ Said(hunks[k], "insert") = SubSeq(new, y[a] + 1, y[b])
  /\ Said(hunks[k], "delete") = SubSeq(old, x[a] + 1, x[b])
  /\ Cardinality({i \in 1..Len(hunks[k].ops) : hunks[k].ops[i][1] # "keep"}) + ((2 * a - x[a]) - y[a])
       = (2 * b - x[b]) - y[b]

HeaderIs(old, new, h) ==
  /\ h.oldCount > 0 => h.oldAt \in 1..Len(old)
  /\ h.newCount > 0 => h.newAt \in 1..Len(new)
  /\ h.newCount > 0 /\ h.ops[1][1] # "delete" => new[h.newAt] = h.ops[1][2]

\* Each hunk is where its alignment says, with a header that says so.
LEMMA HunkOfAlignment ==
  ASSUME NEW old, NEW new, AreTexts(old, new), NEW ops, NEW x, NEW y, IsWalk(ops, old, new, x, y),
         x[0] = 0, y[0] = 0, NEW H, NEW A, NEW B, Laid(ops, H, A, B, Len(ops)),
         NEW hunks, hunks = TextsOf(old, new, H), NEW k \in 1..Len(H)
  PROVE  /\ HunkIs(old, new, x, y, hunks, k, EndBefore(B, k - 1), A[k] - 1, EndBefore(B, k))
         /\ HeaderIs(old, new, hunks[k])
<1>0. Len(ops) \in Nat
  BY DEF IsWalk
<1>1. /\ A[k] \in 1..Len(ops) /\ B[k] \in A[k]..Len(ops) /\ H[k] = Hunk(ops, A[k], B[k])
      /\ EndBefore(B, k - 1) \in 0..Len(ops) /\ A[k] - 1 \in EndBefore(B, k - 1)..Len(ops)
      /\ EndBefore(B, k) = B[k]
      /\ KeepsAll(ops, EndBefore(B, k - 1), A[k] - 1)
  BY <1>0, LaidAt
<1> DEFINE e == EndBefore(B, k - 1)
           from == A[k]
           a == A[k] - 1
           b == B[k]
           h == hunks[k]
<1>2. h = TextOf(old, new, H[k])
  BY DEF TextsOf
<1>3. h = TextOf(old, new, Hunk(ops, from, b))
  BY <1>1, <1>2
<1>4. /\ from \in 1..Len(ops) /\ b \in from..Len(ops) /\ e \in 0..Len(ops) /\ a \in e..Len(ops) /\ from - 1 = a
      /\ KeepsAll(ops, e, a)
  BY <1>1
<1> HIDE DEF e, from, b, a, h
<1>5. a \in 0..Len(ops) /\ b \in a..Len(ops)
  BY <1>0, <1>4
<1>6. /\ e \in Nat /\ a \in Nat /\ x[e] \in Nat /\ x[a] \in Nat /\ x[e] <= x[a]
      /\ y[e] \in Nat /\ y[a] \in Nat /\ y[e] <= y[a]
  BY <1>4, WalkForward
<1>7. /\ b \in Nat /\ x[b] \in Nat /\ x[a] <= x[b] /\ x[b] <= Len(old)
      /\ y[b] \in Nat /\ y[a] <= y[b] /\ y[b] <= Len(new)
  BY <1>5, WalkForward
<1>8. /\ x[a] = x[e] + (a - e) /\ y[a] = y[e] + (a - e)
      /\ SubSeq(old, x[e] + 1, x[a]) = SubSeq(new, y[e] + 1, y[a])
  <2>1. KeptPart(ops, e, a)
    BY <1>4 DEF KeptPart
  <2>2. KeptAlike(old, new, x, y, e, a)
    BY <2>1, KeptLines
  <2> QED  BY <2>2 DEF KeptAlike
<1>9. (2 * a - x[a]) - y[a] = (2 * e - x[e]) - y[e]
  <2> DEFINE u == x[e]
             v == y[e]
  <2>1. u \in Nat /\ v \in Nat /\ a \in Nat /\ e \in Nat
    BY <1>6
  <2>2. x[a] = u + (a - e) /\ y[a] = v + (a - e)
    BY <1>8
  <2> HIDE DEF u, v
  <2>3. (2 * a - (u + (a - e))) - (v + (a - e)) = (2 * e - u) - v
    BY ONLY <2>1
  <2>4. (2 * a - x[a]) - y[a] = (2 * e - u) - v
    BY <2>2, <2>3
  <2> QED  BY <2>4 DEF u, v
<1>10. /\ Said(h, "insert") = SubSeq(new, y[from - 1] + 1, y[b])
       /\ Said(h, "delete") = SubSeq(old, x[from - 1] + 1, x[b])
  BY <1>3, <1>4, HunkSays
<1>11. /\ h.oldCount > 0 => h.oldAt \in 1..Len(old)
       /\ h.newCount > 0 => h.newAt \in 1..Len(new)
       /\ h.newCount > 0 /\ h.ops[1][1] # "delete" => new[h.newAt] = h.ops[1][2]
       /\ First(h) = x[from - 1] + 1 /\ First(h) + h.oldCount = x[b] + 1
  BY <1>3, <1>4, HunkHeader
<1>12. Cardinality({i \in 1..Len(h.ops) : h.ops[i][1] # "keep"}) + ((2 * (from - 1) - x[from - 1]) - y[from - 1])
         = (2 * b - x[b]) - y[b]
  BY <1>3, <1>4, HunkChanges
<1>15. Len(h.ops) \in Nat
  BY <1>3, <1>4, HunkLength
<1>13. HeaderIs(old, new, h)
  BY <1>11 DEF HeaderIs
<1>14. HunkIs(old, new, x, y, hunks, k, e, a, b)
  BY <1>4, <1>6, <1>7, <1>8, <1>9, <1>10, <1>11, <1>12, <1>15 DEF HunkIs, h
<1> QED  BY <1>1, <1>13, <1>14 DEF e, a, b, h

\* Applying them gives the new text, taking them back the old one, and they show
\* as many changes as the alignment has.
LEMMA HunksApply ==
  ASSUME NEW old, NEW new, AreTexts(old, new), NEW ops, NEW x, NEW y, IsWalk(ops, old, new, x, y),
         x[0] = 0, y[0] = 0, NEW hunks, hunks = TextsOf(old, new, Hunks(ops))
  PROVE  /\ \A k \in 1..Len(hunks) : HeaderIs(old, new, hunks[k])
         /\ Applied(old, hunks, "insert") = new
         /\ Applied(old, hunks, "delete") = old
         /\ ChangedLines(hunks) = (2 * Len(ops) - Len(old)) - Len(new)
<1> DEFINE H == Hunks(ops)
<1>0. /\ Len(ops) \in Nat /\ Len(old) \in Nat /\ Len(new) \in Nat
      /\ x[Len(ops)] = Len(old) /\ y[Len(ops)] = Len(new)
  BY TextLengths DEF IsWalk
<1>1. PICK A, B : Laid(ops, H, A, B, Len(ops))
  BY <1>0, HunksLaid
<1>2. hunks = TextsOf(old, new, H)
  OBVIOUS
<1> HIDE DEF H
<1> DEFINE n == Len(H)
<1>3. n \in Nat
  BY <1>1 DEF Laid
<1>4. Len(hunks) = n
  BY <1>2, <1>3 DEF TextsOf
<1>5. \A k \in 1..n : /\ HunkIs(old, new, x, y, hunks, k, EndBefore(B, k - 1), A[k] - 1, EndBefore(B, k))
                      /\ HeaderIs(old, new, hunks[k])
  BY <1>1, <1>2, HunkOfAlignment
<1> HIDE DEF n
<1> DEFINE e == EndBefore(B, n)
<1>6. e \in 0..Len(ops) /\ KeepsAll(ops, e, Len(ops))
  BY <1>0, <1>1, LaidEnd DEF n
<1>7. PICK V : old \in Seq(V)
  BY DEF AreTexts, IsSequence
<1>8. PICK W : new \in Seq(W)
  BY DEF AreTexts, IsSequence
<1>9. EndBefore(B, 0) = 0
  BY DEF EndBefore
<1>10. After(hunks, 0) = 1 /\ \A k \in 1..n : After(hunks, k) = x[EndBefore(B, k)] + 1
  <2>1. After(hunks, 0) = 1
    BY DEF After
  <2>2. ASSUME NEW k \in 1..n PROVE After(hunks, k) = x[EndBefore(B, k)] + 1
    <3>1. k # 0
      BY <1>3
    <3>2. After(hunks, k) = First(hunks[k]) + hunks[k].oldCount
      BY <3>1 DEF After
    <3> QED  BY <1>5, <3>2 DEF HunkIs
  <2> QED  BY <2>1, <2>2
<1>11. \A k \in 0..n : After(hunks, k) = x[EndBefore(B, k)] + 1
  <2> TAKE k \in 0..n
  <2>1. k = 0 \/ k \in 1..n
    BY <1>3
  <2> QED  BY <1>9, <1>10, <2>1
<1> HIDE DEF e
<1>12. /\ x[e] \in Nat /\ x[e] <= Len(old) /\ y[e] \in Nat /\ y[e] <= Len(new) /\ e \in Nat
       /\ Len(ops) \in e..Len(ops)
  <2>1. Len(ops) \in e..Len(ops)
    BY <1>0, <1>6
  <2> QED  BY <1>0, <1>6, <2>1, WalkForward
<1>13. /\ Len(old) = x[e] + (Len(ops) - e) /\ Len(new) = y[e] + (Len(ops) - e)
       /\ SubSeq(old, x[e] + 1, Len(old)) = SubSeq(new, y[e] + 1, Len(new))
  <2>1. /\ x[Len(ops)] = x[e] + (Len(ops) - e) /\ y[Len(ops)] = y[e] + (Len(ops) - e)
        /\ SubSeq(old, x[e] + 1, x[Len(ops)]) = SubSeq(new, y[e] + 1, y[Len(ops)])
    <3>1. KeptPart(ops, e, Len(ops))
      BY <1>6, <1>12 DEF KeptPart
    <3>2. KeptAlike(old, new, x, y, e, Len(ops))
      BY <3>1, KeptLines
    <3> QED  BY <3>2 DEF KeptAlike
  <2> QED  BY <1>0, <2>1
<1>14. SubSeq(old, 1, 0) = <<>> /\ SubSeq(new, 1, 0) = <<>> /\ 0 + 1 = 1
  BY SubSeqEmpty
<1>15. SubSeq(old, 1, Len(old)) = old /\ SubSeq(new, 1, Len(new)) = new
  BY <1>7, <1>8, SubSeqFull
<1>16. Made(old, hunks, "insert") = SubSeq(new, 1, y[e])
  <2> DEFINE s == [k \in 0..n |-> SubSeq(new, 1, y[EndBefore(B, k)])]
  <2>1. \A k \in 0..n : s[k] = SubSeq(new, 1, y[EndBefore(B, k)])
    OBVIOUS
  <2>2. s = [k \in 0..n |-> s[k]]
    OBVIOUS
  <2> HIDE DEF s
  <2>3. s[0] = <<>>
    BY <1>3, <1>9, <1>14, <2>1
  <2>4. ASSUME NEW k \in 1..n
        PROVE  s[k] = (s[k - 1] \o SubSeq(old, After(hunks, k - 1), First(hunks[k]) - 1)) \o Said(hunks[k], "insert")
    <3> DEFINE c == EndBefore(B, k - 1)
               a == A[k] - 1
               b == EndBefore(B, k)
    <3>1. k \in 0..n /\ k - 1 \in 0..n
      BY <1>3
    <3>2. s[k] = SubSeq(new, 1, y[b]) /\ s[k - 1] = SubSeq(new, 1, y[c]) /\ After(hunks, k - 1) = x[c] + 1
      BY <1>11, <2>1, <3>1
    <3>3. HunkIs(old, new, x, y, hunks, k, c, a, b)
      BY <1>5
    <3> HIDE DEF c, a, b
    <3>4. /\ y[c] \in Nat /\ y[a] \in Nat /\ y[b] \in Nat /\ y[c] <= y[a] /\ y[a] <= y[b] /\ y[b] <= Len(new)
          /\ SubSeq(old, x[c] + 1, x[a]) = SubSeq(new, y[c] + 1, y[a]) /\ x[a] \in Nat
          /\ First(hunks[k]) = x[a] + 1 /\ Said(hunks[k], "insert") = SubSeq(new, y[a] + 1, y[b])
      BY <3>3 DEF HunkIs
    <3>5. (x[a] + 1) - 1 = x[a] /\ y[a] <= Len(new)
      <4>1. (x[a] + 1) - 1 = x[a]
        BY <3>4, OneBack
      <4> DEFINE u == y[a]
                 v == y[b]
                 l == Len(new)
      <4>2. u \in Nat /\ v \in Nat /\ l \in Nat /\ u <= v /\ v <= l
        BY <1>0, <3>4
      <4> HIDE DEF u, v, l
      <4>3. u <= l
        BY ONLY <4>2
      <4> QED  BY <4>1, <4>3 DEF u, l
    <3>6. SubSeq(new, 0 + 1, y[c]) \o SubSeq(new, y[c] + 1, y[a]) = SubSeq(new, 0 + 1, y[a])
      <4> DEFINE z == 0
                 i == y[c]
                 j == y[a]
      <4>1. z \in Nat /\ i \in Nat /\ j \in Nat /\ z <= i /\ i <= j /\ j <= Len(new)
        BY <3>4, <3>5
      <4> HIDE DEF z, i, j
      <4>2. SubSeq(new, z + 1, i) \o SubSeq(new, i + 1, j) = SubSeq(new, z + 1, j)
        BY ONLY <1>8, <4>1, PartsJoin
      <4> QED  BY <4>2 DEF z, i, j
    <3>7. SubSeq(new, 0 + 1, y[a]) \o SubSeq(new, y[a] + 1, y[b]) = SubSeq(new, 0 + 1, y[b])
      <4> DEFINE z == 0
                 i == y[a]
                 j == y[b]
      <4>1. z \in Nat /\ i \in Nat /\ j \in Nat /\ z <= i /\ i <= j /\ j <= Len(new)
        BY <3>4
      <4> HIDE DEF z, i, j
      <4>2. SubSeq(new, z + 1, i) \o SubSeq(new, i + 1, j) = SubSeq(new, z + 1, j)
        BY ONLY <1>8, <4>1, PartsJoin
      <4> QED  BY <4>2 DEF z, i, j
    <3>8. SubSeq(old, After(hunks, k - 1), First(hunks[k]) - 1) = SubSeq(new, y[c] + 1, y[a])
      BY <3>2, <3>4, <3>5
    <3> QED  BY <1>14, <3>2, <3>4, <3>6, <3>7, <3>8
  <2>5. MakesTo(old, hunks, "insert", s)
    BY <1>4, <2>2, <2>3, <2>4 DEF MakesTo
  <2>6. Made(old, hunks, "insert") = s[n]
    BY <1>3, <1>4, <2>5, ChangeMadeIs
  <2>7. n \in 0..n
    BY <1>3
  <2> QED  BY <2>1, <2>6, <2>7 DEF e
<1>17. Made(old, hunks, "delete") = SubSeq(old, 1, x[e])
  <2> DEFINE s == [k \in 0..n |-> SubSeq(old, 1, x[EndBefore(B, k)])]
  <2>1. \A k \in 0..n : s[k] = SubSeq(old, 1, x[EndBefore(B, k)])
    OBVIOUS
  <2>2. s = [k \in 0..n |-> s[k]]
    OBVIOUS
  <2> HIDE DEF s
  <2>3. s[0] = <<>>
    BY <1>3, <1>9, <1>14, <2>1
  <2>4. ASSUME NEW k \in 1..n
        PROVE  s[k] = (s[k - 1] \o SubSeq(old, After(hunks, k - 1), First(hunks[k]) - 1)) \o Said(hunks[k], "delete")
    <3> DEFINE c == EndBefore(B, k - 1)
               a == A[k] - 1
               b == EndBefore(B, k)
    <3>1. k \in 0..n /\ k - 1 \in 0..n
      BY <1>3
    <3>2. s[k] = SubSeq(old, 1, x[b]) /\ s[k - 1] = SubSeq(old, 1, x[c]) /\ After(hunks, k - 1) = x[c] + 1
      BY <1>11, <2>1, <3>1
    <3>3. HunkIs(old, new, x, y, hunks, k, c, a, b)
      BY <1>5
    <3> HIDE DEF c, a, b
    <3>4. /\ x[c] \in Nat /\ x[a] \in Nat /\ x[b] \in Nat /\ x[c] <= x[a] /\ x[a] <= x[b] /\ x[b] <= Len(old)
          /\ First(hunks[k]) = x[a] + 1 /\ Said(hunks[k], "delete") = SubSeq(old, x[a] + 1, x[b])
      BY <3>3 DEF HunkIs
    <3>5. (x[a] + 1) - 1 = x[a] /\ x[a] <= Len(old)
      <4>1. (x[a] + 1) - 1 = x[a]
        BY <3>4, OneBack
      <4> DEFINE u == x[a]
                 v == x[b]
                 l == Len(old)
      <4>2. u \in Nat /\ v \in Nat /\ l \in Nat /\ u <= v /\ v <= l
        BY <1>0, <3>4
      <4> HIDE DEF u, v, l
      <4>3. u <= l
        BY ONLY <4>2
      <4> QED  BY <4>1, <4>3 DEF u, l
    <3>6. SubSeq(old, 0 + 1, x[c]) \o SubSeq(old, x[c] + 1, x[a]) = SubSeq(old, 0 + 1, x[a])
      <4> DEFINE z == 0
                 i == x[c]
                 j == x[a]
      <4>1. z \in Nat /\ i \in Nat /\ j \in Nat /\ z <= i /\ i <= j /\ j <= Len(old)
        BY <3>4, <3>5
      <4> HIDE DEF z, i, j
      <4>2. SubSeq(old, z + 1, i) \o SubSeq(old, i + 1, j) = SubSeq(old, z + 1, j)
        BY ONLY <1>7, <4>1, PartsJoin
      <4> QED  BY <4>2 DEF z, i, j
    <3>7. SubSeq(old, 0 + 1, x[a]) \o SubSeq(old, x[a] + 1, x[b]) = SubSeq(old, 0 + 1, x[b])
      <4> DEFINE z == 0
                 i == x[a]
                 j == x[b]
      <4>1. z \in Nat /\ i \in Nat /\ j \in Nat /\ z <= i /\ i <= j /\ j <= Len(old)
        BY <3>4
      <4> HIDE DEF z, i, j
      <4>2. SubSeq(old, z + 1, i) \o SubSeq(old, i + 1, j) = SubSeq(old, z + 1, j)
        BY ONLY <1>7, <4>1, PartsJoin
      <4> QED  BY <4>2 DEF z, i, j
    <3>8. SubSeq(old, After(hunks, k - 1), First(hunks[k]) - 1) = SubSeq(old, x[c] + 1, x[a])
      BY <3>2, <3>4, <3>5
    <3> QED  BY <1>14, <3>2, <3>4, <3>6, <3>7, <3>8
  <2>5. MakesTo(old, hunks, "delete", s)
    BY <1>4, <2>2, <2>3, <2>4 DEF MakesTo
  <2>6. Made(old, hunks, "delete") = s[n]
    BY <1>3, <1>4, <2>5, ChangeMadeIs
  <2>7. n \in 0..n
    BY <1>3
  <2> QED  BY <2>1, <2>6, <2>7 DEF e
<1>18. ChangedLines(hunks) = (2 * e - x[e]) - y[e]
  <2> DEFINE s == [k \in 0..n |-> (2 * EndBefore(B, k) - x[EndBefore(B, k)]) - y[EndBefore(B, k)]]
  <2>1. \A k \in 0..n : s[k] = (2 * EndBefore(B, k) - x[EndBefore(B, k)]) - y[EndBefore(B, k)]
    OBVIOUS
  <2>2. s = [k \in 0..n |-> s[k]]
    OBVIOUS
  <2> HIDE DEF s
  <2>3. s[0] = 0
    BY <1>3, <1>9, <2>1
  <2>4. ASSUME NEW k \in 1..n
        PROVE  s[k] = s[k - 1] + Cardinality({i \in 1..Len(hunks[k].ops) : hunks[k].ops[i][1] # "keep"})
    <3> DEFINE c == EndBefore(B, k - 1)
               a == A[k] - 1
               b == EndBefore(B, k)
               m == Cardinality({i \in 1..Len(hunks[k].ops) : hunks[k].ops[i][1] # "keep"})
    <3>1. k \in 0..n /\ k - 1 \in 0..n
      BY <1>3
    <3>2. s[k] = (2 * b - x[b]) - y[b] /\ s[k - 1] = (2 * c - x[c]) - y[c]
      BY <2>1, <3>1
    <3>3. HunkIs(old, new, x, y, hunks, k, c, a, b)
      BY <1>5
    <3>4. /\ (2 * a - x[a]) - y[a] = (2 * c - x[c]) - y[c]
          /\ m + ((2 * a - x[a]) - y[a]) = (2 * b - x[b]) - y[b]
          /\ c \in Nat /\ x[c] \in Nat /\ y[c] \in Nat
      BY <3>3 DEF HunkIs
    <3>5. m \in Nat
      <4>1. IsFiniteSet({i \in 1..Len(hunks[k].ops) : hunks[k].ops[i][1] # "keep"})
        <5>1. Len(hunks[k].ops) \in Nat
          BY <3>3 DEF HunkIs
        <5> DEFINE q == Len(hunks[k].ops)
        <5>2. q \in Int
          BY <5>1
        <5> HIDE DEF q
        <5>3. IsFiniteSet(1..q)
          BY <5>2, FS_Interval
        <5>4. IsFiniteSet({i \in 1..q : hunks[k].ops[i][1] # "keep"})
          BY <5>3, FS_Subset
        <5> QED  BY <5>4 DEF q
      <4> QED  BY <4>1, FS_CardinalityType
    <3> HIDE DEF c, a, b, m
    <3>6. (2 * c - x[c]) - y[c] \in Int
      BY <3>4
    <3>7. s[k] = m + s[k - 1]
      BY <3>2, <3>4
    <3>8. s[k] = s[k - 1] + m
      BY <3>2, <3>5, <3>6, <3>7
    <3> QED  BY <3>8 DEF m
  <2>5. ChangesTo(hunks, s)
    BY <1>4, <2>2, <2>3, <2>4 DEF ChangesTo
  <2>6. ChangedLines(hunks) = s[n]
    BY <1>3, <1>4, <2>5, ChangedLinesIs
  <2>7. n \in 0..n
    BY <1>3
  <2> QED  BY <2>1, <2>6, <2>7 DEF e
<1>19. (2 * e - x[e]) - y[e] = (2 * Len(ops) - Len(old)) - Len(new)
  <2>1. (2 * e - x[e]) - y[e] = (2 * Len(ops) - (x[e] + (Len(ops) - e))) - (y[e] + (Len(ops) - e))
    BY <1>0, <1>12
  <2> QED  BY <1>13, <2>1
<1>20. After(hunks, Len(hunks)) = x[e] + 1
  <2>1. n \in 0..n
    BY <1>3
  <2> QED  BY <1>4, <1>11, <2>1 DEF e
<1>21. SubSeq(new, 0 + 1, y[e]) \o SubSeq(new, y[e] + 1, Len(new)) = SubSeq(new, 0 + 1, Len(new))
  <2> DEFINE l == Len(new)
             z == 0
  <2>1. z \in Nat /\ z <= y[e] /\ l \in Nat /\ y[e] <= l /\ l <= Len(new) /\ y[e] \in Nat
    BY <1>0, <1>12
  <2> HIDE DEF l, z
  <2>2. SubSeq(new, z + 1, y[e]) \o SubSeq(new, y[e] + 1, l) = SubSeq(new, z + 1, l)
    BY <1>8, <2>1, PartsJoin
  <2> QED  BY <2>2 DEF l, z
<1>22. SubSeq(old, 0 + 1, x[e]) \o SubSeq(old, x[e] + 1, Len(old)) = SubSeq(old, 0 + 1, Len(old))
  <2> DEFINE l == Len(old)
             z == 0
  <2>1. z \in Nat /\ z <= x[e] /\ l \in Nat /\ x[e] <= l /\ l <= Len(old) /\ x[e] \in Nat
    BY <1>0, <1>12
  <2> HIDE DEF l, z
  <2>2. SubSeq(old, z + 1, x[e]) \o SubSeq(old, x[e] + 1, l) = SubSeq(old, z + 1, l)
    BY <1>7, <2>1, PartsJoin
  <2> QED  BY <2>2 DEF l, z
<1>23. Applied(old, hunks, "insert") = new
  BY <1>13, <1>14, <1>15, <1>16, <1>20, <1>21 DEF Applied
<1>24. Applied(old, hunks, "delete") = old
  BY <1>14, <1>15, <1>17, <1>20, <1>22 DEF Applied
<1> QED  BY <1>4, <1>5, <1>18, <1>19, <1>23, <1>24

\* No hunks leave a text as it is.
LEMMA NoHunks ==
  ASSUME NEW old, IsSequence(old), NEW sign
  PROVE  Applied(old, <<>>, sign) = old /\ ChangedLines(<<>>) = 0
<1> DEFINE s == [k \in 0..0 |-> <<>>]
           z == [k \in 0..0 |-> 0]
           hunks == <<>>
<1>1. Len(hunks) = 0 /\ 0..0 = {0} /\ 1..0 = {}
  OBVIOUS
<1>2. \A k \in 0..0 : s[k] = <<>> /\ z[k] = 0
  OBVIOUS
<1>3. s = [k \in 0..0 |-> s[k]] /\ z = [k \in 0..0 |-> z[k]]
  OBVIOUS
<1>4. s[0] = <<>> /\ z[0] = 0
  BY <1>1, <1>2
<1> HIDE DEF s, z, hunks
<1>5. MakesTo(old, hunks, sign, s)
  BY <1>1, <1>3, <1>4 DEF MakesTo
<1>6. ChangesTo(hunks, z)
  BY <1>1, <1>3, <1>4 DEF ChangesTo
<1>7. Made(old, hunks, sign) = <<>>
  BY <1>1, <1>4, <1>5, ChangeMadeIs
<1>8. ChangedLines(hunks) = 0
  BY <1>1, <1>4, <1>6, ChangedLinesIs
<1>9. After(hunks, Len(hunks)) = 1
  BY <1>1 DEF After
<1>10. PICK V : old \in Seq(V)
  BY DEF IsSequence
<1>11. SubSeq(old, 1, Len(old)) = old
  BY <1>10, SubSeqFull
<1>12. <<>> \o old = old
  BY <1>10
<1>13. Applied(old, hunks, sign) = old
  BY <1>7, <1>9, <1>11, <1>12 DEF Applied
<1> QED  BY <1>8, <1>13 DEF hunks

\* What is shown of a file is its change.
AsFewAs(old, new, hunks) ==
  \A c \in 0..Len(old) : HaveInCommon(old, new, c) => ChangedLines(hunks) + 2 * c <= Len(old) + Len(new)

IsTheChange(old, new, hunks) ==
  /\ \A k \in 1..Len(hunks) : HeaderIs(old, new, hunks[k])
  /\ Applied(old, hunks, "insert") = new
  /\ Applied(old, hunks, "delete") = old
  /\ Len(old) * Len(new) <= MaxCells => AsFewAs(old, new, hunks)

\* The texts have no more lines in common than the table says.
LEMMA InCommon ==
  ASSUME NEW old, NEW new, AreTexts(old, new), NEW c \in Nat, HaveInCommon(old, new, c)
  PROVE  c <= Entry(LcsTable(old, new), 0, 0)
<1> DEFINE t == LcsTable(old, new)
           n == Len(old)
           m == Len(new)
<1>0. n \in Nat /\ m \in Nat /\ IsTable(old, new, t)
  BY TextLengths, TableIs
<1>1. PICK f \in Rising(c, n), g \in Rising(c, m) : \A k \in 1..c : old[f[k]] = new[g[k]]
  BY DEF HaveInCommon
<1>2. Match(old, new, c, f, g)
  BY <1>1 DEF Match
<1>3. f \in [1..c -> 1..n] /\ g \in [1..c -> 1..m]
  BY <1>1 DEF Rising
<1>4. (\A k \in 2..c : f[k - 1] < f[k]) /\ (\A k \in 2..c : g[k - 1] < g[k])
  BY <1>1 DEF Rising
<1>5. \A k \in 1..c : 0 < f[k] /\ 0 < g[k]
  BY <1>0, <1>3
<1> HIDE DEF n, m, t
<1>6. Rises(f, c, n, 0) /\ Rises(g, c, m, 0)
  BY <1>3, <1>4, <1>5 DEF Rises
<1>7. 0 \in 0..n /\ 0 \in 0..m
  BY <1>0
<1>8. Longest(old, new, t, 0, 0)
  BY <1>0, <1>7, TableIsLongest DEF n, m
<1> QED  BY <1>2, <1>6, <1>8 DEF Longest, n, m, t

\* An alignment shows the change, and the longest one no more than that.
LEMMA AlignmentShows ==
  ASSUME NEW old, NEW new, AreTexts(old, new), NEW ops, Walks(ops, old, new, 0, 0),
         NEW hunks, hunks = TextsOf(old, new, Hunks(ops))
  PROVE  /\ \A k \in 1..Len(hunks) : HeaderIs(old, new, hunks[k])
         /\ Applied(old, hunks, "insert") = new
         /\ Applied(old, hunks, "delete") = old
         /\ ChangedLines(hunks) = (2 * Len(ops) - Len(old)) - Len(new)
<1>1. PICK x, y : IsWalk(ops, old, new, x, y) /\ x[0] = 0 /\ y[0] = 0
  BY DEF Walks
<1> QED  BY <1>1, HunksApply

\* The alignment by the table shows as few changed lines as there can be.
LEMMA FewestShown ==
  ASSUME NEW old, NEW new, AreTexts(old, new), NEW hunks, hunks = TextsOf(old, new, Hunks(LcsOps(old, new)))
  PROVE  AsFewAs(old, new, hunks)
<1> DEFINE ops == LcsOps(old, new)
           e == Entry(LcsTable(old, new), 0, 0)
           n == Len(old)
           m == Len(new)
           l == Len(ops)
           d == ChangedLines(hunks)
<1>1. Walks(ops, old, new, 0, 0) /\ l + e = n + m
  BY LcsOpsWalk
<1>2. /\ \A k \in 1..Len(hunks) : HeaderIs(old, new, hunks[k])
      /\ Applied(old, hunks, "insert") = new
      /\ Applied(old, hunks, "delete") = old
      /\ d = (2 * l - n) - m
  BY <1>1, AlignmentShows
<1>3. n \in Nat /\ m \in Nat
  BY TextLengths
<1>4. l \in Nat
  BY <1>1 DEF Walks, IsWalk
<1>5. e \in Nat
  <2>1. 0 \in 0..n /\ 0 \in 0..m /\ IsTable(old, new, LcsTable(old, new))
    BY <1>3, TableIs
  <2> QED  BY <2>1, TableType
<1>6. \A c \in 0..n : HaveInCommon(old, new, c) => c \in Nat /\ c <= e
  BY <1>3, InCommon
<1> HIDE DEF n, m, l, e, d, ops
<1>7. \A c \in 0..n : HaveInCommon(old, new, c) => d + 2 * c <= n + m
  <2> TAKE c \in 0..n
  <2> HAVE HaveInCommon(old, new, c)
  <2>1. c \in Nat /\ c <= e
    BY <1>6
  <2> QED  BY <1>1, <1>2, <1>3, <1>4, <1>5, <2>1
<1> QED  BY <1>7 DEF AsFewAs, n, m, d

\* What is shown of a file whose contents are lines is its change.
LEMMA FileIsTheChange ==
  ASSUME NEW change, AreTexts(change.before.lines, change.after.lines)
  PROVE  IsTheChange(change.before.lines, change.after.lines, DiffFile(change))
<1> DEFINE old == change.before.lines
           new == change.after.lines
           ops == IF Len(old) * Len(new) > MaxCells THEN CoarseOps(Len(old), Len(new)) ELSE LcsOps(old, new)
           hunks == DiffFile(change)
<1>1. DiffFile(change) = TextsOf(old, new, IF change.before = change.after THEN <<>> ELSE Hunks(ops))
  BY DEF DiffFile, TextsOf, TextOf, LineOf
<1>2. Len(old) \in Nat /\ Len(new) \in Nat /\ AreTexts(old, new)
  BY TextLengths
<1>3. CASE change.before = change.after
  <2>1. hunks = <<>> /\ old = new
    BY <1>1, <1>3 DEF TextsOf
  <2>2. IsSequence(old)
    BY <1>2 DEF AreTexts
  <2> HIDE DEF old, new, hunks
  <2>3. Applied(old, hunks, "insert") = new /\ Applied(old, hunks, "delete") = old /\ ChangedLines(hunks) = 0
    BY <2>1, <2>2, NoHunks
  <2>4. 1..Len(hunks) = {}
    BY <2>1
  <2>5. \A c \in 0..Len(old) : ChangedLines(hunks) + 2 * c <= Len(old) + Len(new)
    BY <1>2, <2>1, <2>3
  <2>6. IsTheChange(old, new, hunks)
    BY <2>3, <2>4, <2>5 DEF IsTheChange, AsFewAs
  <2> QED  BY <2>6 DEF old, new, hunks
<1>4. CASE change.before # change.after
  <2>1. hunks = TextsOf(old, new, Hunks(ops))
    BY <1>1, <1>4
  <2>2. Walks(ops, old, new, 0, 0)
    BY <1>2, LcsOpsWalk, CoarseOpsWalk
  <2>3. Len(old) * Len(new) <= MaxCells => ops = LcsOps(old, new)
    <3> DEFINE p == Len(old) * Len(new)
    <3>1. p \in Nat
      <4>1. \A a \in Nat, b \in Nat : a * b \in Nat
        OBVIOUS
      <4> HIDE DEF old, new
      <4> QED  BY <1>2, <4>1
    <3>3. MaxCells \in Nat
      BY DiffAssumption
    <3> HIDE DEF p
    <3>2. p <= MaxCells => ~(p > MaxCells)
      BY <3>1, <3>3
    <3> QED  BY <3>2 DEF p
  <2> HIDE DEF old, new, hunks, ops
  <2>4. /\ \A k \in 1..Len(hunks) : HeaderIs(old, new, hunks[k])
        /\ Applied(old, hunks, "insert") = new
        /\ Applied(old, hunks, "delete") = old
        /\ ChangedLines(hunks) = (2 * Len(ops) - Len(old)) - Len(new)
    BY <1>2, <2>1, <2>2, AlignmentShows
  <2>5. Len(old) * Len(new) <= MaxCells => AsFewAs(old, new, hunks)
    BY <1>2, <2>1, <2>3, FewestShown
  <2>6. IsTheChange(old, new, hunks)
    BY <2>4, <2>5 DEF IsTheChange
  <2> QED  BY <2>6 DEF old, new, hunks
<1> QED  BY <1>3, <1>4

\* The changes are a sequence of changes of lines; the text has the files up to
\* one of them, as diff_file gives them, and all of them when it is not cut.
HasLines(change) == AreTexts(change.before.lines, change.after.lines)

DInv ==
  /\ \E V : candidate \in Seq(V)
  /\ \A k \in 1..Len(candidate) : HasLines(candidate[k])
  /\ shown \in [text : Seq({shown.text[k] : k \in DOMAIN shown.text}), truncated : BOOLEAN, done : BOOLEAN]
  /\ Len(shown.text) <= Len(candidate)
  /\ \A k \in 1..Len(shown.text) : shown.text[k] = DiffFile(candidate[k])
  /\ shown.done /\ ~shown.truncated => Len(shown.text) = Len(candidate)

\* The invariant holds before anything is rendered.
LEMMA DiffStart == DiffInit => DInv
<1> SUFFICES ASSUME DiffInit PROVE DInv
  OBVIOUS
<1>1. PICK e \in Edits : candidate = <<e>> \o Rest
  BY DEF DiffInit
<1>2. shown = [text |-> <<>>, truncated |-> FALSE, done |-> FALSE]
  BY DEF DiffInit, NotShown
<1>3. PICK V : Rest \in Seq(V)
  BY DiffAssumption DEF IsSequence
<1> DEFINE W == V \cup {e}
<1>4. Rest \in Seq(W) /\ <<e>> \in Seq(W) /\ Len(Rest) \in Nat
  <2>1. \A k \in 1..Len(Rest) : Rest[k] \in W
    BY <1>3, ElementOfSeq
  <2> QED  BY <1>3, <2>1
<1> HIDE DEF W
<1>5. /\ candidate \in Seq(W) /\ Len(candidate) = 1 + Len(Rest)
      /\ \A k \in 1..(1 + Len(Rest)) : candidate[k] = IF k <= 1 THEN e ELSE Rest[k - 1]
  <2>1. Len(<<e>>) = 1 /\ <<e>>[1] = e
    OBVIOUS
  <2>2. /\ <<e>> \o Rest \in Seq(W) /\ Len(<<e>> \o Rest) = Len(<<e>>) + Len(Rest)
        /\ \A k \in 1..(Len(<<e>>) + Len(Rest)) :
             (<<e>> \o Rest)[k] = IF k <= Len(<<e>>) THEN <<e>>[k] ELSE Rest[k - Len(<<e>>)]
    BY ONLY <1>4, ConcatProperties
  <2>3. \A k \in 1..(1 + Len(Rest)) : k <= 1 => k = 1
    BY <1>4
  <2> QED  BY <1>1, <2>1, <2>2, <2>3
<1>6. \A k \in 1..Len(candidate) : HasLines(candidate[k])
  <2> TAKE k \in 1..Len(candidate)
  <2>1. candidate[k] \in Edits \cup {Rest[l] : l \in DOMAIN Rest}
    <3>1. CASE k <= 1
      BY <1>5, <3>1
    <3>2. CASE ~(k <= 1)
      <4>1. k - 1 \in 1..Len(Rest) /\ candidate[k] = Rest[k - 1]
        BY <1>4, <1>5, <3>2
      <4>2. k - 1 \in DOMAIN Rest
        BY <1>3, <4>1
      <4> QED  BY <4>1, <4>2
    <3> QED  BY <3>1, <3>2
  <2> QED  BY <2>1, DiffAssumption DEF HasLines, AreTexts
<1>7. /\ shown.text = <<>> /\ shown.done = FALSE /\ shown.truncated = FALSE
      /\ Len(shown.text) = 0
  BY <1>2
<1>8. shown \in [text : Seq({shown.text[k] : k \in DOMAIN shown.text}), truncated : BOOLEAN, done : BOOLEAN]
  BY <1>2
<1>9. Len(shown.text) <= Len(candidate) /\ 1..Len(shown.text) = {}
  BY <1>4, <1>5, <1>7
<1> QED  BY <1>5, <1>6, <1>7, <1>8, <1>9 DEF DInv

\* Rendering a file, the end or the mark of a cut keeps it.
LEMMA DiffRenders == DInv /\ Render => DInv'
<1> SUFFICES ASSUME DInv, Render PROVE DInv'
  OBVIOUS
<1> DEFINE text == shown.text
           n == Len(text)
           k == n + 1
           rendered == DiffFile(candidate[k])
<1>1. PICK V : candidate \in Seq(V)
  BY DEF DInv
<1>2. /\ text \in Seq({text[i] : i \in DOMAIN text}) /\ shown.truncated \in BOOLEAN /\ shown.done \in BOOLEAN
      /\ n \in Nat /\ Len(candidate) \in Nat /\ n <= Len(candidate)
      /\ \A i \in 1..n : text[i] = DiffFile(candidate[i])
      /\ \A i \in 1..Len(candidate) : HasLines(candidate[i])
      /\ DOMAIN shown = {"text", "truncated", "done"}
  BY <1>1 DEF DInv
<1>3. candidate' = candidate /\ shown.done = FALSE
  BY <1>2 DEF Render
<1>4. \/ k > Len(candidate) /\ shown' = [shown EXCEPT !.done = TRUE]
      \/ shown' = [shown EXCEPT !.done = TRUE, !.truncated = TRUE]
      \/ ~(k > Len(candidate)) /\ shown' = [shown EXCEPT !.text = Append(@, rendered)]
  BY DEF Render
<1>5. shown = [text |-> text, truncated |-> shown.truncated, done |-> shown.done]
  BY DEF DInv
<1>6. CASE k > Len(candidate) /\ shown' = [shown EXCEPT !.done = TRUE]
  <2>1. shown' = [text |-> text, truncated |-> shown.truncated, done |-> TRUE]
    BY <1>5, <1>6
  <2>2. shown'.text = text /\ shown'.done = TRUE /\ shown'.truncated = shown.truncated
    BY <2>1
  <2>3. n = Len(candidate)
    BY <1>2, <1>6
  <2>4. shown' \in [text : Seq({text[i] : i \in DOMAIN text}), truncated : BOOLEAN, done : BOOLEAN]
    BY <1>2, <2>1
  <2> QED  BY <1>1, <1>2, <1>3, <2>2, <2>3, <2>4 DEF DInv
<1>7. CASE shown' = [shown EXCEPT !.done = TRUE, !.truncated = TRUE]
  <2>1. shown' = [text |-> text, truncated |-> TRUE, done |-> TRUE]
    BY <1>5, <1>7
  <2>2. shown'.text = text /\ shown'.done = TRUE /\ shown'.truncated = TRUE
    BY <2>1
  <2>4. shown' \in [text : Seq({text[i] : i \in DOMAIN text}), truncated : BOOLEAN, done : BOOLEAN]
    BY <1>2, <2>1
  <2> QED  BY <1>1, <1>2, <1>3, <2>2, <2>4 DEF DInv
<1>8. CASE ~(k > Len(candidate)) /\ shown' = [shown EXCEPT !.text = Append(@, rendered)]
  <2> DEFINE more == Append(text, rendered)
             W == {text[i] : i \in DOMAIN text} \cup {rendered}
  <2>1. shown' = [text |-> more, truncated |-> shown.truncated, done |-> FALSE]
    BY <1>3, <1>5, <1>8
  <2>2. shown'.text = more /\ shown'.done = FALSE /\ shown'.truncated = shown.truncated
    BY <2>1
  <2>3. text \in Seq(W) /\ rendered \in W
    <3>1. \A i \in 1..n : text[i] \in W
      BY <1>2
    <3> QED  BY <1>2, <3>1
  <2> HIDE DEF W, rendered
  <2>4. more \in Seq(W) /\ Len(more) = n + 1
    BY <2>3, AppendProperties
  <2>5. \A i \in 1..n : more[i] = text[i]
    BY <2>3, AppendProperties
  <2>6. more[n + 1] = rendered
    BY <2>3, AppendProperties
  <2> HIDE DEF more
  <2>7. \A i \in 1..Len(more) : more[i] = DiffFile(candidate[i])
    <3> TAKE i \in 1..Len(more)
    <3>1. i \in 1..n \/ i = n + 1
      BY <1>2, <2>4
    <3> QED  BY <1>2, <2>5, <2>6, <3>1 DEF rendered
  <2>8. more \in Seq({more[i] : i \in DOMAIN more})
    BY <2>4, ElementOfSeq
  <2>9. shown' \in [text : Seq({more[i] : i \in DOMAIN more}), truncated : BOOLEAN, done : BOOLEAN]
    BY <1>2, <2>1, <2>8
  <2>10. Len(more) <= Len(candidate)
    BY <1>2, <1>8, <2>4
  <2> QED  BY <1>1, <1>2, <1>3, <2>2, <2>7, <2>9, <2>10 DEF DInv
<1> QED  BY <1>4, <1>6, <1>7, <1>8

\* What it says of the text is what a reader is promised.
LEMMA DInvShows == DInv => DiffIsTheChange
<1> SUFFICES ASSUME DInv PROVE DiffIsTheChange
  OBVIOUS
<1>1. ASSUME NEW k \in 1..Len(shown.text)
      PROVE  IsTheChange(candidate[k].before.lines, candidate[k].after.lines, shown.text[k])
  <2>1. Len(shown.text) \in Nat /\ Len(candidate) \in Nat /\ Len(shown.text) <= Len(candidate)
    BY DEF DInv
  <2>2. shown.text[k] = DiffFile(candidate[k]) /\ HasLines(candidate[k])
    BY <2>1 DEF DInv
  <2> QED  BY <2>2, FileIsTheChange DEF HasLines
<1>2. shown.done /\ ~shown.truncated => Len(shown.text) = Len(candidate)
  BY DEF DInv
<1> QED  BY <1>1, <1>2 DEF DiffIsTheChange, IsTheChange, HeaderIs, AsFewAs

\* It says nothing of what else changes.
LEMMA DiffStays == DInv /\ UNCHANGED diffVars => DInv'
BY DEF DInv, diffVars

\* The diff that the challenger and the repair loop see is the change: applied
\* to the old lines it gives the new ones, taken back the old ones, its headers
\* are right, and no line is shown as changed without need.
THEOREM DiffsAreChanges == DiffSpec => []DiffIsTheChange
<1>1. DiffInit => DInv
  BY DiffStart
<1>2. DInv /\ [DiffNext]_diffVars => DInv'
  BY DiffRenders, DiffStays DEF DiffNext
<1>3. DInv => DiffIsTheChange
  BY DInvShows
<1> QED  BY <1>1, <1>2, <1>3, PTL DEF DiffSpec
=============================================================================
