------------------------------ MODULE EventLog ------------------------------
(***************************************************************************)
(* The log of events that run and hunt keep (core/events.rs) and logs reads *)
(* (cli/commands/logs.rs).  A command emits its events to a channel of its  *)
(* own; a task of the same process takes them from there and appends them   *)
(* to one file, which the tasks of all commands share.  An event is written *)
(* as its text and then the end of its line, two writes between which the   *)
(* others write.                                                            *)
(***************************************************************************)
EXTENDS Naturals, Sequences

CONSTANTS
  Commands,    \* commands that log, in processes of their own
  Capacity,    \* events the channel holds: 256
  MaxHistory,  \* events the bus remembers: 1000
  EventTypes   \* bound: the types of the events a command emits, in order

ASSUME EventLogAssumption ==
  /\ "none" \notin Commands
  /\ Capacity \in Nat \ {0} /\ MaxHistory \in Nat
  /\ Len(EventTypes) \in Nat

VARIABLES
  command,  \* whether a command runs, has returned or was killed
  history,  \* what the bus of a command remembers
  sent,     \* number of events a command emitted
  logger,   \* the task that logs: where it is, and the event it is at
  file,     \* events.jsonl, write by write
  failed    \* history: a write or an opening of the file failed

logVars == <<command, history, sent, logger, file, failed>>

LineEnd == [by |-> "none", number |-> 0]
Event(c, n) == [by |-> c, number |-> n]

EventRecord == [by : Commands, number : Nat \ {0}]

LogTypeOK ==
  /\ command \in [Commands -> {"runs", "returned", "killed"}]
  /\ history \in [Commands -> Seq(Nat)]
  /\ sent \in [Commands -> Nat]
  /\ logger \in [Commands -> [at : {"waits", "text", "end", "ended"}, next : Nat \ {0}]]
  /\ file \in Seq(EventRecord \cup {LineEnd})
  /\ failed \in BOOLEAN

\* A command subscribes its logger before the pipeline emits anything.
LogInit ==
  /\ command = [c \in Commands |-> "runs"]
  /\ history = [c \in Commands |-> <<>>]
  /\ sent = [c \in Commands |-> 0]
  /\ logger = [c \in Commands |-> [at |-> "waits", next |-> 1]]
  /\ file = <<>> /\ failed = FALSE

LastOf(s, n) == IF Len(s) > n THEN SubSeq(s, Len(s) - n + 1, Len(s)) ELSE s

\* emit: it waits for nobody; without a receiver the event is lost.
Emit(c) ==
  /\ command[c] = "runs" /\ sent[c] < Len(EventTypes)
  /\ sent' = [sent EXCEPT ![c] = @ + 1]
  /\ history' = [history EXCEPT ![c] = LastOf(Append(@, sent[c] + 1), MaxHistory)]
  /\ UNCHANGED <<command, logger, file, failed>>

\* The command returns, with its result or an error, and drops its bus.
Return(c) ==
  /\ command[c] = "runs"
  /\ command' = [command EXCEPT ![c] = "returned"]
  /\ UNCHANGED <<history, sent, logger, file, failed>>

\* The process is killed, perhaps between the two writes of an event.
Kill(c) ==
  /\ command[c] # "killed" /\ logger[c].at # "ended"
  /\ command' = [command EXCEPT ![c] = "killed"]
  /\ logger' = [logger EXCEPT ![c].at = "ended"]
  /\ UNCHANGED <<history, sent, file, failed>>

Lagged(c) == sent[c] >= logger[c].next + Capacity

\* The task waits for the event after the one it is at.
Advance(c) == logger' = [logger EXCEPT ![c] = [at |-> "waits", next |-> logger[c].next + 1]]

\* Seeded fault: after a lag the task goes on with the oldest event there is.
ReceiveAfterLag(c, opens) ==
  /\ logger[c].at = "waits" /\ logger[c].next <= sent[c]
  /\ LET at == IF Lagged(c) THEN sent[c] + 1 - Capacity ELSE logger[c].next
     IN logger' = [logger EXCEPT ![c] = IF opens THEN [at |-> "text", next |-> at]
                                        ELSE [at |-> "waits", next |-> at + 1]]
  /\ failed' = (failed \/ ~opens)
  /\ UNCHANGED <<command, history, sent, file>>

\* recv: an event that is still in the channel is handled, and left out if the
\* file cannot be opened; the first answer that is an error, a lag too, ends
\* the task.
Receive(c, opens) ==
  /\ logger[c].at = "waits" /\ logger[c].next <= sent[c]
  /\ IF Lagged(c) THEN opens /\ logger' = [logger EXCEPT ![c].at = "ended"]
     ELSE IF opens THEN logger' = [logger EXCEPT ![c].at = "text"]
     ELSE Advance(c)
  /\ failed' = (failed \/ ~opens)
  /\ UNCHANGED <<command, history, sent, file>>

\* handle: the text, and then the end of the line; after an error of the first
\* write there is no second, and nobody hears of it.
WriteText(c, ok) ==
  /\ logger[c].at = "text"
  /\ IF ok THEN /\ file' = Append(file, Event(c, logger[c].next))
                /\ logger' = [logger EXCEPT ![c].at = "end"]
     ELSE Advance(c) /\ UNCHANGED file
  /\ failed' = (failed \/ ~ok)
  /\ UNCHANGED <<command, history, sent>>

WriteEnd(c, ok) ==
  /\ logger[c].at = "end"
  /\ file' = IF ok THEN Append(file, LineEnd) ELSE file
  /\ Advance(c)
  /\ failed' = (failed \/ ~ok)
  /\ UNCHANGED <<command, history, sent>>

\* The process ends where the task waits, or the task finds the channel closed;
\* nobody waits for it: what is still in the channel is not logged.
StopLogger(c) ==
  /\ command[c] = "returned" /\ logger[c].at = "waits"
  /\ logger' = [logger EXCEPT ![c].at = "ended"]
  /\ UNCHANGED <<command, history, sent, file, failed>>

LogNext ==
  \E c \in Commands :
    \/ Emit(c) \/ Return(c) \/ Kill(c) \/ StopLogger(c)
    \/ \E ok \in BOOLEAN : Receive(c, ok) \/ WriteText(c, ok) \/ WriteEnd(c, ok)

LogSpec == LogInit /\ [][LogNext]_logVars

-----------------------------------------------------------------------------
(* logs *)

\* The file line by line: what was written between two ends of lines.
FileLines ==
  LET Upto[k \in 0..Len(file)] ==
        IF k = 0 THEN <<<<>>>>
        ELSE IF file[k] = LineEnd THEN Append(Upto[k - 1], <<>>)
        ELSE [Upto[k - 1] EXCEPT ![Len(Upto[k - 1])] = Append(@, file[k])]
  IN Upto[Len(file)]

\* The elements of a sequence at some positions, in order.
Chosen(s, at) ==
  LET Upto[k \in 0..Len(s)] ==
        IF k = 0 THEN <<>>
        ELSE IF k \in at THEN Append(Upto[k - 1], s[k]) ELSE Upto[k - 1]
  IN Upto[Len(s)]

\* Two texts on one line are no event; the line is skipped.
ReadEvents ==
  LET lines == Chosen(FileLines, {k \in 1..Len(FileLines) : Len(FileLines[k]) = 1})
  IN [k \in 1..Len(lines) |-> lines[k][1]]

\* Seeded fault: a full buffer drops the newest event.
KeepOldest(kept, tail, event) ==
  IF Len(kept) = tail THEN kept ELSE Append(kept, event)

\* The buffer of the last events: a full one drops its oldest.
KeepLast(kept, tail, event) ==
  Append(IF Len(kept) = tail /\ kept # <<>> THEN Tail(kept) ELSE kept, event)

\* run_logs with a number of events and the types the filter matches.
ShownEvents(events, tail, types) ==
  LET Upto[k \in 0..Len(events)] ==
        IF k = 0 THEN <<>>
        ELSE IF EventTypes[events[k].number] \notin types THEN Upto[k - 1]
        ELSE KeepLast(Upto[k - 1], tail, events[k])
  IN Upto[Len(events)]

-----------------------------------------------------------------------------
(* What the log promises. *)

\* Whatever tasks wrote between each other's writes and wherever they were
\* killed, logs shows the last events of the wanted types that are readable,
\* those of one command in the order in which it emitted them and none twice.
LogsShowTheLast ==
  LET events == ReadEvents IN
  \A types \in {{EventTypes[1]}, {EventTypes[k] : k \in 1..Len(EventTypes)}}, tail \in 1..2 :
    LET wanted == {k \in 1..Len(events) : EventTypes[events[k].number] \in types}
        shown == ShownEvents(events, tail, types)
    IN /\ shown = LastOf(Chosen(events, wanted), tail)
       /\ \A i, j \in 1..Len(shown) :
            i < j /\ shown[i].by = shown[j].by => shown[i].number < shown[j].number

\* As long as no write fails the file has no hole: of every command it holds the
\* first events, in order, up to one behind which it holds none, and between two
\* of them a line ends, so that an event which cannot be read stands on a line
\* with one of another command.
LogHasNoHole ==
  ~failed =>
    \A k \in 1..Len(file) : file[k] # LineEnd =>
      /\ file[k].number <= sent[file[k].by]
      /\ \A n \in 1..(file[k].number - 1) : \E j \in 1..(k - 1) : file[j] = Event(file[k].by, n)
      /\ \A j \in 1..(k - 1) : file[j].by = file[k].by =>
           /\ file[j].number < file[k].number
           /\ \E m \in (j + 1)..(k - 1) : file[m] = LineEnd
=============================================================================
