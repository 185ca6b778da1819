-------------------------- MODULE ContextCompressor --------------------------
(***************************************************************************)
(* How the files of a repository are cut to the room an analysis has for    *)
(* them (analysis/compressor.rs).  Sizes and limits are counted in bytes,   *)
(* the parts of a cut file in characters; of a text only the number of its  *)
(* characters and the bytes of each of them matter.                         *)
(***************************************************************************)
EXTENDS Naturals, FiniteSets

CONSTANTS
  Projects,    \* what was read: file -> text
  MaxTokens,   \* max_context_tokens
  FileTokens   \* tokens a file may take: 3000

Content(chars, width) == [chars |-> chars, width |-> width]
Bytes(text) == text.chars * text.width

\* A file that a host serves is far below a gigabyte.
ASSUME ContextAssumption ==
  /\ MaxTokens \in Nat /\ FileTokens \in Nat
  /\ \A project \in Projects : \A f \in DOMAIN project :
       /\ project[f] = Content(project[f].chars, project[f].width)
       /\ project[f].chars \in Nat /\ project[f].width \in Nat \ {0}
       /\ Bytes(project[f]) < 1000000000

CharsPerToken == 4
MarkerSize == 60
Budget == MaxTokens * CharsPerToken

VARIABLES
  texts,  \* the files that were read
  left,   \* files that were not looked at
  used,   \* total_chars: bytes of what was taken
  taken,  \* what was taken of a file
  ready   \* whether the context is complete

contextVars == <<texts, left, used, taken, ready>>

ContextAt(project) ==
  /\ texts = project /\ left = DOMAIN project
  /\ used = 0 /\ taken = [f \in {} |-> <<>>] /\ ready = FALSE

ContextInit == \E project \in Projects : ContextAt(project)

Less(a, b) == IF a > b THEN a - b ELSE 0
Fewer(a, b) == IF a < b THEN a ELSE b

Powers == <<10, 100, 1000, 10000, 100000, 1000000, 10000000, 100000000, 1000000000>>
Digits(n) == CHOOSE d \in 1..9 : n < Powers[d] /\ (d = 1 \/ n >= Powers[d - 1])

\* The marker between the parts tells the omitted characters and tokens.
Marker(omitted) == 39 + Digits(omitted) + Digits(omitted \div CharsPerToken)

Piece(head, tail, bytes) == [head |-> head, tail |-> tail, bytes |-> bytes]
Whole(text) == Piece(text.chars, 0, Bytes(text))

\* Seeded fault: the marker takes no room.
TruncateMiddleUnmarked(text, max) ==
  LET head == (max * 6) \div 10
      tail == Less(max, head)
      first == Fewer(text.chars, head)
      last == Less(text.chars, Bytes(text) - tail)
  IN IF Bytes(text) <= max THEN Whole(text)
     ELSE Piece(first, last, (first + last) * text.width + Marker(Bytes(text) - head - tail))

\* truncate_middle: six tenths from the start, the rest but for the marker from
\* the end.  The limit is bytes, but as many characters are taken from the
\* start, and as many are skipped before the end as the text has bytes there.
TruncateMiddle(text, max) ==
  LET head == (max * 6) \div 10
      tail == Less(max, head + MarkerSize)
      first == Fewer(text.chars, head)
      last == Less(text.chars, Bytes(text) - tail)
  IN IF Bytes(text) <= max THEN Whole(text)
     ELSE IF tail = 0 THEN Piece(Fewer(text.chars, max), 0, Fewer(text.chars, max) * text.width)
     ELSE Piece(first, last, (first + last) * text.width + Marker(Bytes(text) - head - tail))

Room == Less(Budget, used)
Limit == Fewer(FileTokens * CharsPerToken, Room)

\* compress_files: the smallest file that is left, as long as there is room.
TakeFile(f) ==
  /\ ~ready /\ f \in left /\ Room > 0
  /\ \A g \in left : Bytes(texts[f]) <= Bytes(texts[g])
  /\ LET piece == TruncateMiddle(texts[f], Limit)
     IN /\ taken' = [g \in DOMAIN taken \cup {f} |-> IF g = f THEN piece ELSE taken[g]]
        /\ used' = used + piece.bytes
  /\ left' = left \ {f}
  /\ UNCHANGED <<texts, ready>>

CloseContext ==
  /\ ~ready /\ (left = {} \/ Room = 0)
  /\ ready' = TRUE
  /\ UNCHANGED <<texts, left, used, taken>>

ContextNext == CloseContext \/ \E f \in left : TakeFile(f)

ContextSpec == ContextInit /\ [][ContextNext]_contextVars

IsWhole(f) == taken[f] = Whole(texts[f])

\* As long as a character is a byte the files fit the budget, however many are
\* cut: the marker of a cut file is part of its limit.  What is left out is no
\* smaller than what was taken and was left out for want of room, and a file is
\* cut only if it is larger than a file may be or than the room that was left.
NarrowContextFits ==
  (\A f \in DOMAIN texts : texts[f].width = 1) =>
    /\ used <= Budget
    /\ \A f \in DOMAIN taken, g \in left : Bytes(texts[f]) <= Bytes(texts[g])
    /\ ready => left = {} \/ used = Budget
    /\ \A f \in DOMAIN taken : ~IsWhole(f) =>
         \/ Bytes(texts[f]) > FileTokens * CharsPerToken
         \/ used - taken[f].bytes + Bytes(texts[f]) > Budget
=============================================================================
