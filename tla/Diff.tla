-------------------------------- MODULE Diff --------------------------------
(***************************************************************************)
(* The diff that the challenger and the repair loop see                     *)
(* (core/unified_diff.rs): an alignment of the lines of a file by their     *)
(* longest common subsequence, grouped into hunks with context, for every   *)
(* file of the candidate until the text is full.                            *)
(***************************************************************************)
EXTENDS Naturals, Sequences, FiniteSets

CONSTANTS
  Edits,        \* pairs of contents, before and after, of a changed file
  Rest,         \* the changes after that file
  Context,      \* lines shown around a change
  MaxCells,     \* a longer table is not computed: the file is replaced whole
  MaxShown      \* lines of the text (MAX_DIFF_BYTES)

VARIABLES
  candidate,    \* the changes
  shown         \* the rendered bundle

diffVars == <<candidate, shown>>

\* The changes are a sequence, and their contents are sequences of lines.
IsSequence(s) == s \in Seq({s[k] : k \in DOMAIN s})

ASSUME DiffAssumption ==
  /\ Context \in Nat /\ MaxCells \in Nat
  /\ IsSequence(Rest)
  /\ \A change \in Edits \cup {Rest[k] : k \in DOMAIN Rest} :
       IsSequence(change.before.lines) /\ IsSequence(change.after.lines)

NotShown == [text |-> <<>>, truncated |-> FALSE, done |-> FALSE]

DiffInit == /\ candidate \in {<<e>> \o Rest : e \in Edits}
            /\ shown = NotShown

Keep(i, j) == [op |-> "keep", old |-> i, new |-> j]
Delete(i) == [op |-> "delete", old |-> i, new |-> 0]
Insert(j) == [op |-> "insert", old |-> 0, new |-> j]

CoarseOps(n, m) == [k \in 1..(n + m) |-> IF k <= n THEN Delete(k) ELSE Insert(k - n)]

\* The table of lcs_ops: the common length of what follows <<i, j>>.
LcsTable(old, new) ==
  LET n == Len(old)
      m == Len(new)
      Table[p \in (0..n) \X (0..m)] ==
        LET i == p[1]
            j == p[2]
        IN IF i = n \/ j = m THEN 0
           ELSE IF old[i + 1] = new[j + 1] THEN Table[<<i + 1, j + 1>>] + 1
           ELSE IF Table[<<i + 1, j>>] >= Table[<<i, j + 1>>]
                THEN Table[<<i + 1, j>>] ELSE Table[<<i, j + 1>>]
  IN Table

\* lcs_ops: ties prefer a deletion, and what remains of one side comes last.
LcsOps(old, new) ==
  LET n == Len(old)
      m == Len(new)
      table == LcsTable(old, new)
      Ops[p \in (0..n) \X (0..m)] ==
        LET i == p[1]
            j == p[2]
        IN IF i = n /\ j = m THEN <<>>
           ELSE IF i < n /\ j < m /\ old[i + 1] = new[j + 1]
           THEN <<Keep(i + 1, j + 1)>> \o Ops[<<i + 1, j + 1>>]
           ELSE IF j = m \/ (i < n /\ table[<<i + 1, j>>] >= table[<<i, j + 1>>])
           THEN <<Delete(i + 1)>> \o Ops[<<i + 1, j>>]
           ELSE <<Insert(j + 1)>> \o Ops[<<i, j + 1>>]
  IN Ops[<<0, 0>>]

\* The positions of the alignment that hunks show: those within the context of
\* a change; two changes whose contexts touch are in one hunk.
Ranges(ops) ==
  LET changed == {i \in 1..Len(ops) : ops[i].op # "keep"}
      Shown(i) == \E c \in changed : c <= i + Context /\ i <= c + Context
  IN {i \in 1..Len(ops) : Shown(i)}

Count(ops, side, from, to) == Cardinality({i \in from..to : ops[i].op \in {"keep", side}})

\* Seeded fault: headers count lines from zero.
HunkFromZero(ops, from, to) ==
  [oldAt |-> Count(ops, "delete", 1, from - 1), oldCount |-> Count(ops, "delete", from, to),
   newAt |-> Count(ops, "insert", 1, from - 1), newCount |-> Count(ops, "insert", from, to),
   ops |-> SubSeq(ops, from, to)]

\* hunks: a header with the first line and the number of lines on each side,
\* or with the line before where a side has none.
Hunk(ops, from, to) ==
  LET At(side) == LET count == Count(ops, side, from, to)
                  IN Count(ops, side, 1, from - 1) + (IF count = 0 THEN 0 ELSE 1)
  IN [oldAt |-> At("delete"), oldCount |-> Count(ops, "delete", from, to),
      newAt |-> At("insert"), newCount |-> Count(ops, "insert", from, to),
      ops |-> SubSeq(ops, from, to)]

Hunks(ops) ==
  LET at == Ranges(ops)
      End(i) == CHOOSE e \in at : i <= e /\ i..e \subseteq at /\ e + 1 \notin at
      From[k \in 0..Len(ops)] ==
        IF k = 0 THEN <<>>
        ELSE IF k \in at /\ k - 1 \notin at THEN Append(From[k - 1], Hunk(ops, k, End(k)))
        ELSE From[k - 1]
  IN From[Len(ops)]

\* diff_file: the headers of the file, and hunks with the lines themselves.  A
\* line is what stands between line ends, so that a change of these shows nothing.
DiffFile(change) ==
  LET old == change.before.lines
      new == change.after.lines
      ops == IF Len(old) * Len(new) > MaxCells THEN CoarseOps(Len(old), Len(new)) ELSE LcsOps(old, new)
      Line(o) == <<o.op, IF o.op = "insert" THEN new[o.new] ELSE old[o.old]>>
      Text(h) == [h EXCEPT !.ops = [k \in 1..Len(h.ops) |-> Line(h.ops[k])]]
      hunks == IF change.before = change.after THEN <<>> ELSE Hunks(ops)
  IN [k \in 1..Len(hunks) |-> Text(hunks[k])]

Size(hunks) ==
  LET Sum[k \in 0..Len(hunks)] == IF k = 0 THEN 2 ELSE Sum[k - 1] + 1 + Len(hunks[k].ops)
  IN Sum[Len(hunks)]

\* render: the next file, or the mark that the text ends here.
Render ==
  LET k == Len(shown.text) + 1
      Used[f \in 0..Len(shown.text)] == IF f = 0 THEN 0 ELSE Used[f - 1] + Size(shown.text[f])
  IN /\ ~shown.done
     /\ shown' =
          IF k > Len(candidate) THEN [shown EXCEPT !.done = TRUE]
          ELSE IF Used[k - 1] + Size(DiffFile(candidate[k])) > MaxShown
          THEN [shown EXCEPT !.done = TRUE, !.truncated = TRUE]
          ELSE [shown EXCEPT !.text = Append(@, DiffFile(candidate[k]))]
     /\ UNCHANGED candidate

DiffNext == Render
DiffSpec == DiffInit /\ [][DiffNext]_diffVars

\* What a reader makes of hunks: the old lines between them, and in each hunk
\* the lines with a certain sign.
First(h) == IF h.oldCount = 0 THEN h.oldAt + 1 ELSE h.oldAt
After(hunks, k) == IF k = 0 THEN 1 ELSE First(hunks[k]) + hunks[k].oldCount
Said(h, sign) ==
  LET From[k \in 0..Len(h.ops)] ==
        IF k = 0 THEN <<>>
        ELSE IF h.ops[k][1] \in {"keep", sign} THEN Append(From[k - 1], h.ops[k][2]) ELSE From[k - 1]
  IN From[Len(h.ops)]
Made(old, hunks, sign) ==
  LET Upto[k \in 0..Len(hunks)] ==
        IF k = 0 THEN <<>>
        ELSE (Upto[k - 1] \o SubSeq(old, After(hunks, k - 1), First(hunks[k]) - 1)) \o Said(hunks[k], sign)
  IN Upto[Len(hunks)]
Applied(old, hunks, sign) == Made(old, hunks, sign) \o SubSeq(old, After(hunks, Len(hunks)), Len(old))

\* The lines that hunks show as changed.
ChangedLines(hunks) ==
  LET Upto[k \in 0..Len(hunks)] ==
        IF k = 0 THEN 0
        ELSE Upto[k - 1] + Cardinality({i \in 1..Len(hunks[k].ops) : hunks[k].ops[i][1] # "keep"})
  IN Upto[Len(hunks)]

\* There are so many lines in the old text and in the new one, in order, that
\* are the same.
Rising(c, n) == {f \in [1..c -> 1..n] : \A k \in 2..c : f[k - 1] < f[k]}
HaveInCommon(old, new, c) ==
  \E f \in Rising(c, Len(old)), g \in Rising(c, Len(new)) : \A k \in 1..c : old[f[k]] = new[g[k]]

\* What is shown of a file is its change: applying the hunks where their headers
\* say gives the new lines, taking them back gives the old, the new line numbers
\* are those of the new file, and no line is shown as changed without need (no
\* longer common subsequence exists) unless the file is replaced whole.  A text
\* that is not marked as truncated shows every file.
DiffIsTheChange ==
  LET Shows(change, hunks) ==
        LET old == change.before.lines
            new == change.after.lines
        IN /\ \A k \in 1..Len(hunks) : LET h == hunks[k] IN
                /\ h.oldCount > 0 => h.oldAt \in 1..Len(old)
                /\ h.newCount > 0 => h.newAt \in 1..Len(new)
           /\ Applied(old, hunks, "insert") = new
           /\ Applied(old, hunks, "delete") = old
           /\ \A k \in 1..Len(hunks) : LET h == hunks[k] IN
                h.newCount > 0 /\ h.ops[1][1] # "delete" => new[h.newAt] = h.ops[1][2]
           /\ Len(old) * Len(new) <= MaxCells =>
                \A c \in 0..Len(old) : HaveInCommon(old, new, c) => ChangedLines(hunks) + 2 * c <= Len(old) + Len(new)
  IN /\ \A k \in 1..Len(shown.text) : Shows(candidate[k], shown.text[k])
     /\ shown.done /\ ~shown.truncated => Len(shown.text) = Len(candidate)
=============================================================================
