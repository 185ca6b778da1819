----------------------------- MODULE Generator -----------------------------
(***************************************************************************)
(* The generation of a contribution (generator/): the model is asked twice  *)
(* at most for changes, its answer is parsed, edits are searched in the     *)
(* file by four strategies, the changes are validated, ordered and reviewed *)
(* by the model.  A text is what split('\n') makes of it, a sequence of      *)
(* lines, the last one empty where the text ends with a line end; a line is *)
(* words and gaps of white space between and around them.  Words that come  *)
(* to meet without a gap stay two.                                         *)
(***************************************************************************)
EXTENDS Naturals, Sequences, FiniteSets

CONSTANTS
  Vocabulary,   \* the words of texts
  Sources,      \* relevant_files: path -> text
  Answers,      \* what the model may answer
  Importers,    \* path -> number of files that seem to import it
  MaxChanges,   \* max_changes_per_pr
  LongSearch,   \* words of a search that is long enough to be searched loosely
  SelfReview    \* self_review_enabled

VARIABLES
  turn,         \* where the generation is
  answer,       \* the answer that is looked at
  proposal      \* the contribution

Gap == " "
Lines == Seq(Vocabulary \cup {Gap})
Texts == Seq(Lines) \ {<<>>}
EditLists == Seq([search : Texts, by : Texts])
Items == [path : DOMAIN Importers, edits : EditLists, text : Texts, new : BOOLEAN]

\* What is read and what is answered are texts, and a path has its importers.
ASSUME GeneratorAssumption ==
  /\ Gap \notin Vocabulary
  /\ \A path \in DOMAIN Sources : Sources[path] \in Texts
  /\ Importers \in [DOMAIN Importers -> Nat]
  /\ \A given \in Answers : given.items \in Seq(Items)
  /\ MaxChanges \in Nat /\ LongSearch \in Nat

generatorVars == <<turn, answer, proposal>>

NoAnswer == [form |-> "none", items |-> <<>>]

GeneratorInit == turn = "first" /\ answer = NoAnswer /\ proposal = <<>>

Empty == << <<>> >>
Filled(line) == {k \in 1..Len(line) : line[k] # Gap}
LineWords(line) ==
  LET Upto[k \in 0..Len(line)] ==
        IF k = 0 THEN <<>>
        ELSE IF line[k] = Gap THEN Upto[k - 1] ELSE Append(Upto[k - 1], line[k])
  IN Upto[Len(line)]
Words(text) ==
  LET Upto[k \in 0..Len(text)] == IF k = 0 THEN <<>> ELSE Upto[k - 1] \o LineWords(text[k])
  IN Upto[Len(text)]

Lowest(S) == CHOOSE i \in S : \A j \in S : i <= j
Highest(S) == CHOOSE i \in S : \A j \in S : j <= i
TrimStart(line) == IF Filled(line) = {} THEN <<>> ELSE SubSeq(line, Lowest(Filled(line)), Len(line))
TrimEnd(line) == IF Filled(line) = {} THEN <<>> ELSE SubSeq(line, 1, Highest(Filled(line)))

Block(text, i, n) == SubSeq(text, i, i + n - 1)
Replaced(text, i, n, by) == SubSeq(text, 1, i - 1) \o by \o SubSeq(text, i + n, Len(text))

\* A text where something stands before it in its first line, and behind it in
\* its last line.
Wrapped(before, text, behind) ==
  [k \in 1..Len(text) |-> (IF k = 1 THEN before ELSE <<>>) \o text[k]
                            \o (IF k = Len(text) THEN behind ELSE <<>>)]

\* The places, by line and column, where a text contains another.
Positions(text) == UNION {{i} \X (0..Len(text[i])) : i \in 1..Len(text)}
Before(text, p) == SubSeq(text[p[1]], 1, p[2])
Behind(text, p, search) ==
  LET n == Len(search)
      line == text[p[1] + n - 1]
      used == Len(search[n]) + (IF n = 1 THEN p[2] ELSE 0)
  IN SubSeq(line, used + 1, Len(line))
Places(text, search) ==
  {p \in Positions(text) :
     /\ p[1] + Len(search) <= Len(text) + 1
     /\ Block(text, p[1], Len(search)) = Wrapped(Before(text, p), search, Behind(text, p, search))}
FirstPlace(P) == CHOOSE p \in P : \A q \in P : p[1] < q[1] \/ (p[1] = q[1] /\ p[2] <= q[2])

\* str::replacen, once.
Spliced(text, p, search, by) ==
  Replaced(text, p[1], Len(search), Wrapped(Before(text, p), by, Behind(text, p, search)))

\* Strategy 2 searches the text without the white space at the ends of lines.
Normal(text) == [k \in 1..Len(text) |-> TrimEnd(text[k])]

\* str::trim of a text: blank lines at its ends, and the space around the rest.
Trimmed(text) ==
  LET full == {i \in 1..Len(text) : Filled(text[i]) # {}}
      core == SubSeq(text, Lowest(full), Highest(full))
      ended == [core EXCEPT ![Len(core)] = TrimEnd(@)]
  IN IF full = {} THEN Empty ELSE [ended EXCEPT ![1] = TrimStart(@)]

\* word_overlap_ratio: the common words, each as often as both have it, over
\* the average length; here in tenths.
Common(a, b) ==
  LET Times(w, s) == Cardinality({k \in 1..Len(s) : s[k] = w})
  IN Cardinality({i \in 1..Len(a) : Times(a[i], SubSeq(a, 1, i)) <= Times(a[i], b)})
Overlap(a, b) ==
  IF a = <<>> /\ b = <<>> THEN 10
  ELSE (20 * Common(a, b)) \div (Len(a) + Len(b))

\* str::lines, and lines joined again: the line end of the text is lost.
WithoutEnd(text) == IF text # <<>> /\ text[Len(text)] = <<>> THEN SubSeq(text, 1, Len(text) - 1) ELSE text
AsText(lines) == IF lines = <<>> THEN Empty ELSE lines

\* fuzzy_replace: the first of the windows that overlap most, if that is 0.8.
FuzzyPlaces(text, search) ==
  LET lines == WithoutEnd(text)
      n == Len(WithoutEnd(search))
      At == 1..(Len(lines) + 1 - n)
      Window(i) == Words(Block(lines, i, n))
      Size(i) == Len(Words(search)) + Len(Window(i))
      Better(i, j) == Common(Words(search), Window(i)) * Size(j) >= Common(Words(search), Window(j)) * Size(i)
  IN IF n = 0 \/ n > Len(lines) THEN {}
     ELSE {i \in At : Overlap(Words(search), Window(i)) >= 8 /\ \A j \in At : Better(i, j)}

NotFound == [found |-> FALSE]
Found(text) == [found |-> TRUE, text |-> text]

\* Seeded fault: the normalized strategy takes one line more.
ApplySingleEditOneMore(text, search, by) ==
  LET exact == Places(text, search)
      near == Places(Normal(text), Normal(search))
  IN IF exact # {} THEN Found(Spliced(text, FirstPlace(exact), search, by))
     ELSE IF near # {} THEN Found(Replaced(text, FirstPlace(near)[1], Len(search) + 1, by))
     ELSE NotFound

\* apply_single_edit.  The second strategy puts the replacement in the place of
\* whole lines, whatever else stands in the first and the last of them.
ApplySingleEdit(text, search, by) ==
  LET exact == Places(text, search)
      near == Places(Normal(text), Normal(search))
      long == Len(Words(search)) >= LongSearch
      inside == IF long THEN Places(text, Trimmed(search)) ELSE {}
      fuzzy == IF long THEN FuzzyPlaces(text, search) ELSE {}
  IN IF exact # {} THEN Found(Spliced(text, FirstPlace(exact), search, by))
     ELSE IF near # {} THEN Found(Replaced(text, FirstPlace(near)[1], Len(search), by))
     ELSE IF inside # {} THEN Found(Spliced(text, FirstPlace(inside), Trimmed(search), Trimmed(by)))
     ELSE IF fuzzy # {}
     THEN Found(AsText(Replaced(WithoutEnd(text), Lowest(fuzzy), Len(WithoutEnd(search)), WithoutEnd(by))))
     ELSE NotFound

\* The edits of one file, in order; those that are not found are left out.
Edited(text, edits) ==
  LET After[k \in 0..Len(edits)] ==
        IF k = 0 THEN [text |-> text, applied |-> 0]
        ELSE LET was == After[k - 1]
                 edit == ApplySingleEdit(was.text, edits[k].search, edits[k].by)
             IN IF edits[k].search # Empty /\ edit.found
                THEN [text |-> edit.text, applied |-> was.applied + 1] ELSE was
  IN After[Len(edits)]

\* apply_changes_from_json and parse_bare_array: what an item of the answer
\* comes to.  Full content counts as a new file, in a bare array as what the item
\* says of a file whose old content is not known.
Change(path, known, old, new, isNew) ==
  [path |-> path, known |-> known, old |-> old, new |-> new, isNew |-> isNew]
FromItem(form, item) ==
  IF form = "array" THEN <<Change(item.path, FALSE, <<>>, item.text, item.new)>>
  ELSE IF item.edits = <<>> THEN <<Change(item.path, FALSE, <<>>, item.text, TRUE)>>
  ELSE IF item.path \notin DOMAIN Sources THEN <<>>
  ELSE LET edited == Edited(Sources[item.path], item.edits)
       IN IF edited.applied = 0 THEN <<>>
          ELSE <<Change(item.path, TRUE, Sources[item.path], edited.text, FALSE)>>

AllChanges(given) ==
  LET Upto[k \in 0..Len(given.items)] ==
        IF k = 0 THEN <<>> ELSE Upto[k - 1] \o FromItem(given.form, given.items[k])
  IN Upto[Len(given.items)]

\* parse_changes: the limit on files is not looked at for a bare array.
Truncated(form, all) ==
  IF form = "changes" /\ Len(all) > MaxChanges THEN SubSeq(all, 1, MaxChanges) ELSE all
ParseChanges(given) == Truncated(given.form, AllChanges(given))

\* validate_changes.  Whether brackets are balanced is not looked into.
ValidChanges(changes, balanced) ==
  /\ changes # <<>> /\ balanced
  /\ \A k \in 1..Len(changes) :
       /\ changes[k].isNew => Words(changes[k].new) # <<>>
       /\ changes[k].known => changes[k].new # changes[k].old

\* order_changes_by_dependency: by the number of files that import it, rising,
\* and a path once.
OrderChanges(changes) ==
  LET count(i) == Importers[changes[i].path]
      Earlier(i, j) == count(i) < count(j) \/ (count(i) = count(j) /\ i <= j)
      Upto[k \in 0..Len(changes)] ==
        IF k = 0 THEN <<>>
        ELSE LET was == Upto[k - 1]
                 left == {i \in 1..Len(changes) : \A m \in 1..Len(was) : was[m].path # changes[i].path}
             IN IF left = {} THEN was
                ELSE Append(was, changes[CHOOSE i \in left : \A j \in left : Earlier(i, j)])
  IN IF Len(changes) <= 1 THEN changes ELSE Upto[Len(changes)]

\* generate_with_guidelines: the model answers, or the call fails.
AskModel(given) ==
  /\ turn \in {"first", "second"} /\ answer = NoAnswer
  /\ answer' = given
  /\ UNCHANGED <<turn, proposal>>

CallFails ==
  /\ (turn \in {"first", "second"} /\ answer = NoAnswer) \/ turn = "review"
  /\ turn' = "nothing" /\ answer' = NoAnswer /\ proposal' = <<>>

ReadAnswer(balanced) ==
  /\ turn \in {"first", "second"} /\ answer # NoAnswer
  /\ \E changes \in {ParseChanges(answer)} :
        IF ValidChanges(changes, balanced)
        THEN /\ proposal' = OrderChanges(changes)
             /\ turn' = IF SelfReview THEN "review" ELSE "done"
             /\ UNCHANGED answer
        ELSE /\ turn' = IF turn = "first" THEN "second" ELSE "nothing"
             /\ answer' = NoAnswer /\ UNCHANGED proposal

\* self_review.
Review(approved) ==
  /\ turn = "review"
  /\ IF approved THEN turn' = "done" /\ UNCHANGED proposal
     ELSE turn' = "nothing" /\ proposal' = <<>>
  /\ UNCHANGED answer

GeneratorNext ==
  \/ \E given \in Answers : AskModel(given)
  \/ CallFails
  \/ \E balanced \in BOOLEAN : ReadAnswer(balanced)
  \/ \E approved \in BOOLEAN : Review(approved)

GeneratorSpec == GeneratorInit /\ [][GeneratorNext]_generatorVars

\* An edit is in place: words that resemble the search give way to those of the
\* replacement, and every line before and behind the lines they are in stays, but
\* for the line end of the file.  What else stands in these lines is lost only
\* where the text does not contain the search as it is.
InPlace(old, edit, new) ==
  \E i \in 1..Len(old), n \in 1..Len(edit.search), m \in 0..Len(new) :
    LET block == Words(Block(old, i, n))
        changed == Words(SubSeq(new, i, m))
        rest == SubSeq(old, i + n, Len(old))
    IN /\ i + n <= Len(old) + 1 /\ i - 1 <= m
       /\ SubSeq(new, 1, i - 1) = SubSeq(old, 1, i - 1)
       /\ SubSeq(new, m + 1, Len(new)) \in {rest, WithoutEnd(rest)}
       /\ \E p \in 0..Len(LineWords(old[i])), q \in 0..Len(LineWords(old[i + n - 1])) :
            /\ p + q <= Len(block)
            /\ Overlap(Words(edit.search), SubSeq(block, p + 1, Len(block) - q)) >= 8
            /\ \/ changed = SubSeq(block, 1, p) \o Words(edit.by)
                              \o SubSeq(block, Len(block) - q + 1, Len(block))
               \/ Places(old, edit.search) = {} /\ changed = Words(edit.by)

\* Whatever the model answers, and whichever strategies find its edits one after
\* the other in what earlier edits made of the file, a contribution changes a
\* file only where an edit of one answer points at, changes every file once, and
\* none of them to what it was.
ContributionIsTheAnswer ==
  turn \in {"review", "done"} =>
    /\ \A j, k \in 1..Len(proposal) : j # k => proposal[j].path # proposal[k].path
    /\ \A k \in 1..Len(proposal) : proposal[k].known =>
         /\ proposal[k].new # proposal[k].old
         /\ \E item \in {answer.items[m] : m \in 1..Len(answer.items)} :
              LET Text(j) == Edited(proposal[k].old, SubSeq(item.edits, 1, j)).text
              IN /\ item.path = proposal[k].path
                 /\ item.path \in DOMAIN Sources /\ proposal[k].old = Sources[item.path]
                 /\ Text(Len(item.edits)) = proposal[k].new
                 /\ \A j \in 1..Len(item.edits) :
                      Text(j) = Text(j - 1) \/ InPlace(Text(j - 1), item.edits[j], Text(j))
=============================================================================
