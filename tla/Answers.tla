------------------------------ MODULE Answers -------------------------------
(***************************************************************************)
(* How the answers of models are read (the strict parsers at the end of     *)
(* orchestrator/run_executor.rs, and core/challenge.rs): one JSON document  *)
(* is looked for in the text and read as the findings of a challenger or as *)
(* the changes of a solver or of a repair.                                 *)
(*                                                                         *)
(* A text is a sequence of tokens: brackets (named by what they open or     *)
(* close), keys of an object, fences, words, and items.  An item is an      *)
(* object with the fields of a finding or of a change; it is sound if it    *)
(* has those that are required.  A model's text may end anywhere, because   *)
(* its tokens run out.                                                     *)
(***************************************************************************)
EXTENDS Naturals, Sequences

CONSTANTS
  Documents,    \* what a model has in mind: a shape, with items and tests
  Prefaces,     \* what it may write before the document
  Afterwords,   \* what it may write after it
  MaxFindings   \* findings that are read (the 50 of parse_findings_output)

VARIABLES
  reply,       \* the text of a model, and what it had in mind
  reading       \* what is read in it

answersVars == <<reply, reading>>

Token == [mark : {"word", "object", "array", "endObject", "endArray"}]
Item == [mark : {"item"}, sound : BOOLEAN, what : STRING]

ASSUME AnswersAssumption ==
  /\ MaxFindings \in Nat
  /\ \A p \in Prefaces \cup Afterwords : p \in Seq(Token)
  /\ \A d \in Documents :
       /\ d.shape \in {"findings", "list", "changes"} /\ d.items \in Seq(Item) /\ d.tests \in Seq(Item)
       /\ d.shape # "changes" => d.tests = <<>>

Mark(m) == [mark |-> m]
Key(name) == [mark |-> "key", name |-> name]
Thing(sound, what) == [mark |-> "item", sound |-> sound, what |-> what]

Opens == {"object", "array"}
Closes == {"endObject", "endArray"}
Match(open) == IF open = "object" THEN "endObject" ELSE "endArray"

\* Reading a JSON value: the brackets that are open, and whether a key waits for its
\* value, one whole value was read, or what was read is none.
Seen(open, at) == [open |-> open, at |-> at]
After(open) == Seen(open, IF open = <<>> THEN "whole" ELSE "reading")

Step(seen, token) ==
  LET m == token.mark
      inside == IF seen.open = <<>> THEN "nothing" ELSE seen.open[Len(seen.open)]
      mayBegin == seen.at = IF inside = "object" THEN "keyed" ELSE "reading"
  IN CASE m \in Opens /\ mayBegin -> Seen(Append(seen.open, m), "reading")
       [] m = "item" /\ mayBegin -> After(seen.open)
       [] m = "key" /\ inside = "object" /\ seen.at = "reading" -> Seen(seen.open, "keyed")
       [] m \in Closes /\ inside # "nothing" /\ m = Match(inside) /\ seen.at = "reading" ->
            After(SubSeq(seen.open, 1, Len(seen.open) - 1))
       [] OTHER -> Seen(<<>>, "bad")

IsJson(text) ==
  LET Upto[k \in 0..Len(text)] == IF k = 0 THEN Seen(<<>>, "reading") ELSE Step(Upto[k - 1], text[k])
  IN Upto[Len(text)].at = "whole"

Positions(text, marks) == {i \in DOMAIN text : text[i].mark \in marks}

Earliest(S) == CHOOSE i \in S : \A j \in S : i <= j
Latest(S) == CHOOSE i \in S : \A j \in S : i >= j

\* trim_start_matches and trim_end_matches of the fences.
Unfenced(text) ==
  LET inside == {i \in DOMAIN text : text[i].mark # "fence"}
  IN IF inside = {} THEN <<>> ELSE SubSeq(text, Earliest(inside), Latest(inside))

\* From the first opening bracket through the last closing one.
Bracketed(text) ==
  LET starts == Positions(text, Opens)
      ends == Positions(text, Closes)
  IN IF starts # {} /\ ends # {} /\ Earliest(starts) < Latest(ends)
     THEN SubSeq(text, Earliest(starts), Latest(ends)) ELSE <<>>

\* Seeded fault: what is missing at the end is made up.
ExtractJsonDocumentMended(text) ==
  LET Mended(t) == t \o (IF Positions(t, {"array"}) # {} THEN <<Mark("endArray"), Mark("endObject")>> ELSE <<Mark("endObject")>>)
      tried == {text, Unfenced(text), Bracketed(text), Mended(Unfenced(text))}
      read == {t \in tried : IsJson(t)}
  IN IF read = {} THEN <<>> ELSE CHOOSE t \in read : TRUE

\* extract_json_document: the first that can be read as a whole; <<>> is an error.
ExtractJsonDocument(text) ==
  CASE IsJson(text) -> text
    [] ~IsJson(text) /\ IsJson(Unfenced(text)) -> Unfenced(text)
    [] OTHER -> IF IsJson(Bracketed(text)) THEN Bracketed(text) ELSE <<>>

Unreadable == [ok |-> FALSE, items |-> <<>>]
Read(items) == [ok |-> TRUE, items |-> items]

\* The array of a key: nothing if the object lacks the key.
ArrayOf(doc, name) ==
  LET at == {i \in DOMAIN doc : doc[i] = Key(name)}
      opening == Earliest(at) + 1
      closing == Earliest({i \in opening..Len(doc) : doc[i].mark = "endArray"})
  IN CASE at = {} -> Read(<<>>)
       [] at # {} /\ doc[opening].mark # "array" -> Unreadable
       [] OTHER -> Read(SubSeq(doc, opening + 1, closing - 1))

\* parse_file_change and the summary of a finding: an item that lacks what it must
\* have spoils the answer.
Sound(items) == \A i \in DOMAIN items : items[i].mark = "item" /\ items[i].sound

\* parse_findings_output: an object with findings, or an array; the first ones.
ParseFindingsOutput(text) ==
  LET doc == ExtractJsonDocument(text)
      found == IF doc[1].mark = "object" THEN ArrayOf(doc, "findings")
               ELSE IF doc[1].mark = "array" THEN Read(SubSeq(doc, 2, Len(doc) - 1)) ELSE Unreadable
      kept == SubSeq(found.items, 1, IF Len(found.items) < MaxFindings THEN Len(found.items) ELSE MaxFindings)
      given == doc[1].mark = "array" \/ \E i \in DOMAIN doc : doc[i] = Key("findings")
  IN IF doc # <<>> /\ given /\ found.ok /\ Sound(kept) THEN Read(kept) ELSE Unreadable

\* parse_change_arrays, parse_solver_output and parse_repair_output: the changes
\* and the tests of an object, at least one.
ParseChanges(text) ==
  LET doc == ExtractJsonDocument(text)
      changes == ArrayOf(doc, "changes")
      tests == ArrayOf(doc, "tests_added")
      all == changes.items \o tests.items
  IN IF doc # <<>> /\ doc[1].mark = "object" /\ changes.ok /\ tests.ok /\ Sound(all) /\ all # <<>>
     THEN Read(all) ELSE Unreadable

Reading(by, text) == IF by = "challenger" THEN ParseFindingsOutput(text) ELSE ParseChanges(text)

\* The documents that the prompts ask for: findings in an object or alone, and
\* changes with tests.
Object(tokens) == <<Mark("object")>> \o tokens \o <<Mark("endObject")>>
Array(items) == <<Mark("array")>> \o items \o <<Mark("endArray")>>
DocumentOf(d) ==
  CASE d.shape = "findings" -> Object(<<Key("findings")>> \o Array(d.items))
    [] d.shape = "list" -> Array(d.items)
    [] d.shape = "changes" -> Object(<<Key("changes")>> \o Array(d.items) \o <<Key("tests_added")>> \o Array(d.tests))

\* What a model may write of what it has in mind, up to where it is cut.
WhatIsWritten(preface, document, fenced, afterword) ==
  LET fence == IF fenced THEN <<Mark("fence")>> ELSE <<>>
  IN preface \o fence \o document \o fence \o afterword

NotRead == [ok |-> FALSE, items |-> <<>>, at |-> "none"]

AnswersAt(d, text, finished, plain) ==
  /\ reply = [by |-> IF d.shape = "changes" THEN "solver" ELSE "challenger", items |-> d.items \o d.tests,
              text |-> text, finished |-> finished, plain |-> plain]
  /\ reading = NotRead

\* Finished: the end of the document was written.  Plain: the words around it have
\* no brackets.
AnswersInit ==
  \E d \in Documents, p \in Prefaces, a \in Afterwords, fenced \in BOOLEAN :
    LET text == WhatIsWritten(p, DocumentOf(d), fenced, a)
        after == Len(a) + (IF fenced THEN 1 ELSE 0)
    IN \E n \in 1..Len(text) :
         AnswersAt(d, SubSeq(text, 1, n), n >= Len(text) - after,
                   Positions(p, Opens \cup Closes) \cup Positions(a, Opens \cup Closes) = {})

AnswersNext ==
  /\ reading = NotRead
  /\ reading' = Reading(reply.by, reply.text)
  /\ UNCHANGED reply

AnswersSpec == AnswersInit /\ [][AnswersNext]_answersVars

(***************************************************************************)
(* Properties                                                              *)
(***************************************************************************)
\* An answer that was cut short is refused, however much of it was written, and
\* of a whole one every item is read in order (of findings, as many as are read
\* at all), or it is refused because an item is not sound: as long as no words
\* around the document have brackets.
AnswersAreReadWhole ==
  (reading # NotRead /\ reply.plain) =>
    LET items == reply.items
    IN /\ reading.ok => reply.finished
       /\ reading.ok => reading.items = IF reply.by = "challenger" /\ Len(items) > MaxFindings
                                        THEN SubSeq(items, 1, MaxFindings) ELSE items
       /\ reply.finished /\ Sound(items) =>
            reading.ok \/ (reply.by # "challenger" /\ items = <<>>)

\* A challenger that never gave its document, so that nobody knows what it found,
\* is not read as one that found nothing.
SilenceIsNotClean ==
  (reading # NotRead /\ reply.by = "challenger" /\ ~reply.finished) => ~reading.ok
=============================================================================
