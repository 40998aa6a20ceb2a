------------------------------ MODULE Documents ------------------------------
(***************************************************************************)
(* The splitting of a file into YAML documents (splitYaml, findDocument).  *)
(* A line is a record whose field k says what it begins with: "start" for  *)
(* ---, "end" for ..., "directive" for %; "long" is a line longer than     *)
(* the scanner's buffer; any other kind is text.                           *)
(***************************************************************************)
EXTENDS Integers, Sequences, FiniteSets, SequencesExt

\* The last index up to n at which a line has one of the kinds, or 0.
LastOf(lines, n, kinds) == SelectLastInSubSeq(lines, 1, n, LAMBDA line : line.k \in kinds)

\* bufio.Scanner stops at a line that is too long, and its error is not read.
Scanned(data) ==
  LET i == SelectInSeq(data, LAMBDA line : line.k = "long")
  IN IF i = 0 THEN data ELSE SubSeq(data, 1, i - 1)

\* Mutant: directives are left to the document before.
NoDirectives(lines, bar) == bar

\* The first of the directives before the line bar.
FirstDirective(lines, bar) ==
  1 + SelectLastInSubSeq(lines, 1, bar - 1, LAMBDA line : line.k # "directive")

\* The last document of the first n lines, n > 0, found from its end: its text
\* and its first line.
FindDocument(lines, n) ==
  LET last == IF lines[n].k = "end" THEN n - 1 ELSE n
      bar  == LastOf(lines, last, {"start", "end"})
  IN [text |-> SubSeq(lines, bar + 1, last),
      first |-> IF bar # 0 /\ lines[bar].k = "start" THEN FirstDirective(lines, bar)
                ELSE bar + 1]

\* The documents of a file, found one after another from its end.
SplitYaml(data) ==
  LET lines == Scanned(data)
      upTo[n \in 0 .. Len(lines)] ==
        IF n = 0 THEN <<>>
        ELSE LET d == FindDocument(lines, n) IN Append(upTo[d.first - 1], d.text)
  IN upTo[Len(lines)]

-----------------------------------------------------------------------------
(***************************************************************************)
(* The reference, read from the beginning: a document begins with the file,*)
(* after the end of another, or with the directives and the start line of  *)
(* its own.  Its text has neither these nor an end line.                   *)
(***************************************************************************)
\* Line i is a start line or a directive that leads to one.
LeadsIn(lines, i) ==
  \E j \in i .. Len(lines) : /\ lines[j].k = "start"
                             /\ \A h \in i .. j - 1 : lines[h].k = "directive"

Begins(lines, i) ==
  \/ i = 1 \/ lines[i - 1].k = "end"
  \/ LeadsIn(lines, i) /\ lines[i - 1].k # "directive"

Beginnings(lines) == {i \in 1 .. Len(lines) : Begins(lines, i)}

\* The line after the last of the document that begins with line i.
NextBeginning(lines, i) == Min({j \in Beginnings(lines) : j > i} \cup {Len(lines) + 1})

\* An end line is the last of its document.
TextOf(lines, i) ==
  LET last == NextBeginning(lines, i) - 1
      bar  == IF LeadsIn(lines, i)
              THEN SelectInSubSeq(lines, i, last, LAMBDA line : line.k = "start")
              ELSE i - 1
  IN SubSeq(lines, bar + 1, IF lines[last].k = "end" THEN last - 1 ELSE last)

\* docs has one document for each beginning, in the order of these.
AreDocuments(docs, lines) ==
  /\ Len(docs) = Cardinality(Beginnings(lines))
  /\ \A i \in Beginnings(lines) :
       docs[Cardinality({j \in Beginnings(lines) : j <= i})] = TextOf(lines, i)
=============================================================================
