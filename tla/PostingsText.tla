------------------------------ MODULE PostingsText ------------------------------
(* Terms and postings in the text codec: the fields writer, and the reader    *)
(* that indexes the fields of the file and loads the terms of one.            *)
(*                                                                            *)
(* loadTerms puts the terms into an FST whose manager of outputs has a nil    *)
(* empty output: the builder panics on the first node it freezes, so a field  *)
(* loads only when its one term is the empty one, and the enumeration of its  *)
(* terms panics on its first move. No documents are enumerated.               *)
(*                                                                            *)
(* The skip writer leaves an empty list behind a term of BlockSize documents. *)
(*                                                                            *)
(* Sources: codecs/simpletext/fieldswriter.go, fieldsreader.go,               *)
(* skipwriter.go, core/util/fst/outputs.go, builder.go, enum.go.              *)
EXTENDS TextFile, FiniteSets, Functions

CONSTANTS
    Inverted,       \* sequences of [name, options, terms] a segment may hold;
                    \* terms is a sequence of [term, docs], docs of [doc, freq, payload]
    BlockSize       \* BLOCK_SIZE

VARIABLE post

DOCS == 1
DOCS_AND_FREQS == 2
POSITIONS == 3
OFFSETS == 4

-----------------------------------------------------------------------------
(* WriteV1. *)
PositionLines(options, d) ==
    FlattenSeq([i \in 1 .. d.freq |->
        WriteLabel("      pos ", Num(i))
          \o (IF options >= OFFSETS
              THEN WriteLabel("      startOffset ", Num(i)) \o WriteLabel("      endOffset ", Num(i)) ELSE <<>>)
          \o (IF d.payload # <<>> THEN WriteLabel("        payload ", d.payload) ELSE <<>>)])

DocLines(options, d) ==
    WriteLabel("    doc ", Num(d.doc))
      \o (IF options >= DOCS_AND_FREQS THEN WriteLabel("      freq ", Num(d.freq)) ELSE <<>>)
      \o (IF options >= POSITIONS THEN PositionLines(options, d) ELSE <<>>)

(* ResetSkip, bufferSkip and WriteSkip come down to one line. *)
WriteSkip(docCount) == IF docCount >= BlockSize THEN WriteLabel("    skipList ", <<>>) ELSE <<>>
(* A mutant: a term without documents gets a line. *)
TermLinesWithoutDocs(options, t) ==
    WriteLabel("  term ", t.term)
      \o FlattenSeq([i \in DOMAIN t.docs |-> DocLines(options, t.docs[i])]) \o WriteSkip(Len(t.docs))

TermLines(options, t) ==
    IF t.docs = <<>> THEN <<>>
    ELSE WriteLabel("  term ", t.term)
           \o FlattenSeq([i \in DOMAIN t.docs |-> DocLines(options, t.docs[i])])
           \o WriteSkip(Len(t.docs))

FieldPart(f) ==
    LET lines == FlattenSeq([i \in DOMAIN f.terms |-> TermLines(f.options, f.terms[i])])
    IN  IF lines = <<>> THEN <<>> ELSE WriteLabel("field ", <<Chr(f.name)>>) \o lines

WriteFields(fields) ==
    WriteChecksum(FlattenSeq([i \in DOMAIN fields |-> FieldPart(fields[i])]) \o <<Label("END"), NEWLINE>>)

-----------------------------------------------------------------------------
(* A mutant: the end of the file ends the fields too. *)
ReadFieldsToEOF(in) ==
    LET from[p \in 1 .. Len(in) + 1] ==
            LET r == ReadLine(in, p)
                rest == from[r.next]
            IN  IF ~r.ok THEN <<>>
                ELSE IF HasPrefix(r.line, "field ")
                     THEN [n \in DOMAIN rest \cup {r.line[2][2]} |-> IF n \in DOMAIN rest THEN rest[n] ELSE r.next]
                ELSE rest
    IN  [ok |-> TRUE, fields |-> from[1]]

(* readFields: where the terms of each field start. *)
ReadFields(in) ==
    LET from[p \in 1 .. Len(in) + 1] ==
            LET r == ReadLine(in, p)
                rest == from[r.next]
            IN  IF ~r.ok THEN Failed
                ELSE IF r.line = <<Label("END")>> THEN [ok |-> TRUE, fields |-> <<>>]
                ELSE IF ~rest.ok THEN Failed
                ELSE IF HasPrefix(r.line, "field ")
                     THEN [rest EXCEPT !.fields = [n \in DOMAIN @ \cup {r.line[2][2]} |->
                              IF n \in DOMAIN @ THEN @[n] ELSE r.next]]
                ELSE rest
    IN  from[1]

(* loadTerms: one pass over the lines of a field. The builder gets a term     *)
(* when the next one, or the end of the field, is met; the output it is added *)
(* with is never read, so it is left out.                                     *)
NewTerms == [sumTotalTermFreq |-> 0, sumDocFreq |-> 0, termCount |-> 0, visited |-> {},
             added |-> <<>>, lastTerm |-> <<>>, lastDocsStart |-> -1, totalTermFreq |-> 0]

AddLastTerm(t) == IF t.lastDocsStart = -1 THEN t ELSE [t EXCEPT !.added = Append(@, t.lastTerm)]

(* A mutant: a frequency counts besides the document it belongs to. *)
LoadLineFreqTwice(t, line, next) ==
    CASE HasPrefix(line, "    doc ") ->
           [t EXCEPT !.sumDocFreq = @ + 1, !.totalTermFreq = @ + 1, !.visited = @ \cup {Parsed(Tail(line))}]
      [] HasPrefix(line, "      freq ") -> [t EXCEPT !.totalTermFreq = @ + Parsed(Tail(line))]
      [] HasPrefix(line, "  term ") ->
           [AddLastTerm(t) EXCEPT !.lastDocsStart = next, !.lastTerm = Tail(line), !.termCount = @ + 1,
                                  !.sumTotalTermFreq = @ + t.totalTermFreq, !.totalTermFreq = 0]
      [] OTHER -> t

LoadLine(t, line, next) ==
    CASE HasPrefix(line, "    doc ") ->
           [t EXCEPT !.sumDocFreq = @ + 1, !.totalTermFreq = @ + 1, !.visited = @ \cup {Parsed(Tail(line))}]
      [] HasPrefix(line, "      freq ") -> [t EXCEPT !.totalTermFreq = @ + Parsed(Tail(line)) - 1]
      [] HasPrefix(line, "  term ") ->
           [AddLastTerm(t) EXCEPT !.lastDocsStart = next, !.lastTerm = Tail(line), !.termCount = @ + 1,
                                  !.sumTotalTermFreq = @ + t.totalTermFreq, !.totalTermFreq = 0]
      [] OTHER -> t

LoadTerms(in, start) ==
    LET lines[p \in 1 .. Len(in) + 1] ==      \* the lines up to the next field or the end
            LET r == ReadLine(in, p)
            IN  IF r.line = <<Label("END")>> \/ HasPrefix(r.line, "field ") THEN <<>>
                ELSE <<[line |-> r.line, next |-> r.next]>> \o lines[r.next]
        all == FoldLeft(LAMBDA t, l : LoadLine(t, l.line, l.next), NewTerms, lines[start])
    IN  [AddLastTerm(all) EXCEPT !.sumTotalTermFreq =
            IF all.lastDocsStart = -1 THEN @ ELSE @ + all.totalTermFreq]

(* PostingOutputManager.EmptyOutput is nil. A term that is not empty has a    *)
(* node, and freezing it, in Add or in Finish, hashes the nil output of an    *)
(* arc.                                                                       *)
BuilderPanics(added) == \E i \in DOMAIN added : added[i] # <<>>

-----------------------------------------------------------------------------
NoField == "none"
PostingsInit ==
    \E fields \in Inverted :
        post = [pc |-> "written", fields |-> fields, in |-> WriteFields(fields), starts |-> <<>>,
                torn |-> FALSE, field |-> NoField, terms |-> NewTerms]

DieWritingPostings ==
    /\ post.pc = "written" /\ ~post.torn
    /\ \E n \in 0 .. Len(post.in) - 1 : post' = [post EXCEPT !.torn = TRUE, !.in = SubSeq(@, 1, n)]

NewSimpleTextFieldsReader ==
    /\ post.pc = "written"
    /\ LET r == ReadFields(post.in)
       IN  post' = IF r.ok THEN [post EXCEPT !.pc = "open", !.starts = r.fields]
                   ELSE [post EXCEPT !.pc = "refused"]

(* FieldsReader.Terms: the terms of a field are kept once they are loaded.    *)
Terms(name) ==
    /\ post.pc = "open" /\ post.field # name /\ name \in DOMAIN post.starts
    /\ LET terms == LoadTerms(post.in, post.starts[name])
       IN  post' = IF BuilderPanics(terms.added) THEN [post EXCEPT !.pc = "panicked", !.field = name]
                   ELSE [post EXCEPT !.field = name, !.terms = terms]

(* The first move of the terms enumeration, a Next or a seek, adds an output  *)
(* to the nil one it started with.                                            *)
PositionTermsEnum ==
    /\ post.pc = "open" /\ post.field # NoField
    /\ post' = [post EXCEPT !.pc = "panicked"]

PostingsNext ==
    \/ DieWritingPostings
    \/ NewSimpleTextFieldsReader
    \/ \E name \in UNION {{f.name : f \in Range(fs)} : fs \in Inverted} : Terms(name)
    \/ PositionTermsEnum

(******************************* Properties ********************************)

FieldNamed(name) == CHOOSE f \in Range(post.fields) : f.name = name
WrittenTerms(name) == SelectSeq(FieldNamed(name).terms, LAMBDA t : t.docs # <<>>)
Freq(options, d) == IF options = DOCS THEN 1 ELSE d.freq
FreqSum(options, docs) == FoldLeft(LAMBDA n, d : n + Freq(options, d), 0, docs)

(* fieldsreader.go readFields and loadTerms: the reader finds exactly the     *)
(* fields that had a document, whatever lines their terms and payloads hold,  *)
(* and the statistics of a field that can be loaded are those of its terms.   *)
StatisticsReadBack ==
    post.pc = "open" =>
        /\ DOMAIN post.starts = {f.name : f \in {g \in Range(post.fields) : WrittenTerms(g.name) # <<>>}}
        /\ post.field # NoField =>
               LET ts == WrittenTerms(post.field)
                   options == FieldNamed(post.field).options
               IN  /\ post.terms.termCount = Len(ts)
                   /\ post.terms.sumDocFreq = FoldLeft(LAMBDA n, t : n + Len(t.docs), 0, ts)
                   /\ post.terms.sumTotalTermFreq = FoldLeft(LAMBDA n, t : n + FreqSum(options, t.docs), 0, ts)
                   /\ Cardinality(post.terms.visited) =
                          Cardinality({d.doc : d \in UNION {Range(t.docs) : t \in Range(ts)}})

(* fieldsreader.go readFields: a file that ends before its last line of       *)
(* fields is refused, wherever the writer died.                               *)
TornPostingsRefused ==
    post.pc = "open" => IsPrefix(FlattenSeq([i \in DOMAIN post.fields |-> FieldPart(post.fields[i])]), post.in)

(* Fields and their statistics are read back as they were inverted, and a     *)
(* file that a crash cut short is refused.                                    *)
PostingsReadBack == StatisticsReadBack /\ TornPostingsRefused

(* core/interface/index/interface.go, Terms.Iterator, "Returns an iterator    *)
(* that will step through all terms": the terms of a field can be loaded and  *)
(* stepped through.                                                           *)
TermsCanBeRead == post.pc # "panicked"
================================================================================
