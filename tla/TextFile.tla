-------------------------------- MODULE TextFile --------------------------------
(* The text files of the SimpleText codec, as sequences of tokens.            *)
(*                                                                            *)
(* A token is a pair <<kind, value>>: a label ("lab"), a number ("num"), a    *)
(* boolean ("bool"), a character ("chr") or a checksum ("sum"). Two           *)
(* characters matter to the format, the newline and the escape. A file        *)
(* pointer is an index into the sequence, from 1.                             *)
(*                                                                            *)
(* Source: codecs/utils/util.go.                                              *)
EXTENDS Integers, Sequences, SequencesExt

NEWLINE == <<"chr", "newline">>
ESCAPE == <<"chr", "escape">>
Chr(c) == <<"chr", c>>
Num(n) == <<<<"num", n>>>>
Bool(b) == <<<<"bool", b>>>>
Label(l) == <<"lab", l>>

CHECKSUM == "checksum "
WriteBytes(bs) ==
    FlattenSeq([i \in DOMAIN bs |->
                   IF bs[i] \in {NEWLINE, ESCAPE} THEN <<ESCAPE, bs[i]>> ELSE <<bs[i]>>])

(* One labelled line. *)
WriteLabel(label, value) == WriteBytes(<<Label(label)>> \o value) \o <<NEWLINE>>

(* The checksum of what was written is what was written. *)
WriteChecksum(out) == out \o WriteLabel(CHECKSUM, <<<<"sum", out>>>>)

Failed == [ok |-> FALSE]
(* What follows a reading, when it succeeded. *)
Proceed(r, Then(_)) == IF r.ok THEN Then(r) ELSE Failed

(* Where the character at p is: behind the escape, if there is one. *)
Unescaped(in, p) == IF in[p] = ESCAPE THEN p + 1 ELSE p
WithFirst(c, r) == IF r.ok THEN [r EXCEPT !.line = <<c>> \o @] ELSE Failed

(* The line that starts at pos and where the next one starts; reading past    *)
(* the end is an error.                                                       *)
ReadLine(in, pos) ==
    LET from[p \in 1 .. Len(in) + 2] ==
            IF p > Len(in) \/ Unescaped(in, p) > Len(in) THEN Failed
            ELSE IF in[p] = NEWLINE THEN [ok |-> TRUE, line |-> <<>>, next |-> p + 1]
            ELSE WithFirst(in[Unescaped(in, p)], from[Unescaped(in, p) + 1])
    IN  from[pos]

HasPrefix(line, label) == line # <<>> /\ line[1] = Label(label)

(* The values of consecutive lines, each of which must carry its label; "a"   *)
(* holds the values of the lines before.                                      *)
ReadLabel(in, a, label) ==
    LET r == ReadLine(in, a.next)
    IN  IF a.ok /\ r.ok /\ HasPrefix(r.line, label)
        THEN [ok |-> TRUE, values |-> Append(a.values, Tail(r.line)), next |-> r.next] ELSE Failed
ReadLabels(in, pos, labels) ==
    FoldLeft(LAMBDA a, label : ReadLabel(in, a, label), [ok |-> TRUE, values |-> <<>>, next |-> pos], labels)

(* A value that is not the wanted kind of token does not parse. *)
Parses(kind, value) == Len(value) = 1 /\ value[1][1] = kind
Parsed(value) == value[1][2]

(* How often the labels are read in a row. *)
Times(labels, n) == FlattenSeq([i \in 1 .. n |-> labels])
(* A mutant: a missing footer is accepted. *)
CheckFooterIfThere(in, pos) ==
    LET r == ReadLabels(in, pos, <<CHECKSUM>>)
    IN  r.ok => r.values[1] = <<<<"sum", SubSeq(in, 1, pos - 1)>>>>

CheckFooter(in, pos) ==
    LET r == ReadLabels(in, pos, <<CHECKSUM>>)
    IN  /\ r.ok
        /\ r.values[1] = <<<<"sum", SubSeq(in, 1, pos - 1)>>>>
        /\ r.next = Len(in) + 1
================================================================================
