----------------------------- MODULE TextLines -----------------------------
(***************************************************************************)
(* Texts as sequences of bytes, and their lines: what strings.Split,       *)
(* bytes.Index and bufio.Reader give to the code that cuts and scans       *)
(* files.                                                                  *)
(***************************************************************************)
EXTENDS Integers, Sequences, SequencesExt

NL == "\n"
CR == "\r"

(* The members of S among the first n numbers, in their order. *)
Ascending(S, n) ==
    LET list[i \in 0..n] ==
            IF i = 0 THEN <<>> ELSE IF i \in S THEN Append(list[i - 1], i) ELSE list[i - 1]
    IN  list[n]

Newlines(data) == Ascending({i \in DOMAIN data : data[i] = NL}, Len(data))

(* The lines of a text, as strings.Split by "\n" counts them: it is cut at the newlines. *)
CutAt(data, at) ==
    LET Cut(k) == IF k = 0 THEN 0 ELSE IF k > Len(at) THEN Len(data) + 1 ELSE at[k]
    IN  [k \in 1..Len(at) + 1 |-> SubSeq(data, Cut(k - 1) + 1, Cut(k) - 1)]

Lines(data) == CutAt(data, Newlines(data))

(* strings.Join by "\n". *)
JoinLines(lines) ==
    LET text[k \in 0..Len(lines)] ==
            CASE k = 0 -> <<>>
              [] k = 1 -> lines[1]
              [] OTHER -> text[k - 1] \o <<NL>> \o lines[k]
    IN  text[Len(lines)]

(* A line without its carriage return. *)
TrimCR(line) ==
    IF line # <<>> /\ Last(line) = CR THEN Front(line) ELSE line

(***************************************************************************)
(* What a buffered reader returns, line by line: each with its newline,    *)
(* and the rest of the text if it has none.                                *)
(***************************************************************************)
RawLines(data) ==
    LET lines == Lines(data)
        raw   == [k \in DOMAIN lines |-> IF k < Len(lines) THEN lines[k] \o <<NL>> ELSE lines[k]]
    IN  IF Last(raw) = <<>> THEN Front(raw) ELSE raw

TrimEOL(line) ==
    TrimCR(IF line # <<>> /\ Last(line) = NL THEN Front(line) ELSE line)
=============================================================================
