----------------------------- MODULE LineScan -----------------------------
(***************************************************************************)
(* The scanners of src/ggrep/search.go: which lines of a file they report. *)
(* scanBody and scanRegex look for the next match in the whole content and *)
(* find its line around it, scanFileStream looks at one line after the     *)
(* other.  A hit is [line, text].                                          *)
(*                                                                         *)
(* A pattern is an operator on lines: the matcher of ggrep/regexp is a DFA *)
(* that stops at the end of the first matching line, the empty line after  *)
(* a final newline included, and returns that position.                    *)
(***************************************************************************)
EXTENDS TextLines, FiniteSets

CONSTANTS
    PeekSize,                   \* peekSize: the bytes looked at for a NUL
    ReaderBufSize,              \* readerBufSize: the longest line of a stream
    MatchesLine(_, _)           \* whether a pattern matches a line

NUL == "NUL"

Binary(data) == \E i \in DOMAIN data : i <= PeekSize /\ data[i] = NUL

(* Offsets count the bytes before them, as in the code. *)
OccursAt(data, lit, o) == SubSeq(data, o + 1, o + Len(lit)) = lit

Index(data, lit, cursor) ==
    LET at == {o \in cursor..Len(data) - Len(lit) : OccursAt(data, lit, o)}
    IN  IF at = {} THEN -1 ELSE Min(at)

NewlineOffsets(data) == {i - 1 : i \in {j \in DOMAIN data : data[j] = NL}}

CountNewlines(data, from, to) == Cardinality({i \in from + 1..to : data[i] = NL})

(* bytes.LastIndexByte(data[:pos], NL) + 1, and the next newline from pos on. *)
LineStart(data, pos) ==
    LET before == {o \in NewlineOffsets(data) : o < pos}
    IN  IF before = {} THEN 0 ELSE Max(before) + 1

LineEnd(data, pos) ==
    LET after == {o \in NewlineOffsets(data) : o >= pos}
    IN  IF after = {} THEN Len(data) ELSE Min(after)

(* The state of a scan; a slice out of its bounds is a panic. *)
ScanStart == [state |-> "scan", cursor |-> 0, line |-> 1, hits |-> <<>>]

Report(data, st, start, end, line) ==
    IF start > end THEN [st EXCEPT !.state = "panic"]
    ELSE [ state  |-> "scan",
           cursor |-> IF end < Len(data) THEN end + 1 ELSE end,
           line   |-> IF end < Len(data) THEN line + 1 ELSE line,
           hits   |-> Append(st.hits, [line |-> line, text |-> TrimCR(SubSeq(data, start + 1, end))]) ]

(* Every turn of the loops passes a newline or the end of the content. *)
Turns(data) == Len(data) + 2

-----------------------------------------------------------------------------
(* scanBody, for a literal that is not empty. *)
LiteralTurn(data, lit, st) ==
    LET pos == Index(data, lit, st.cursor)
    IN  IF st.state # "scan" THEN st
        ELSE IF pos < 0 THEN [st EXCEPT !.state = "done"]
        ELSE Report(data, st, LineStart(data, pos), LineEnd(data, pos),
                    st.line + CountNewlines(data, st.cursor, pos))

ScanLiteral(data, lit) ==
    LET st[k \in 0..Turns(data)] == IF k = 0 THEN ScanStart ELSE LiteralTurn(data, lit, st[k - 1])
    IN  st[Turns(data)]

(* Where the first matching line of data[cursor:] ends, -1 without one. *)
FindIndex(data, pattern, cursor) ==
    LET Line(end) == SubSeq(data, Max({cursor, LineStart(data, end)}) + 1, end)
        ends      == {e \in cursor..Len(data) : /\ e = Len(data) \/ data[e + 1] = NL
                                               /\ MatchesLine(pattern, Line(e))}
    IN  IF ends = {} THEN -1 ELSE Min(ends)

\* Mutant: the line number counts the newlines up to the end of the match's line.
MutRegexTurn(data, pattern, st) ==
    LET pos   == FindIndex(data, pattern, st.cursor)
        start == LineStart(data, pos)
        end   == IF pos = 0 THEN -1 ELSE LineEnd(data, pos - 1)
    IN  IF st.state # "scan" THEN st
        ELSE IF st.cursor >= Len(data) \/ pos < 0 THEN [st EXCEPT !.state = "done"]
        ELSE Report(data, st, start, end, st.line + CountNewlines(data, 0, start))

(* scanRegex: the end of the line is looked for from the byte before the end *)
(* of the match on, so a match without a byte finds the end of another line. *)
RegexTurn(data, pattern, st) ==
    LET pos   == FindIndex(data, pattern, st.cursor)
        start == LineStart(data, pos)
        end   == IF pos = 0 THEN -1 ELSE LineEnd(data, pos - 1)
    IN  IF st.state # "scan" THEN st
        ELSE IF st.cursor >= Len(data) \/ pos < 0 THEN [st EXCEPT !.state = "done"]
        ELSE Report(data, st, start, end, st.line + CountNewlines(data, st.cursor, start))

ScanRegex(data, pattern) ==
    LET st[k \in 0..Turns(data)] == IF k = 0 THEN ScanStart ELSE RegexTurn(data, pattern, st[k - 1])
    IN  st[Turns(data)]

(* scanFileStream: a line that does not fit the reader ends the scan. *)
Overlong(raw) == Len(raw) > ReaderBufSize \/ (Len(raw) = ReaderBufSize /\ Last(raw) # NL)

StreamLines(data) ==
    LET raw  == RawLines(data)
        full == {k \in DOMAIN raw : Overlong(raw[k])}
    IN  IF full = {} THEN raw ELSE SubSeq(raw, 1, Min(full) - 1)

HitsAmong(lines, ks) ==
    [i \in DOMAIN ks |-> [line |-> ks[i], text |-> TrimCR(lines[ks[i]])]]

SelectLines(lines, pattern) ==
    HitsAmong(lines, Ascending({k \in DOMAIN lines : MatchesLine(pattern, lines[k])}, Len(lines)))

ScanStream(data, pattern) ==
    IF Binary(data) THEN <<>>
    ELSE LET lines == [k \in DOMAIN StreamLines(data) |-> TrimEOL(StreamLines(data)[k])]
         IN  SelectLines(lines, pattern)

(* scanBody: binary files are skipped; what a scan that does not panic reports. *)
ScanBody(data, kind, pattern) ==
    IF Binary(data) THEN [ScanStart EXCEPT !.state = "done"]
    ELSE IF kind = "regex" THEN ScanRegex(data, pattern) ELSE ScanLiteral(data, pattern)
=============================================================================
