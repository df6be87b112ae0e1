---------------------------- MODULE LineSlicer ----------------------------
(***************************************************************************)
(* The two line slicers of src/internal/db/db.go.  A search result is a    *)
(* row with a line range; the text shown for it is cut out of the file at  *)
(* query time, for all the rows of one file in a single pass:              *)
(* loadAndSliceSmallFile walks the newlines of the whole file and keeps    *)
(* byte offsets, loadAndSliceLargeFile reads line by line through a        *)
(* buffered reader of BufferSize bytes.                                    *)
(*                                                                         *)
(* A file is a sequence of bytes, a byte is "x", NL or CR.  A range is a   *)
(* record [s, e] of the first and the last line, both at least 1.          *)
(***************************************************************************)
EXTENDS TextLines

CONSTANTS
    FileSliceLimit,     \* fileSliceLimit: the largest file the small slicer takes
    BufferSize          \* the size of a reader of memReaderPool

ASSUME SlicerAssumption == FileSliceLimit \in Nat /\ BufferSize \in Nat \ {0}

-----------------------------------------------------------------------------
(* Both slicers sort the group first: by first line, then by last line. *)
Before(a, b) == a.s < b.s \/ (a.s = b.s /\ a.e < b.e)

InsertRow(list, row) ==
    LET after == {i \in DOMAIN list : Before(row, list[i])}
    IN  InsertAt(list, IF after = {} THEN Len(list) + 1 ELSE Min(after), row)

Sorted(group) ==
    LET list[k \in 0..Len(group)] == IF k = 0 THEN <<>> ELSE InsertRow(list[k - 1], group[k])
    IN  list[Len(group)]

(* `for i <= n && i is still in S { i++ }`: where the advance of an index stops. *)
Advance(i, n, S) == CHOOSE k \in i..n + 1 : k \notin S /\ \A j \in i..k - 1 : j \in S

-----------------------------------------------------------------------------
(***************************************************************************)
(* loadAndSliceSmallFile.  Offsets count the bytes before them; NoOffset   *)
(* is one not found yet.                                                   *)
(***************************************************************************)
NoOffset == -1

SmallStart(group) ==
    LET first == {i \in DOMAIN group : group[i].s = 1}
    IN  [ line   |-> 1,
          next   |-> Advance(1, Len(group), first),
          active |-> 1,
          starts |-> [i \in DOMAIN group |-> IF i \in first THEN 0 ELSE NoOffset],
          ends   |-> [i \in DOMAIN group |-> NoOffset] ]

(* One newline: close the ranges that end on this line, open those of the next one. *)
SmallNewline(group, st, nextOffset) ==
    LET ended    == {i \in st.active..Len(group) :
                        /\ \A j \in st.active..i : group[j].s <= st.line
                        /\ group[i].e = st.line}
        ends     == [i \in DOMAIN group |-> IF i \in ended THEN nextOffset - 1 ELSE st.ends[i]]
        starting == {i \in DOMAIN group : group[i].s = st.line + 1}
        next     == Advance(st.next, Len(group), starting)
    IN  [ line   |-> st.line + 1,
          next   |-> next,
          active |-> Advance(st.active, Len(group), {i \in DOMAIN group : ends[i] # NoOffset}),
          starts |-> [i \in DOMAIN group |->
                        IF i \in st.next..next - 1 THEN nextOffset ELSE st.starts[i]],
          ends   |-> ends ]

(* The contents of a sorted group, one per range. *)
SliceSmall(data, group) ==
    LET at   == Newlines(data)
        scan[k \in 0..Len(at)] ==
                IF k = 0 THEN SmallStart(group) ELSE SmallNewline(group, scan[k - 1], at[k])
        st   == scan[Len(at)]
        end  == [i \in DOMAIN group |->
                    IF group[i].e >= st.line /\ st.ends[i] = NoOffset
                    THEN Len(data) ELSE st.ends[i]]
    IN  [i \in DOMAIN group |->
            IF st.starts[i] = NoOffset \/ end[i] = NoOffset \/ st.starts[i] >= Len(data)
            THEN <<>>
            ELSE SubSeq(data, st.starts[i] + 1, end[i])]

-----------------------------------------------------------------------------
(***************************************************************************)
(* loadAndSliceLargeFile.  ReadSlice returns a line with its newline, the  *)
(* rest of the file at its end, or, when the buffer is full without a      *)
(* newline, what the buffer holds together with an error: that piece is    *)
(* taken as a line and the loop stops.                                     *)
(***************************************************************************)
Reads(data) ==
    LET raw  == RawLines(data)
        long == {k \in DOMAIN raw : Len(raw[k]) > BufferSize}
        stop == Min(long)
    IN  IF long = {}
        THEN raw
        ELSE SubSeq(raw, 1, stop - 1) \o <<SubSeq(raw[stop], 1, BufferSize)>>

LargeStart(group) ==
    [line |-> 0, next |-> 1, active |-> 1, lists |-> [i \in DOMAIN group |-> <<>>]]

\* Mutant: a range counts as completed one line early.
MutLargeLine(group, st, text) ==
    LET line == st.line + 1
        next == Advance(st.next, Len(group), {i \in DOMAIN group : line >= group[i].s})
    IN  [ line   |-> line,
          next   |-> next,
          active |-> Advance(st.active, Len(group), {i \in DOMAIN group : line + 1 >= group[i].e}),
          lists  |-> [i \in DOMAIN group |->
                        IF i \in st.active..next - 1 /\ line <= group[i].e
                        THEN Append(st.lists[i], text) ELSE st.lists[i]] ]

LargeLine(group, st, text) ==
    LET line == st.line + 1
        next == Advance(st.next, Len(group), {i \in DOMAIN group : line >= group[i].s})
    IN  [ line   |-> line,
          next   |-> next,
          active |-> Advance(st.active, Len(group), {i \in DOMAIN group : line >= group[i].e}),
          lists  |-> [i \in DOMAIN group |->
                        IF i \in st.active..next - 1 /\ line <= group[i].e
                        THEN Append(st.lists[i], text) ELSE st.lists[i]] ]

SliceLarge(data, group) ==
    LET maxEndLine == Max({group[i].e : i \in DOMAIN group})
        reads      == Reads(data)
        consumed   == SubSeq(reads, 1, IF maxEndLine < Len(reads) THEN maxEndLine ELSE Len(reads))
        st[k \in 0..Len(consumed)] ==
            IF k = 0 THEN LargeStart(group) ELSE LargeLine(group, st[k - 1], TrimEOL(consumed[k]))
    IN  [i \in DOMAIN group |-> JoinLines(st[Len(consumed)].lists[i])]

(* LoadAndSliceMemoryBlock, on a sorted group: an empty file leaves the contents empty. *)
LoadAndSlice(data, group) ==
    IF data = <<>> THEN [i \in DOMAIN group |-> <<>>]
    ELSE IF Len(data) <= FileSliceLimit THEN SliceSmall(data, group)
    ELSE SliceLarge(data, group)

-----------------------------------------------------------------------------
(***************************************************************************)
(* What the two slicers promise, for a range r of a file: the small one    *)
(* gives the lines of the range that exist, byte for byte; the large one   *)
(* gives them without carriage returns, without the empty line after a     *)
(* final newline, and only as far as every line so far fits the buffer.    *)
(***************************************************************************)
LinesOf(lines, r) == SubSeq(lines, r.s, IF r.e < Len(lines) THEN r.e ELSE Len(lines))

SmallContent(data, r) == JoinLines(LinesOf(Lines(data), r))

LargeContent(data, r) ==
    LET lines == Lines(data)
        last  == IF Last(lines) = <<>> THEN Len(lines) - 1 ELSE Len(lines)
    IN  JoinLines(LinesOf([k \in 1..last |-> TrimCR(lines[k])], r))

FitsBuffer(data, r) == \A k \in DOMAIN RawLines(data) : k <= r.e => Len(RawLines(data)[k]) <= BufferSize
=============================================================================
