------------------------------- MODULE Codec -------------------------------
(***************************************************************************)
(* src/internal/turboquant/codec.go: a quantised vector as bytes, four for *)
(* the norm and then the indices, bit-packed.  A vector is [norm, dim, at] *)
(* and its bytes are [norm, size, at]: at is a function on 0..dim-1, or on *)
(* 0..size-1, and the norm stands for the first four bytes.                *)
(*                                                                         *)
(* The code sets bits with OR; the bits it sets are never set before, so   *)
(* OR is addition here.  A byte keeps its eight bits: % 256.               *)
(***************************************************************************)
EXTENDS Integers

Widths == {2, 3, 4}     \* Bit2, Bit3, Bit4

Pow2(k) == CASE k = 0 -> 1 [] k = 1 -> 2 [] k = 2 -> 4 [] k = 3 -> 8 [] k = 4 -> 16
             [] k = 5 -> 32 [] k = 6 -> 64 [] k = 7 -> 128 [] OTHER -> 256

Shl(v, k) == (v * Pow2(k)) % 256
Shr(v, k) == v \div Pow2(k)

Error == [norm |-> "error", dim |-> 0, at |-> <<>>]

(* indexBytesNeeded: the ceilings of dim/4, 3*dim/8 and dim/2. *)
IndexBytesNeeded(dim, width) ==
    CASE width = 2 -> (dim + 3) \div 4
      [] width = 3 -> (3 * dim + 7) \div 8
      [] width = 4 -> (dim + 1) \div 2

-----------------------------------------------------------------------------
(* Packing: the byte b of the indices x[0], ..., x[dim-1]. *)
Masked(x, dim, i, width) == IF i < dim THEN x[i] % Pow2(width) ELSE 0

Pack2(x, dim, b) ==
    Masked(x, dim, 4 * b, 2) + Shl(Masked(x, dim, 4 * b + 1, 2), 2)
      + Shl(Masked(x, dim, 4 * b + 2, 2), 4) + Shl(Masked(x, dim, 4 * b + 3, 2), 6)

Pack4(x, dim, b) ==
    Masked(x, dim, 2 * b, 4) + Shl(Masked(x, dim, 2 * b + 1, 4), 4)

(* Three bits: index i starts at bit 3*i of the stream.  Low is what it puts *)
(* into byte b if it starts there, Spill what it carries into b from b-1.    *)
Low(x, dim, b, i) ==
    IF (3 * i) \div 8 = b THEN Shl(Masked(x, dim, i, 3), (3 * i) % 8) ELSE 0

\* Mutant: an index that ends in the next byte loses the bits it has there.
MutSpill(x, dim, b, i) == 0

Spill(x, dim, b, i) ==
    IF i >= 0 /\ (3 * i) \div 8 = b - 1 /\ ((3 * i) % 8) + 3 > 8
    THEN Shr(Masked(x, dim, i, 3), 8 - ((3 * i) % 8)) ELSE 0

(* At most three indices start in a byte; first is the first that may. *)
Pack3(x, dim, b) ==
    LET first == (8 * b + 2) \div 3
    IN  Spill(x, dim, b, first - 1)
          + Low(x, dim, b, first) + Low(x, dim, b, first + 1) + Low(x, dim, b, first + 2)

Pack(x, dim, width) ==
    [b \in 0..IndexBytesNeeded(dim, width) - 1 |->
        CASE width = 2 -> Pack2(x, dim, b)
          [] width = 3 -> Pack3(x, dim, b)
          [] width = 4 -> Pack4(x, dim, b)]

(* SerializeQuantizedVector and SerializeQuantizedVectorTo. *)
Serialize(qv, width) ==
    [norm |-> qv.norm, size |-> IndexBytesNeeded(qv.dim, width), at |-> Pack(qv.at, qv.dim, width)]

-----------------------------------------------------------------------------
(* Unpacking: the index i of size bytes y. *)
Unpack2(y, i) == Shr(y[i \div 4], 2 * (i % 4)) % 4

Unpack3(y, size, i) ==
    LET byte   == (3 * i) \div 8
        offset == (3 * i) % 8
        spans  == offset + 3 > 8 /\ byte + 1 < size
    IN  (Shr(y[byte], offset) + (IF spans THEN Shl(y[byte + 1], 8 - offset) ELSE 0)) % 8

Unpack4(y, i) ==
    IF i % 2 = 0 THEN y[i \div 2] % 16 ELSE Shr(y[i \div 2], 4) % 16

Unpack(y, size, dim, width) ==
    [i \in 0..dim - 1 |->
        CASE width = 2 -> Unpack2(y, i)
          [] width = 3 -> Unpack3(y, size, i)
          [] width = 4 -> Unpack4(y, i)]

(* DeserializeQuantizedVector: only the exact length is accepted. *)
Deserialize(data, width, dim) ==
    IF data.size # IndexBytesNeeded(dim, width) THEN Error
    ELSE [norm |-> data.norm, dim |-> dim, at |-> Unpack(data.at, data.size, dim, width)]

(* DeserializeQuantizedVectorFrom: reads what it needs and leaves the rest. *)
DeserializeFrom(data, width, dim) ==
    IF data.size < IndexBytesNeeded(dim, width) THEN Error
    ELSE LET size == IndexBytesNeeded(dim, width)
         IN  [norm |-> data.norm, dim |-> dim, at |-> Unpack(data.at, size, dim, width)]

(* DeserializeQuantizedVectorBuf, over the contents of dst, with at least the *)
(* bytes of dim indices: four bits are read two at a time, without a mask on  *)
(* the upper half.                                                            *)
DeserializeBuf(data, width, dim, dst) ==
    [i \in DOMAIN dst |->
        CASE width = 2 /\ i < dim -> Unpack2(data.at, i)
          [] width = 3 /\ i < dim -> Unpack3(data.at, data.size, i)
          [] width = 4 /\ i < dim /\ i % 2 = 0 -> data.at[i \div 2] % 16
          [] width = 4 /\ i < dim /\ i % 2 = 1 -> Shr(data.at[i \div 2], 4)
          [] OTHER -> dst[i]]
=============================================================================
