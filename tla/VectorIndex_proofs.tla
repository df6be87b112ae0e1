-------------------------- MODULE VectorIndex_proofs -------------------------
(***************************************************************************)
(* Proofs about the vector index.  First its file, TqvStorage, for any     *)
(* number of processes, ids and failing calls: types, what a start finds,  *)
(* what a rename publishes, and that the protocol of Storage.Save          *)
(* implements the register of VectorFile.  Then what the file keeps of one *)
(* vector, Codec, what a search for the best of them returns,              *)
(* VectorSearch, how its results are fused with those of the lexical       *)
(* search and whose rows are returned, HybridSearch: the properties        *)
(* MCAlgorithms states of a call, for calls with arguments of any size.    *)
(***************************************************************************)
EXTENDS TqvStorage, MCAlgorithms, FiniteSetTheorems, SequenceTheorems, TLAPS

\* There is always an inode left for the next file: two names and one descriptor
\* per process refer to files, and Inode has more members than that.
LEMMA InodeLeft ==
  ASSUME TypeOK
  PROVE  /\ NewInode \in Inode /\ NewInode # None
         /\ NewInode # name["tqv"] /\ NewInode # name["tmp"]
         /\ \A p \in Proc : NewInode # fd[p]
<1> DEFINE open == {fd[p] : p \in Proc}
           taken == (open \cup {name["tqv"]}) \cup {name["tmp"]}
           openBy == [p \in Proc |-> fd[p]]
<1>1. IsFiniteSet(open) /\ Cardinality(open) <= Cardinality(Proc)
  <2>1. openBy \in Surjection(Proc, open)
    BY DEF Surjection
  <2> QED
    BY ONLY <2>1, FS_Surjection, StorageAssumption DEF StorageAssumption
<1>2. IsFiniteSet(taken) /\ Cardinality(taken) <= Cardinality(Proc) + 2
  <2>1. IsFiniteSet(Proc) /\ Cardinality(Proc) \in Nat
    BY StorageAssumption, FS_CardinalityType DEF StorageAssumption
  <2>2. Cardinality(open) \in Nat
    BY <1>1, FS_CardinalityType
  <2> HIDE DEF open
  <2>3. /\ IsFiniteSet(open \cup {name["tqv"]})
        /\ Cardinality(open \cup {name["tqv"]}) \in Nat
        /\ Cardinality(open \cup {name["tqv"]}) <= Cardinality(Proc) + 1
    BY <1>1, <2>1, <2>2, FS_AddElement, FS_CardinalityType
  <2> HIDE DEF taken
  <2> DEFINE two == open \cup {name["tqv"]}
  <2>4. taken = two \cup {name["tmp"]}
    BY DEF taken
  <2> HIDE DEF two
  <2>5. IsFiniteSet(two) /\ Cardinality(two) \in Nat /\ Cardinality(two) <= Cardinality(Proc) + 1
    BY <2>3 DEF two
  <2>6. /\ IsFiniteSet(two \cup {name["tmp"]})
        /\ Cardinality(two \cup {name["tmp"]}) <= Cardinality(two) + 1
    BY SMTT(20), <2>5, FS_AddElement
  <2>7. Cardinality(taken) \in Nat
    BY <2>4, <2>6, FS_CardinalityType
  <2> QED
    BY <2>1, <2>4, <2>5, <2>6, <2>7
<1>3. \E f \in Inode : f \notin taken
  <2> SUFFICES ASSUME Inode \subseteq taken PROVE FALSE
    OBVIOUS
  <2> HIDE DEF taken
  <2>1. IsFiniteSet(Inode) /\ Cardinality(Inode) <= Cardinality(taken)
    BY <1>2, FS_Subset
  <2>2. Cardinality(Inode) \in Nat /\ Cardinality(taken) \in Nat /\ Cardinality(Proc) \in Nat
    BY <1>2, <2>1, StorageAssumption, FS_CardinalityType DEF StorageAssumption
  <2> QED
    BY <1>2, <2>1, <2>2, StorageAssumption DEF StorageAssumption
<1>4. DOMAIN name = {"tqv", "tmp"}
  BY DEF TypeOK
<1>5. {name[n] : n \in DOMAIN name} = {name["tqv"], name["tmp"]}
  BY <1>4
<1>6. Unused = Inode \ taken
  BY <1>5 DEF Unused
<1>7. NewInode \in Inode \ taken
  BY <1>3, <1>6 DEF NewInode
<1> QED
  BY <1>7, StorageAssumption DEF StorageAssumption

LEMMA TypeInit == Init => TypeOK
<1> SUFFICES ASSUME Init PROVE TypeOK
  OBVIOUS
<1> USE DEF Init
<1>1. NewFile \in Content
  BY DEF NewFile, Content
<1>2. data \in [Inode -> Content]
  BY <1>1
<1>3. name \in [{"tqv", "tmp"} -> Inode \cup {None}]
  OBVIOUS
<1>4. faults \in 0 .. MaxFaults
  BY StorageAssumption DEF StorageAssumption
<1> QED
  BY <1>2, <1>3, <1>4 DEF TypeOK, Saving

LEMMA TypeStep == TypeOK /\ [Next]_vars => TypeOK'
<1> SUFFICES ASSUME TypeOK, [Next]_vars PROVE TypeOK'
  OBVIOUS
<1> USE StorageAssumption DEF TypeOK, StorageAssumption, Saving
<1>1. ASSUME NEW p \in Proc, Start(p) PROVE TypeOK'
  BY <1>1 DEF Start, Loaded, Loadable, Content
<1>2. ASSUME NEW p \in Proc, NEW i \in Id, Add(p, i) \/ Delete(p, i) PROVE TypeOK'
  BY <1>2 DEF Add, Delete
<1>3. ASSUME NEW p \in Proc, Save(p) PROVE TypeOK'
  BY <1>3 DEF Save, NoteOverlap
<1>4. ASSUME NEW p \in Proc, NEW active \in SUBSET Id, Compact(p, active) PROVE TypeOK'
  BY <1>4 DEF Compact, NoteOverlap
<1>5. ASSUME NEW p \in Proc, RemoveTmp(p) PROVE TypeOK'
  BY <1>5 DEF RemoveTmp, Fail
<1>6. ASSUME NEW p \in Proc, OpenTmp(p) PROVE TypeOK'
  <2>1. NewInode \in Inode /\ NewInode # None /\ NewInode # name["tqv"]
    BY InodeLeft
  <2> HIDE DEF NewInode
  <2>2. NewFile \in Content
    BY DEF NewFile, Content
  <2>3. CASE name["tmp"] = None
    <3>1. data' \in [Inode -> Content]
      BY <1>6, <2>1, <2>2, <2>3 DEF OpenTmp
    <3>2. /\ name' \in [{"tqv", "tmp"} -> Inode \cup {None}]
          /\ name'["tqv"] # None => name'["tqv"] # name'["tmp"]
      BY <1>6, <2>1, <2>3 DEF OpenTmp
    <3> QED
      BY <1>6, <2>1, <2>3, <3>1, <3>2 DEF OpenTmp
  <2>4. CASE name["tmp"] # None
    BY <1>6, <2>4 DEF OpenTmp
  <2> QED
    BY <2>3, <2>4
<1>7. ASSUME NEW p \in Proc, WriteHeader(p) PROVE TypeOK'
  BY <1>7 DEF WriteHeader, Content
<1>8. ASSUME NEW p \in Proc, WriteBody(p) PROVE TypeOK'
  <2>1. data' \in [Inode -> Content]
    <3>1. \A c \in Content : [c EXCEPT !.state = "whole", !.ids = mem[p]] \in Content
      BY DEF Content
    <3> HIDE DEF Content
    <3>2. \A i \in Inode : data[i] \in Content
      OBVIOUS
    <3>3. data' = [data EXCEPT ![fd[p]] = IF @.mixed THEN @ ELSE [@ EXCEPT !.state = "whole", !.ids = mem[p]]]
      BY <1>8 DEF WriteBody
    <3> QED
      BY <3>1, <3>2, <3>3
  <2> QED
    BY <1>8, <2>1 DEF WriteBody
<1>9. ASSUME NEW p \in Proc, Rename(p) PROVE TypeOK'
  BY <1>9 DEF Rename
<1>10. ASSUME NEW p \in Proc, SaveError(p) PROVE TypeOK'
  BY <1>10 DEF SaveError, Fail
<1>11. ASSUME NEW p \in Proc, End(p) PROVE TypeOK'
  BY <1>11 DEF End
<1>12. CASE UNCHANGED vars
  BY <1>12 DEF vars
<1> QED
  BY <1>1, <1>2, <1>3, <1>4, <1>5, <1>6, <1>7, <1>8, <1>9, <1>10, <1>11, <1>12
  DEF Next, SaveStep

\* Every variable keeps its type, whatever fails and however the processes overlap: a
\* process has a descriptor open exactly while it writes, and the temporary name never
\* refers to the .tqv file (Storage.Save).
THEOREM StorageTypesHold == Spec => []TypeOK
  BY TypeInit, TypeStep, PTL DEF Spec

(***************************************************************************)
(* While no two saves have overlapped, one process at a time is saving: the*)
(* file it writes is the one the temporary name refers to, nobody else has *)
(* it open, and when it comes to the rename that file holds its memory.    *)
(***************************************************************************)
OneSaver == \A p, q \in Proc : pc[p] \in Saving /\ pc[q] \in Saving => p = q
WritesTmp == \A p \in Proc : pc[p] \in {"header", "body"} => fd[p] = name["tmp"]
WritesAlone == \A p \in Proc : pc[p] = "body" => ~ data[fd[p]].mixed
TmpIsMemory ==
  \A p \in Proc : pc[p] = "rename" =>
    /\ name["tmp"] # None
    /\ data[name["tmp"]].state = "whole" /\ data[name["tmp"]].ids = mem[p]

SaveInv == ~ overlap => OneSaver /\ WritesTmp /\ WritesAlone /\ TmpIsMemory /\ Loadable

LEMMA SaveInvInit == Init => SaveInv
  BY DEF Init, SaveInv, OneSaver, WritesTmp, WritesAlone, TmpIsMemory, Loadable, Saving

LEMMA SaveInvStep == TypeOK /\ SaveInv /\ [Next]_vars => SaveInv'
<1> SUFFICES ASSUME TypeOK, SaveInv, [Next]_vars, ~ overlap' PROVE SaveInv'
  BY DEF SaveInv
<1> USE StorageAssumption DEF StorageAssumption, Saving, OneSaver, WritesTmp, WritesAlone,
        TmpIsMemory, Loadable
<1>0. ~ overlap
  BY DEF Next, SaveStep, vars, Start, Add, Delete, Save, Compact, NoteOverlap, RemoveTmp, OpenTmp,
         WriteHeader, WriteBody, Rename, SaveError, End, TypeOK
<1>1. ASSUME NEW p \in Proc, Start(p) PROVE SaveInv'
  BY <1>0, <1>1 DEF Start, SaveInv, TypeOK
<1>2. ASSUME NEW p \in Proc, NEW i \in Id, Add(p, i) \/ Delete(p, i) PROVE SaveInv'
  BY <1>0, <1>2 DEF Add, Delete, SaveInv, TypeOK
<1>3. ASSUME NEW p \in Proc, Save(p) \/ \E active \in SUBSET Id : Compact(p, active)
      PROVE  SaveInv'
  <2>1. /\ pc' = [pc EXCEPT ![p] = "remove"] /\ UNCHANGED <<fd, name, data>>
        /\ pc[p] = "ready" /\ NoteOverlap(p)
    BY <1>3 DEF Save, Compact
  <2>2. \A q \in Proc : pc'[q] \in Saving => q = p
    BY <1>0, <2>1 DEF NoteOverlap, TypeOK
  <2>3. pc'[p] = "remove"
    BY <2>1 DEF TypeOK
  <2>4. OneSaver' /\ WritesTmp' /\ WritesAlone' /\ TmpIsMemory'
    BY <2>2, <2>3
  <2>5. Loadable'
    BY <1>0, <2>1 DEF SaveInv
  <2> QED
    BY <2>4, <2>5 DEF SaveInv
<1>4. ASSUME NEW p \in Proc, RemoveTmp(p) PROVE SaveInv'
  BY <1>0, <1>4 DEF RemoveTmp, SaveInv, TypeOK
<1>5. ASSUME NEW p \in Proc, OpenTmp(p) PROVE SaveInv'
  <2>1. NewInode \in Inode /\ NewInode # None /\ NewInode # name["tqv"]
    BY InodeLeft
  <2> HIDE DEF NewInode
  <2> QED
    BY <1>0, <1>5, <2>1 DEF OpenTmp, SaveInv, TypeOK
<1>6. ASSUME NEW p \in Proc, WriteHeader(p) PROVE SaveInv'
  BY <1>0, <1>6 DEF WriteHeader, SaveInv, TypeOK
<1>7. ASSUME NEW p \in Proc, WriteBody(p) PROVE SaveInv'
  BY <1>0, <1>7 DEF WriteBody, SaveInv, TypeOK, Content
<1>8. ASSUME NEW p \in Proc, Rename(p) PROVE SaveInv'
  BY <1>0, <1>8 DEF Rename, SaveInv, TypeOK
<1>9. ASSUME NEW p \in Proc, SaveError(p) PROVE SaveInv'
  BY <1>0, <1>9 DEF SaveError, SaveInv, TypeOK
<1>10. ASSUME NEW p \in Proc, End(p) PROVE SaveInv'
  BY <1>0, <1>10 DEF End, SaveInv, TypeOK
<1>11. CASE UNCHANGED vars
  BY <1>11 DEF vars, SaveInv
<1> QED
  BY <1>1, <1>2, <1>3, <1>4, <1>5, <1>6, <1>7, <1>8, <1>9, <1>10, <1>11
  DEF Next, SaveStep

LEMMA SaveInvariance == Spec => [](TypeOK /\ SaveInv)
  BY TypeInit, TypeStep, SaveInvInit, SaveInvStep, PTL DEF Spec

\* Whatever a save was doing when its process ended or a call failed, the .tqv file is
\* absent or whole and NewIndex loads it, unless two saves have overlapped.
THEOREM FileAlwaysLoads == Spec => []FileLoads
<1>1. SaveInv => FileLoads
  BY DEF SaveInv, FileLoads
<1> QED
  BY <1>1, SaveInvariance, PTL

\* While no two saves have overlapped, only the process that renames changes what the
\* name refers to.
LEMMA RenamesOwn ==
  ASSUME TypeOK, SaveInv, ~ overlap, [Next]_vars,
         NEW p \in Proc, pc[p] = "rename", name' # name
  PROVE  Rename(p)
<1>1. OneSaver
  BY DEF SaveInv
<1>2. ASSUME NEW q \in Proc, RemoveTmp(q) \/ OpenTmp(q) PROVE FALSE
  BY <1>1, <1>2 DEF RemoveTmp, OpenTmp, OneSaver, Saving
<1>3. ASSUME NEW q \in Proc, Rename(q) PROVE q = p
  BY <1>1, <1>3 DEF Rename, OneSaver, Saving
<1> QED
  BY <1>2, <1>3
  DEF Next, SaveStep, vars, Start, Add, Delete, Save, Compact, WriteHeader, WriteBody, SaveError, End

\* The .tqv file only ever becomes what the process that renames has in memory: Index.mu
\* holds mem still from the first record to the rename (Index.Save, Index.Compact).
THEOREM RenamesPublishMemory == Spec => RenamePublishesIndex
<1> DEFINE Published ==
      \A p \in Proc : pc[p] = "rename" /\ name' # name /\ ~ overlap => Loaded' = mem[p]
<1>1. TypeOK /\ SaveInv /\ [Next]_vars => [Published]_vars
  <2> SUFFICES ASSUME TypeOK, SaveInv, [Next]_vars,
                      NEW p \in Proc, pc[p] = "rename", name' # name, ~ overlap
               PROVE  Loaded' = mem[p]
    OBVIOUS
  <2>1. Rename(p)
    BY RenamesOwn
  <2>2. name["tmp"] # None /\ data[name["tmp"]].ids = mem[p]
    BY DEF SaveInv, TmpIsMemory
  <2> QED
    BY <2>1, <2>2 DEF Rename, Loaded, TypeOK
<1>2. Spec => [][Published]_vars
  BY <1>1, SaveInvariance, PTL DEF Spec
<1> QED
  BY <1>2 DEF RenamePublishesIndex

(***************************************************************************)
(* The refinement.  A step that leaves overlap FALSE is a step of the      *)
(* register or does not show; every other step is Collide.                 *)
(***************************************************************************)
upNow == {p \in Proc : pc[p] # "down"}

LEMMA LoadedTyped == TypeOK => Loaded \in SUBSET Id
  BY DEF TypeOK, Loaded, Content

LEMMA InitIsRegisterInit == Init => Register!Init
  BY DEF Init, Register!Init, Loaded

LEMMA OverlapIsCollide ==
  ASSUME TypeOK', overlap' = TRUE
  PROVE  Register!Collide
<1>1. Loaded' \in SUBSET Id
  BY LoadedTyped DEF TypeOK, Loaded, Content
<1> QED
  BY <1>1 DEF Register!Collide, TypeOK

LEMMA StepIsRegisterStep ==
  ASSUME TypeOK, SaveInv, TypeOK', [Next]_vars
  PROVE  [Register!Next]_(Register!vars)
<1>1. CASE overlap' = TRUE
  BY <1>1, OverlapIsCollide DEF Register!Next
<1>2. CASE overlap' = FALSE
  <2> USE DEF TypeOK
  <2>0. overlap = FALSE
    BY <1>2
    DEF Next, SaveStep, vars, Start, Add, Delete, Save, Compact, NoteOverlap, RemoveTmp, OpenTmp,
        WriteHeader, WriteBody, Rename, SaveError, End
  <2>1. ASSUME NEW p \in Proc, Start(p) PROVE Register!Start(p) /\ UNCHANGED overlap
    BY <2>1 DEF Start, Register!Start, Loaded
  <2>2. ASSUME NEW p \in Proc, NEW i \in Id, Add(p, i)
        PROVE  Register!Add(p, i) /\ UNCHANGED overlap
    BY <2>2 DEF Add, Register!Add, Loaded
  <2>3. ASSUME NEW p \in Proc, NEW i \in Id, Delete(p, i)
        PROVE  Register!Drop(p, {i}) /\ UNCHANGED overlap
    BY <2>3 DEF Delete, Register!Drop, Loaded
  <2>4. ASSUME NEW p \in Proc, NEW active \in SUBSET Id, Compact(p, active)
        PROVE  Register!Drop(p, Id \ active) /\ UNCHANGED overlap
    <3>1. mem[p] \cap active = mem[p] \ (Id \ active)
      OBVIOUS
    <3> QED
      BY <1>2, <2>0, <2>4, <3>1 DEF Compact, Register!Drop, Loaded
  <2>5. ASSUME NEW p \in Proc, End(p) PROVE Register!End(p) /\ UNCHANGED overlap
    BY <2>5 DEF End, Register!End, Loaded
  <2>6. ASSUME NEW p \in Proc, Rename(p) PROVE Register!Save(p) /\ UNCHANGED overlap
    <3>1. name["tmp"] # None /\ data[name["tmp"]].ids = mem[p]
      BY <2>0, <2>6 DEF SaveInv, TmpIsMemory, Rename
    <3> QED
      BY <2>6, <3>1 DEF Rename, Register!Save, Loaded
  <2>7. ASSUME NEW p \in Proc,
               Save(p) \/ RemoveTmp(p) \/ OpenTmp(p) \/ WriteHeader(p) \/ WriteBody(p) \/ SaveError(p)
        PROVE  UNCHANGED (Register!vars)
    <3>1. UNCHANGED overlap
      BY <1>2, <2>0
    <3>2. UNCHANGED <<upNow, mem>>
      BY <2>7
      DEF Save, RemoveTmp, OpenTmp, WriteHeader, WriteBody, SaveError, Saving, upNow
    <3>3. UNCHANGED Loaded
      <4>1. CASE Save(p) \/ RemoveTmp(p) \/ SaveError(p)
        BY <4>1 DEF Save, RemoveTmp, SaveError, Loaded
      <4>2. CASE OpenTmp(p)
        BY <4>2, InodeLeft DEF OpenTmp, Loaded
      <4>3. ASSUME WriteHeader(p) \/ WriteBody(p) PROVE fd[p] # name["tqv"]
        BY <2>0, <4>3, StorageAssumption
        DEF SaveInv, WritesTmp, WriteHeader, WriteBody, StorageAssumption
      <4>4. CASE WriteHeader(p) \/ WriteBody(p)
        BY <4>3, <4>4 DEF WriteHeader, WriteBody, Loaded
      <4> QED
        BY <2>7, <4>1, <4>2, <4>4
    <3> QED
      BY <3>1, <3>2, <3>3 DEF Register!vars, upNow
  <2>8. CASE UNCHANGED vars
    BY <2>8 DEF vars, Register!vars, Loaded
  <2>9. ASSUME NEW p \in Proc, NEW ids \in SUBSET Id, Register!Drop(p, ids) PROVE Register!Use
    BY <2>9 DEF Register!Use
  <2>10. ASSUME NEW p \in Proc, NEW i \in Id, Register!Add(p, i) PROVE Register!Use
    BY <2>10 DEF Register!Use
  <2>11. ASSUME NEW p \in Proc, Register!Start(p) \/ Register!Save(p) \/ Register!End(p)
         PROVE  Register!Use
    BY <2>11 DEF Register!Use
  <2>12. ASSUME Register!Use /\ UNCHANGED overlap PROVE Register!Next
    BY <2>12 DEF Register!Next
  <2>13. ASSUME NEW i \in Id PROVE {i} \in SUBSET Id
    OBVIOUS
  <2>14. ASSUME NEW active \in SUBSET Id PROVE Id \ active \in SUBSET Id
    OBVIOUS
  <2> HIDE DEF TypeOK
  <2> QED
    BY <2>1, <2>2, <2>3, <2>4, <2>5, <2>6, <2>7, <2>8, <2>9, <2>10, <2>11, <2>12, <2>13, <2>14
    DEF Next, SaveStep
<1> QED
  BY <1>1, <1>2 DEF TypeOK

\* Storage.Save is an atomic register to every process that uses it, until two saves
\* overlap: a start reads the file, the rename is the write, and no other step, failing
\* call or crash between two system calls shows.
THEOREM SaveIsARegister == Spec => ImplementsVectorFile
<1>1. Init => Register!Init
  BY InitIsRegisterInit
<1>2. TypeOK /\ SaveInv /\ TypeOK' /\ [Next]_vars => [Register!Next]_(Register!vars)
  BY StepIsRegisterStep
<1> QED
  BY <1>1, <1>2, SaveInvariance, PTL DEF Spec, ImplementsVectorFile, Register!Spec

-----------------------------------------------------------------------------
(***************************************************************************)
(* The round trip of the codec, for vectors of every dimension: what       *)
(* Serialize packs, Deserialize and DeserializeFrom unpack.  Each width    *)
(* has a lemma on what its bytes hold, and one on what is read back.       *)
(***************************************************************************)
Digit(width) == 0 .. Pow2(width) - 1

LEMMA Powers ==
  /\ Pow2(0) = 1 /\ Pow2(1) = 2 /\ Pow2(2) = 4 /\ Pow2(3) = 8 /\ Pow2(4) = 16
  /\ Pow2(5) = 32 /\ Pow2(6) = 64 /\ Pow2(7) = 128 /\ Pow2(8) = 256
  BY DEF Pow2

LEMMA Digits == Digit(2) = 0 .. 3 /\ Digit(3) = 0 .. 7 /\ Digit(4) = 0 .. 15
  BY Powers DEF Digit

\* How many bytes dim indices take.
LEMMA Sizes ==
  ASSUME NEW dim \in Nat
  PROVE  /\ IndexBytesNeeded(dim, 2) = (dim + 3) \div 4
         /\ IndexBytesNeeded(dim, 3) = (3 * dim + 7) \div 8
         /\ IndexBytesNeeded(dim, 4) = (dim + 1) \div 2
  BY DEF IndexBytesNeeded

\* What is packed for index i: its own digit, and zero past the end.
LEMMA MaskedIs ==
  ASSUME NEW width \in Widths, NEW dim \in Nat, NEW x \in [0 .. dim - 1 -> Digit(width)],
         NEW i \in Nat
  PROVE  /\ Masked(x, dim, i, width) \in Digit(width)
         /\ i < dim => Masked(x, dim, i, width) = x[i]
<1>1. Pow2(width) \in {4, 8, 16}
  BY Powers DEF Widths
<1>2. CASE i < dim
  <2>1. x[i] \in Digit(width)
    BY <1>2
  <2>2. x[i] % Pow2(width) = x[i]
    <3>1. ASSUME NEW n \in {4, 8, 16}, NEW a \in 0 .. n - 1 PROVE a % n = a
      <4>1. CASE n = 4
        BY <4>1
      <4>2. CASE n = 8
        BY <4>2
      <4>3. CASE n = 16
        BY <4>3
      <4> QED
        BY <4>1, <4>2, <4>3
    <3> QED
      BY <1>1, <2>1, <3>1 DEF Digit
  <2> QED
    BY <1>2, <2>1, <2>2 DEF Masked
<1>3. CASE ~ i < dim
  BY <1>1, <1>3 DEF Masked, Digit
<1> QED
  BY <1>2, <1>3

-----------------------------------------------------------------------------
(***************************************************************************)
(* Two bits: four digits to a byte.                                        *)
(***************************************************************************)
LEMMA Shift2 ==
  \A a \in 0 .. 3 : Shl(a, 2) = 4 * a /\ Shl(a, 4) = 16 * a /\ Shl(a, 6) = 64 * a
  BY Powers DEF Shl

Byte2(a, c, d, e) == a + 4 * c + 16 * d + 64 * e

LEMMA Read2 ==
  ASSUME NEW a \in 0 .. 3, NEW c \in 0 .. 3, NEW d \in 0 .. 3, NEW e \in 0 .. 3
  PROVE  /\ Shr(Byte2(a, c, d, e), 0) % 4 = a /\ Shr(Byte2(a, c, d, e), 2) % 4 = c
         /\ Shr(Byte2(a, c, d, e), 4) % 4 = d /\ Shr(Byte2(a, c, d, e), 6) % 4 = e
  BY Powers DEF Shr, Byte2

LEMMA RoundTrip2 ==
  ASSUME NEW dim \in Nat, NEW x \in [0 .. dim - 1 -> Digit(2)], NEW y,
         y = [b \in 0 .. IndexBytesNeeded(dim, 2) - 1 |-> Pack2(x, dim, b)],
         NEW i \in 0 .. dim - 1
  PROVE  Unpack2(y, i) = x[i]
<1> DEFINE b == i \div 4
           m(k) == Masked(x, dim, 4 * b + k, 2)
<1>1. /\ b \in Nat /\ b \in 0 .. IndexBytesNeeded(dim, 2) - 1
      /\ i % 4 \in 0 .. 3 /\ i = 4 * b + (i % 4)
  <2>1. i \in Nat /\ i < dim
    OBVIOUS
  <2>2. b \in Nat /\ i % 4 \in 0 .. 3 /\ i = 4 * b + (i % 4)
    BY <2>1
  <2>3. b <= (dim + 3) \div 4 - 1
    BY <2>1, <2>2
  <2> QED
    BY <2>2, <2>3, Sizes
<1>2. ASSUME NEW k \in 0 .. 3 PROVE m(k) \in 0 .. 3
  <2>1. 4 * b + k \in Nat /\ 2 \in Widths
    BY <1>1 DEF Widths
  <2>2. m(k) \in Digit(2)
    BY ONLY <2>1, MaskedIs, dim \in Nat, x \in [0 .. dim - 1 -> Digit(2)]
  <2> QED
    BY <2>2, Digits
<1>3. x[i] = m(i % 4)
  <2>1. Masked(x, dim, i, 2) = x[i]
    BY MaskedIs DEF Widths
  <2> QED
    BY <1>1, <2>1
<1> HIDE DEF b, m
<1>4. y[b] = m(0) + 4 * m(1) + 16 * m(2) + 64 * m(3)
  <2>1. y[b] = Pack2(x, dim, b)
    BY <1>1
  <2>2. Pack2(x, dim, b) = m(0) + Shl(m(1), 2) + Shl(m(2), 4) + Shl(m(3), 6)
    BY <1>1 DEF Pack2, m
  <2> QED
    BY <1>2, <2>1, <2>2, Shift2
<1>5. /\ Shr(y[b], 0) % 4 = m(0) /\ Shr(y[b], 2) % 4 = m(1)
      /\ Shr(y[b], 4) % 4 = m(2) /\ Shr(y[b], 6) % 4 = m(3)
  <2>1. m(0) \in 0 .. 3 /\ m(1) \in 0 .. 3 /\ m(2) \in 0 .. 3 /\ m(3) \in 0 .. 3
    BY <1>2
  <2>2. y[b] = Byte2(m(0), m(1), m(2), m(3))
    BY ONLY <1>4 DEF Byte2
  <2> QED
    BY ONLY <2>1, <2>2, Read2
<1>6. Unpack2(y, i) = Shr(y[b], 2 * (i % 4)) % 4
  BY DEF Unpack2, b
<1>7. i % 4 = 0 \/ i % 4 = 1 \/ i % 4 = 2 \/ i % 4 = 3
  BY <1>1
<1> QED
  BY <1>3, <1>5, <1>6, <1>7

-----------------------------------------------------------------------------
(***************************************************************************)
(* Four bits: two digits to a byte.                                        *)
(***************************************************************************)
LEMMA Shift4 == \A a \in 0 .. 15 : Shl(a, 4) = 16 * a
  BY Powers DEF Shl

LEMMA Read4 ==
  ASSUME NEW a \in 0 .. 15, NEW c \in 0 .. 15
  PROVE  (a + 16 * c) % 16 = a /\ Shr(a + 16 * c, 4) % 16 = c /\ Shr(a + 16 * c, 4) = c
  BY Powers DEF Shr

LEMMA RoundTrip4 ==
  ASSUME NEW dim \in Nat, NEW x \in [0 .. dim - 1 -> Digit(4)], NEW y,
         y = [b \in 0 .. IndexBytesNeeded(dim, 4) - 1 |-> Pack4(x, dim, b)],
         NEW i \in 0 .. dim - 1
  PROVE  Unpack4(y, i) = x[i] /\ (i % 2 = 1 => Shr(y[i \div 2], 4) = x[i])
<1> DEFINE b == i \div 2
           m(k) == Masked(x, dim, 2 * b + k, 4)
<1>1. /\ b \in Nat /\ b \in 0 .. IndexBytesNeeded(dim, 4) - 1
      /\ i % 2 \in 0 .. 1 /\ i = 2 * b + (i % 2)
  <2>1. i \in Nat /\ i < dim
    OBVIOUS
  <2>2. b \in Nat /\ i % 2 \in 0 .. 1 /\ i = 2 * b + (i % 2)
    BY <2>1
  <2>3. b <= (dim + 1) \div 2 - 1
    BY <2>1, <2>2
  <2> QED
    BY <2>2, <2>3, Sizes
<1>2. ASSUME NEW k \in 0 .. 1 PROVE m(k) \in 0 .. 15
  <2>1. 2 * b + k \in Nat /\ 4 \in Widths
    BY <1>1 DEF Widths
  <2>2. m(k) \in Digit(4)
    BY ONLY <2>1, MaskedIs, dim \in Nat, x \in [0 .. dim - 1 -> Digit(4)]
  <2> QED
    BY <2>2, Digits
<1>3. x[i] = m(i % 2)
  <2>1. Masked(x, dim, i, 4) = x[i]
    BY MaskedIs DEF Widths
  <2> QED
    BY <1>1, <2>1
<1> HIDE DEF b, m
<1>4. y[b] = m(0) + 16 * m(1)
  <2>1. y[b] = Pack4(x, dim, b)
    BY <1>1
  <2>2. Pack4(x, dim, b) = m(0) + Shl(m(1), 4)
    BY <1>1 DEF Pack4, m
  <2> QED
    <3>1. m(0) \in 0 .. 15 /\ m(1) \in 0 .. 15
      BY <1>2
    <3>2. Shl(m(1), 4) = 16 * m(1)
      BY ONLY <3>1, Shift4
    <3> QED
      BY ONLY <2>1, <2>2, <3>2
<1>5. y[b] % 16 = m(0) /\ Shr(y[b], 4) % 16 = m(1) /\ Shr(y[b], 4) = m(1)
  <2>1. PICK a \in 0 .. 15, c \in 0 .. 15 : a = m(0) /\ c = m(1)
    BY SMTT(20), <1>2
  <2>2. (a + 16 * c) % 16 = a /\ Shr(a + 16 * c, 4) % 16 = c /\ Shr(a + 16 * c, 4) = c
    BY ONLY Read4
  <2>3. y[b] = a + 16 * c
    BY ONLY <1>4, <2>1
  <2> QED
    BY ONLY <2>1, <2>2, <2>3
<1> QED
  BY <1>1, <1>3, <1>5 DEF Unpack4, b
-----------------------------------------------------------------------------
(***************************************************************************)
(* Three bits: eight digits to three bytes.  Two of the eight have bits in *)
(* two bytes.                                                              *)
(***************************************************************************)
\* The digit i starts at bit o of byte b.
StartsAt(i, b, o) == b \in Nat /\ i \in Nat /\ o \in 0 .. 7 /\ 3 * i = 8 * b + o

LEMMA Place ==
  ASSUME NEW i, NEW b, NEW o, StartsAt(i, b, o)
  PROVE  (3 * i) \div 8 = b /\ (3 * i) % 8 = o
<1>1. b \in Nat /\ o \in 0 .. 7 /\ 3 * i = 8 * b + o
  BY DEF StartsAt
<1>2. (8 * b + o) \div 8 = b /\ (8 * b + o) % 8 = o
  BY <1>1
<1> QED
  BY <1>1, <1>2

LEMMA LowIs ==
  ASSUME NEW x, NEW dim, NEW i, NEW b, NEW o, StartsAt(i, b, o)
  PROVE  /\ Low(x, dim, b, i) = Shl(Masked(x, dim, i, 3), o)
         /\ o > 5 => Spill(x, dim, b + 1, i) = Shr(Masked(x, dim, i, 3), 8 - o)
         /\ o <= 5 => Spill(x, dim, b + 1, i) = 0
<1>1. b \in Nat /\ i \in Nat /\ o \in 0 .. 7 /\ b + 1 - 1 = b
  BY DEF StartsAt
<1>2. (3 * i) \div 8 = b /\ (3 * i) % 8 = o
  BY Place
<1> QED
  BY <1>1, <1>2 DEF Low, Spill

\* The digits of group g, and the three bytes of a group.
Group(x, dim, g) == [k \in 0 .. 7 |-> Masked(x, dim, 8 * g + k, 3)]

Byte3a(a0, a1, a2) == a0 + 8 * a1 + 64 * (a2 % 4)
Byte3b(a2, a3, a4, a5) == (a2 \div 4) + 2 * a3 + 16 * a4 + 128 * (a5 % 2)
Byte3c(a5, a6, a7) == (a5 \div 2) + 4 * a6 + 32 * a7

PacksInto(x, dim, g, m) ==
  /\ Pack3(x, dim, 3 * g) = Byte3a(m[0], m[1], m[2])
  /\ Pack3(x, dim, 3 * g + 1) = Byte3b(m[2], m[3], m[4], m[5])
  /\ Pack3(x, dim, 3 * g + 2) = Byte3c(m[5], m[6], m[7])

LEMMA Bytes3 ==
  ASSUME NEW dim \in Nat, NEW x \in [0 .. dim - 1 -> Digit(3)], NEW g \in Nat
  PROVE  /\ Group(x, dim, g) \in [0 .. 7 -> 0 .. 7]
         /\ PacksInto(x, dim, g, Group(x, dim, g))
<1>0. PICK m : m = Group(x, dim, g)
  OBVIOUS
<1>1. m \in [0 .. 7 -> 0 .. 7]
  <2>1. ASSUME NEW k \in 0 .. 7 PROVE Masked(x, dim, 8 * g + k, 3) \in 0 .. 7
    <3>1. 8 * g + k \in Nat /\ 3 \in Widths
      BY DEF Widths
    <3> QED
      BY <3>1, MaskedIs, Digits
  <2> QED
    BY <1>0, <2>1 DEF Group
<1>2. ASSUME NEW k \in 0 .. 7 PROVE m[k] \in 0 .. 7 /\ Masked(x, dim, 8 * g + k, 3) = m[k]
  BY <1>0, <1>1 DEF Group
<1>3. ASSUME NEW k \in 0 .. 7, NEW b, NEW o, StartsAt(8 * g + k, b, o)
      PROVE  /\ Low(x, dim, b, 8 * g + k) = Shl(m[k], o)
             /\ o > 5 => Spill(x, dim, b + 1, 8 * g + k) = Shr(m[k], 8 - o)
  <2>1. /\ Low(x, dim, b, 8 * g + k) = Shl(Masked(x, dim, 8 * g + k, 3), o)
        /\ o > 5 => Spill(x, dim, b + 1, 8 * g + k) = Shr(Masked(x, dim, 8 * g + k, 3), 8 - o)
    BY ONLY <1>3, LowIs
  <2> QED
    BY ONLY <2>1, <1>2
<1>4. Pack3(x, dim, 3 * g) = m[0] + 8 * m[1] + 64 * (m[2] % 4)
  <2>0. /\ m[0] \in 0 .. 7 /\ m[1] \in 0 .. 7 /\ m[2] \in 0 .. 7 /\ m[3] \in 0 .. 7
        /\ m[4] \in 0 .. 7 /\ m[5] \in 0 .. 7 /\ m[6] \in 0 .. 7 /\ m[7] \in 0 .. 7
    BY <1>2
  <2>1. (8 * (3 * g) + 2) \div 3 = 8 * g
    OBVIOUS
  <2>2. Low(x, dim, 3 * g, 8 * g) = m[0]
    <3>1. StartsAt(8 * g + 0, 3 * g, 0)
      BY DEF StartsAt
    <3>2. Low(x, dim, 3 * g, 8 * g + 0) = Shl(m[0], 0)
      BY <3>1, <1>3
    <3>3. 8 * g + 0 = 8 * g
      OBVIOUS
    <3>4. m[0] \in 0 .. 7
      BY <1>2
    <3>5. Shl(m[0], 0) = m[0]
      BY ONLY <3>4, Powers DEF Shl
    <3> QED
      BY ONLY <3>2, <3>3, <3>5
  <2>3. Low(x, dim, 3 * g, 8 * g + 1) = 8 * m[1]
    <3>1. StartsAt(8 * g + 1, 3 * g, 3)
      BY DEF StartsAt
    <3>2. Low(x, dim, 3 * g, 8 * g + 1) = Shl(m[1], 3)
      BY <3>1, <1>3
    <3>3. m[1] \in 0 .. 7
      BY <1>2
    <3> QED
      BY ONLY <3>2, <3>3, Powers DEF Shl
  <2>4. Low(x, dim, 3 * g, 8 * g + 2) = 64 * (m[2] % 4)
    <3>1. StartsAt(8 * g + 2, 3 * g, 6)
      BY DEF StartsAt
    <3>2. Low(x, dim, 3 * g, 8 * g + 2) = Shl(m[2], 6)
      BY <3>1, <1>3
    <3>3. m[2] \in 0 .. 7
      BY <1>2
    <3> QED
      BY ONLY <3>2, <3>3, Powers DEF Shl
  <2>5. Spill(x, dim, 3 * g, 8 * g - 1) = 0
    <3>1. CASE g = 0
      BY <3>1 DEF Spill
    <3>2. CASE g > 0
      <4>1. StartsAt(8 * g - 1, 3 * g - 1, 5)
        BY <3>2 DEF StartsAt
      <4>2. Spill(x, dim, 3 * g - 1 + 1, 8 * g - 1) = 0
        BY ONLY <4>1, LowIs
      <4> QED
        BY <4>2
    <3> QED
      BY <3>1, <3>2
  <2>6. Pack3(x, dim, 3 * g) =
          Spill(x, dim, 3 * g, 8 * g - 1) + Low(x, dim, 3 * g, 8 * g)
            + Low(x, dim, 3 * g, 8 * g + 1) + Low(x, dim, 3 * g, 8 * g + 2)
    BY ONLY <2>1 DEF Pack3
  <2>7. Pack3(x, dim, 3 * g) = 0 + m[0] + 8 * m[1] + 64 * (m[2] % 4)
    BY ONLY <2>2, <2>3, <2>4, <2>5, <2>6
  <2>8. \A a \in 0 .. 7 : 0 + a = a
    OBVIOUS
  <2>9. 0 + m[0] = m[0]
    BY ONLY <2>0, <2>8
  <2> QED
    BY ONLY <2>7, <2>9
<1>5. Pack3(x, dim, 3 * g + 1) = (m[2] \div 4) + 2 * m[3] + 16 * m[4] + 128 * (m[5] % 2)
  <2>0. /\ m[0] \in 0 .. 7 /\ m[1] \in 0 .. 7 /\ m[2] \in 0 .. 7 /\ m[3] \in 0 .. 7
        /\ m[4] \in 0 .. 7 /\ m[5] \in 0 .. 7 /\ m[6] \in 0 .. 7 /\ m[7] \in 0 .. 7
    BY <1>2
  <2>1. (8 * (3 * g + 1) + 2) \div 3 = 8 * g + 3
    OBVIOUS
  <2>2. Low(x, dim, 3 * g + 1, 8 * g + 3) = 2 * m[3]
    <3>1. StartsAt(8 * g + 3, 3 * g + 1, 1)
      BY DEF StartsAt
    <3>2. Low(x, dim, 3 * g + 1, 8 * g + 3) = Shl(m[3], 1)
      BY <3>1, <1>3
    <3>3. m[3] \in 0 .. 7
      BY <1>2
    <3> QED
      BY ONLY <3>2, <3>3, Powers DEF Shl
  <2>3. Low(x, dim, 3 * g + 1, 8 * g + 4) = 16 * m[4]
    <3>1. StartsAt(8 * g + 4, 3 * g + 1, 4)
      BY DEF StartsAt
    <3>2. Low(x, dim, 3 * g + 1, 8 * g + 4) = Shl(m[4], 4)
      BY <3>1, <1>3
    <3>3. m[4] \in 0 .. 7
      BY <1>2
    <3> QED
      BY ONLY <3>2, <3>3, Powers DEF Shl
  <2>4. Low(x, dim, 3 * g + 1, 8 * g + 5) = 128 * (m[5] % 2)
    <3>1. StartsAt(8 * g + 5, 3 * g + 1, 7)
      BY DEF StartsAt
    <3>2. Low(x, dim, 3 * g + 1, 8 * g + 5) = Shl(m[5], 7)
      BY <3>1, <1>3
    <3>3. m[5] \in 0 .. 7
      BY <1>2
    <3> QED
      BY ONLY <3>2, <3>3, Powers DEF Shl
  <2>5. Spill(x, dim, 3 * g + 1, 8 * g + 2) = m[2] \div 4
    <3>1. StartsAt(8 * g + 2, 3 * g, 6)
      BY DEF StartsAt
    <3>2. Spill(x, dim, 3 * g + 1, 8 * g + 2) = Shr(m[2], 8 - 6)
      BY <3>1, <1>3
    <3>3. 8 - 6 = 2
      OBVIOUS
    <3> QED
      BY ONLY <3>2, <3>3, Powers DEF Shr
  <2>6. Pack3(x, dim, 3 * g + 1) =
          Spill(x, dim, 3 * g + 1, 8 * g + 3 - 1) + Low(x, dim, 3 * g + 1, 8 * g + 3)
            + Low(x, dim, 3 * g + 1, 8 * g + 3 + 1) + Low(x, dim, 3 * g + 1, 8 * g + 3 + 2)
    BY ONLY <2>1 DEF Pack3
  <2>7. /\ 8 * g + 3 - 1 = 8 * g + 2 /\ 8 * g + 3 + 1 = 8 * g + 4
        /\ 8 * g + 3 + 2 = 8 * g + 5
    OBVIOUS
  <2> QED
    BY ONLY <2>0, <2>2, <2>3, <2>4, <2>5, <2>6, <2>7
<1>6. Pack3(x, dim, 3 * g + 2) = (m[5] \div 2) + 4 * m[6] + 32 * m[7]
  <2>0. /\ m[0] \in 0 .. 7 /\ m[1] \in 0 .. 7 /\ m[2] \in 0 .. 7 /\ m[3] \in 0 .. 7
        /\ m[4] \in 0 .. 7 /\ m[5] \in 0 .. 7 /\ m[6] \in 0 .. 7 /\ m[7] \in 0 .. 7
    BY <1>2
  <2>1. (8 * (3 * g + 2) + 2) \div 3 = 8 * g + 6
    OBVIOUS
  <2>2. Low(x, dim, 3 * g + 2, 8 * g + 6) = 4 * m[6]
    <3>1. StartsAt(8 * g + 6, 3 * g + 2, 2)
      BY DEF StartsAt
    <3>2. Low(x, dim, 3 * g + 2, 8 * g + 6) = Shl(m[6], 2)
      BY <3>1, <1>3
    <3>3. m[6] \in 0 .. 7
      BY <1>2
    <3> QED
      BY ONLY <3>2, <3>3, Powers DEF Shl
  <2>3. Low(x, dim, 3 * g + 2, 8 * g + 7) = 32 * m[7]
    <3>1. StartsAt(8 * g + 7, 3 * g + 2, 5)
      BY DEF StartsAt
    <3>2. Low(x, dim, 3 * g + 2, 8 * g + 7) = Shl(m[7], 5)
      BY <3>1, <1>3
    <3>3. m[7] \in 0 .. 7
      BY <1>2
    <3> QED
      BY ONLY <3>2, <3>3, Powers DEF Shl
  <2>4. Low(x, dim, 3 * g + 2, 8 * g + 8) = 0
    <3>1. StartsAt(8 * g + 8, 3 * g + 3, 0)
      BY DEF StartsAt
    <3>2. (3 * (8 * g + 8)) \div 8 = 3 * g + 3
      BY <3>1, Place
    <3> QED
      BY <3>2 DEF Low
  <2>5. Spill(x, dim, 3 * g + 2, 8 * g + 5) = m[5] \div 2
    <3>1. StartsAt(8 * g + 5, 3 * g + 1, 7)
      BY DEF StartsAt
    <3>2. Spill(x, dim, 3 * g + 1 + 1, 8 * g + 5) = Shr(m[5], 8 - 7)
      BY <3>1, <1>3
    <3>3. 8 - 7 = 1
      OBVIOUS
    <3> QED
      BY ONLY <3>2, <3>3, Powers DEF Shr
  <2>6. Pack3(x, dim, 3 * g + 2) =
          Spill(x, dim, 3 * g + 2, 8 * g + 6 - 1) + Low(x, dim, 3 * g + 2, 8 * g + 6)
            + Low(x, dim, 3 * g + 2, 8 * g + 6 + 1) + Low(x, dim, 3 * g + 2, 8 * g + 6 + 2)
    BY ONLY <2>1 DEF Pack3
  <2>7. /\ 8 * g + 6 - 1 = 8 * g + 5 /\ 8 * g + 6 + 1 = 8 * g + 7
        /\ 8 * g + 6 + 2 = 8 * g + 8
    OBVIOUS
  <2>9. Pack3(x, dim, 3 * g + 2) = (m[5] \div 2) + 4 * m[6] + 32 * m[7] + 0
    BY ONLY <2>2, <2>3, <2>4, <2>5, <2>6, <2>7
  <2>8. (m[5] \div 2) + 4 * m[6] + 32 * m[7] \in Int
    <3>1. \A a, c, d \in 0 .. 7 : (a \div 2) + 4 * c + 32 * d \in Int
      OBVIOUS
    <3>2. m[5] \in 0 .. 7 /\ m[6] \in 0 .. 7 /\ m[7] \in 0 .. 7
      BY ONLY <2>0
    <3> QED
      BY ONLY <3>1, <3>2
  <2>10. \A a \in Int : a + 0 = a
    OBVIOUS
  <2> QED
    BY ONLY <2>8, <2>9, <2>10
<1> QED
  BY ONLY <1>0, <1>1, <1>4, <1>5, <1>6 DEF PacksInto, Byte3a, Byte3b, Byte3c

(* What Unpack3 makes of a byte v, and of v and the byte w after it. *)
Alone(v, o) == (Shr(v, o) + 0) % 8
Across(v, w, o) == (Shr(v, o) + Shl(w, 8 - o)) % 8

\* What the shifts read of the three bytes of a group.
LEMMA ReadGroup ==
  ASSUME NEW m \in [0 .. 7 -> 0 .. 7]
  PROVE  /\ Alone(Byte3a(m[0], m[1], m[2]), 0) = m[0]
         /\ Alone(Byte3a(m[0], m[1], m[2]), 3) = m[1]
         /\ Across(Byte3a(m[0], m[1], m[2]), Byte3b(m[2], m[3], m[4], m[5]), 6) = m[2]
         /\ Alone(Byte3b(m[2], m[3], m[4], m[5]), 1) = m[3]
         /\ Alone(Byte3b(m[2], m[3], m[4], m[5]), 4) = m[4]
         /\ Across(Byte3b(m[2], m[3], m[4], m[5]), Byte3c(m[5], m[6], m[7]), 7) = m[5]
         /\ Alone(Byte3c(m[5], m[6], m[7]), 2) = m[6]
         /\ Alone(Byte3c(m[5], m[6], m[7]), 5) = m[7]
<1>1. PICK a0 \in 0 .. 7, a1 \in 0 .. 7, a2 \in 0 .. 7, a3 \in 0 .. 7 :
         a0 = m[0] /\ a1 = m[1] /\ a2 = m[2] /\ a3 = m[3]
  <2>1. m[0] \in 0 .. 7 /\ m[1] \in 0 .. 7 /\ m[2] \in 0 .. 7 /\ m[3] \in 0 .. 7
    BY ONLY m \in [0 .. 7 -> 0 .. 7]
  <2> WITNESS m[0] \in 0 .. 7, m[1] \in 0 .. 7, m[2] \in 0 .. 7, m[3] \in 0 .. 7
  <2> QED
    OBVIOUS
<1>2. PICK a4 \in 0 .. 7, a5 \in 0 .. 7, a6 \in 0 .. 7, a7 \in 0 .. 7 :
         a4 = m[4] /\ a5 = m[5] /\ a6 = m[6] /\ a7 = m[7]
  <2>1. m[4] \in 0 .. 7 /\ m[5] \in 0 .. 7 /\ m[6] \in 0 .. 7 /\ m[7] \in 0 .. 7
    BY ONLY m \in [0 .. 7 -> 0 .. 7]
  <2> WITNESS m[4] \in 0 .. 7, m[5] \in 0 .. 7, m[6] \in 0 .. 7, m[7] \in 0 .. 7
  <2> QED
    OBVIOUS
<1>3. Alone(Byte3a(a0, a1, a2), 0) = a0
  BY Powers DEF Shr, Byte3a, Alone
<1>4. Alone(Byte3a(a0, a1, a2), 3) = a1
  BY Powers DEF Shr, Byte3a, Alone
<1>5. Across(Byte3a(a0, a1, a2), Byte3b(a2, a3, a4, a5), 6) = a2
  <2>1. PICK h \in 0 .. 1, l \in 0 .. 3, l5 \in 0 .. 1 :
           a2 \div 4 = h /\ a2 % 4 = l /\ a5 % 2 = l5
    OBVIOUS
  <2>2. a2 = 4 * h + l
    BY ONLY <2>1, a2 \in 0 .. 7
  <2>3. Shr(Byte3a(a0, a1, a2), 6) = l
    <3>1. (a0 + 8 * a1 + 64 * l) \div 64 = l
      OBVIOUS
    <3> QED
      BY <2>1, <3>1, Powers DEF Shr, Byte3a
  <2>4. PICK k \in 0 .. 31 : Shl(Byte3b(a2, a3, a4, a5), 2) = 4 * h + 8 * k
    <3> DEFINE k == a3 + 8 * (a4 % 4)
    <3>1. (4 * h + 8 * a3 + 64 * a4 + 512 * l5) % 256 = 4 * h + 8 * k
      OBVIOUS
    <3>2. (h + 2 * a3 + 16 * a4 + 128 * l5) * 4 = 4 * h + 8 * a3 + 64 * a4 + 512 * l5
      OBVIOUS
    <3>3. Byte3b(a2, a3, a4, a5) = h + 2 * a3 + 16 * a4 + 128 * l5
      BY <2>1 DEF Byte3b
    <3>4. k \in 0 .. 31
      OBVIOUS
    <3> QED
      BY <3>1, <3>2, <3>3, <3>4, Powers DEF Shl
  <2>6. 8 - 6 = 2
    OBVIOUS
  <2>5. (l + (4 * h + 8 * k)) % 8 = 4 * h + l
    OBVIOUS
  <2> QED
    BY ONLY <2>2, <2>3, <2>4, <2>5, <2>6 DEF Across
<1>6. Alone(Byte3b(a2, a3, a4, a5), 1) = a3
  <2>1. PICK h \in 0 .. 1, l5 \in 0 .. 1 : a2 \div 4 = h /\ a5 % 2 = l5
    OBVIOUS
  <2>2. (h + 2 * a3 + 16 * a4 + 128 * l5) \div 2 = a3 + 8 * (a4 + 8 * l5)
    OBVIOUS
  <2>3. Shr(Byte3b(a2, a3, a4, a5), 1) = a3 + 8 * (a4 + 8 * l5)
    BY <2>1, <2>2, Powers DEF Shr, Byte3b
  <2>4. ((a3 + 8 * (a4 + 8 * l5)) + 0) % 8 = a3
    OBVIOUS
  <2> QED
    BY ONLY <2>3, <2>4 DEF Alone
<1>7. Alone(Byte3b(a2, a3, a4, a5), 4) = a4
  <2>1. PICK h \in 0 .. 1, l5 \in 0 .. 1 : a2 \div 4 = h /\ a5 % 2 = l5
    OBVIOUS
  <2>2. (h + 2 * a3 + 16 * a4 + 128 * l5) \div 16 = a4 + 8 * l5
    OBVIOUS
  <2>3. Shr(Byte3b(a2, a3, a4, a5), 4) = a4 + 8 * l5
    BY <2>1, <2>2, Powers DEF Shr, Byte3b
  <2>4. ((a4 + 8 * l5) + 0) % 8 = a4
    OBVIOUS
  <2> QED
    BY ONLY <2>3, <2>4 DEF Alone
<1>8. Across(Byte3b(a2, a3, a4, a5), Byte3c(a5, a6, a7), 7) = a5
  <2>1. PICK h \in 0 .. 1, l5 \in 0 .. 1, h5 \in 0 .. 3 :
           a2 \div 4 = h /\ a5 % 2 = l5 /\ a5 \div 2 = h5
    OBVIOUS
  <2>2. a5 = 2 * h5 + l5
    BY ONLY <2>1, a5 \in 0 .. 7
  <2>3. Shr(Byte3b(a2, a3, a4, a5), 7) = l5
    <3>1. (h + 2 * a3 + 16 * a4 + 128 * l5) \div 128 = l5
      OBVIOUS
    <3> QED
      BY <2>1, <3>1, Powers DEF Shr, Byte3b
  <2>4. PICK k \in 0 .. 31 : Shl(Byte3c(a5, a6, a7), 1) = 2 * h5 + 8 * k
    <3> DEFINE k == a6 + 8 * (a7 % 4)
    <3>1. (2 * h5 + 8 * a6 + 64 * a7) % 256 = 2 * h5 + 8 * k
      OBVIOUS
    <3>2. (h5 + 4 * a6 + 32 * a7) * 2 = 2 * h5 + 8 * a6 + 64 * a7
      OBVIOUS
    <3>3. Byte3c(a5, a6, a7) = h5 + 4 * a6 + 32 * a7
      BY <2>1 DEF Byte3c
    <3>4. k \in 0 .. 31
      OBVIOUS
    <3> QED
      BY <3>1, <3>2, <3>3, <3>4, Powers DEF Shl
  <2>6. 8 - 7 = 1
    OBVIOUS
  <2>5. (l5 + (2 * h5 + 8 * k)) % 8 = 2 * h5 + l5
    OBVIOUS
  <2> QED
    BY ONLY <2>2, <2>3, <2>4, <2>5, <2>6 DEF Across
<1>9. Alone(Byte3c(a5, a6, a7), 2) = a6
  BY Powers DEF Shr, Byte3c, Alone
<1>10. Alone(Byte3c(a5, a6, a7), 5) = a7
  BY Powers DEF Shr, Byte3c, Alone
<1> QED
  BY ONLY <1>1, <1>2, <1>3, <1>4, <1>5, <1>6, <1>7, <1>8, <1>9, <1>10

\* The digit i lies in byte b, or in byte b and the byte c of the size bytes.
Inside(i, b, o) == StartsAt(i, b, o) /\ o <= 5
Astride(i, b, c, o, size) == StartsAt(i, b, o) /\ o > 5 /\ c = b + 1 /\ c < size

\* Unpack3 at an index whose place in the bytes is known.
LEMMA UnpackInside ==
  ASSUME NEW y, NEW size, NEW i, NEW b, NEW o, Inside(i, b, o)
  PROVE  Unpack3(y, size, i) = Alone(y[b], o)
<1>1. (3 * i) \div 8 = b /\ (3 * i) % 8 = o
  BY Place DEF Inside
<1>2. b \in Nat /\ o \in 0 .. 5 /\ ~ o + 3 > 8
  BY DEF Inside, StartsAt
<1> QED
  BY <1>1, <1>2 DEF Unpack3, Alone

LEMMA UnpackAstride ==
  ASSUME NEW y, NEW size, NEW i, NEW b, NEW c, NEW o, Astride(i, b, c, o, size)
  PROVE  Unpack3(y, size, i) = Across(y[b], y[c], o)
<1>1. (3 * i) \div 8 = b /\ (3 * i) % 8 = o
  BY Place DEF Astride
<1>2. b \in Nat /\ o \in 6 .. 7 /\ o + 3 > 8 /\ b + 1 = c /\ b + 1 < size
  BY DEF Astride, StartsAt
<1> QED
  BY <1>1, <1>2 DEF Unpack3, Across

LEMMA RoundTrip3 ==
  ASSUME NEW dim \in Nat, NEW x \in [0 .. dim - 1 -> Digit(3)], NEW y,
         y = [b \in 0 .. IndexBytesNeeded(dim, 3) - 1 |-> Pack3(x, dim, b)],
         NEW i \in 0 .. dim - 1
  PROVE  Unpack3(y, IndexBytesNeeded(dim, 3), i) = x[i]
<1> DEFINE size == IndexBytesNeeded(dim, 3)
           g == i \div 8
           r == i % 8
           m == Group(x, dim, g)
<1>1. i \in Nat /\ i < dim /\ g \in Nat /\ r \in 0 .. 7 /\ i = 8 * g + r
  <2>1. i \in Nat /\ i < dim
    OBVIOUS
  <2> QED
    BY <2>1
<1>2. size \in Nat /\ size = (3 * dim + 7) \div 8
  <2>1. size = (3 * dim + 7) \div 8
    BY Sizes
  <2> QED
    BY <2>1
<1>3. x[i] = m[r]
  <2>1. Masked(x, dim, i, 3) = x[i]
    BY <1>1, MaskedIs DEF Widths
  <2> QED
    BY <1>1, <2>1 DEF Group
<1>4. m \in [0 .. 7 -> 0 .. 7] /\ PacksInto(x, dim, g, m)
  <2>1. g \in Nat
    BY <1>1
  <2> HIDE DEF g
  <2> QED
    BY ONLY <2>1, Bytes3, dim \in Nat, x \in [0 .. dim - 1 -> Digit(3)]
<1>5. ASSUME NEW b \in Nat, b < size PROVE y[b] = Pack3(x, dim, b)
  <2>1. b \in 0 .. IndexBytesNeeded(dim, 3) - 1
    BY <1>2, <1>5
  <2> QED
    BY <2>1
<1> HIDE DEF size, g, r, m
<1>6. /\ m[0] \in 0 .. 7 /\ m[1] \in 0 .. 7 /\ m[2] \in 0 .. 7 /\ m[3] \in 0 .. 7
      /\ m[4] \in 0 .. 7 /\ m[5] \in 0 .. 7 /\ m[6] \in 0 .. 7 /\ m[7] \in 0 .. 7
  BY <1>4
<1>7. 3 * g < size
  BY <1>1, <1>2
<1>8. r >= 2 => 3 * g + 1 < size
  BY <1>1, <1>2
<1>9. r >= 5 => 3 * g + 2 < size
  BY <1>1, <1>2
<1>10. y[3 * g] = Byte3a(m[0], m[1], m[2])
  BY <1>1, <1>4, <1>5, <1>7 DEF PacksInto
<1>11. r >= 2 => y[3 * g + 1] = Byte3b(m[2], m[3], m[4], m[5])
  BY <1>1, <1>4, <1>5, <1>8 DEF PacksInto
<1>12. r >= 5 => y[3 * g + 2] = Byte3c(m[5], m[6], m[7])
  BY <1>1, <1>4, <1>5, <1>9 DEF PacksInto
<1>13. /\ Alone(Byte3a(m[0], m[1], m[2]), 0) = m[0]
       /\ Alone(Byte3a(m[0], m[1], m[2]), 3) = m[1]
       /\ Across(Byte3a(m[0], m[1], m[2]), Byte3b(m[2], m[3], m[4], m[5]), 6) = m[2]
       /\ Alone(Byte3b(m[2], m[3], m[4], m[5]), 1) = m[3]
       /\ Alone(Byte3b(m[2], m[3], m[4], m[5]), 4) = m[4]
       /\ Across(Byte3b(m[2], m[3], m[4], m[5]), Byte3c(m[5], m[6], m[7]), 7) = m[5]
       /\ Alone(Byte3c(m[5], m[6], m[7]), 2) = m[6]
       /\ Alone(Byte3c(m[5], m[6], m[7]), 5) = m[7]
  BY ONLY <1>4, ReadGroup
<1>14. Unpack3(y, size, i) = m[r]
  <2>1. CASE r = 0
    <3>1. Inside(i, 3 * g, 0)
      BY <1>1, <2>1 DEF Inside, StartsAt
    <3>2. Unpack3(y, size, i) = Alone(y[3 * g], 0)
      BY ONLY <3>1, UnpackInside
    <3>3. y[3 * g] = Byte3a(m[0], m[1], m[2])
      BY ONLY <1>10, <2>1
    <3> QED
      BY ONLY <1>13, <2>1, <3>2, <3>3
  <2>2. CASE r = 1
    <3>1. Inside(i, 3 * g, 3)
      BY <1>1, <2>2 DEF Inside, StartsAt
    <3>2. Unpack3(y, size, i) = Alone(y[3 * g], 3)
      BY ONLY <3>1, UnpackInside
    <3>3. y[3 * g] = Byte3a(m[0], m[1], m[2])
      BY ONLY <1>10, <2>2
    <3> QED
      BY ONLY <1>13, <2>2, <3>2, <3>3
  <2>3. CASE r = 2
    <3>1. Astride(i, 3 * g, 3 * g + 1, 6, size)
      BY <1>1, <1>8, <2>3 DEF Astride, StartsAt
    <3>2. Unpack3(y, size, i) = Across(y[3 * g], y[3 * g + 1], 6)
      BY ONLY <3>1, UnpackAstride
    <3>3. y[3 * g] = Byte3a(m[0], m[1], m[2]) /\ y[3 * g + 1] = Byte3b(m[2], m[3], m[4], m[5])
      BY ONLY <1>10, <1>11, <2>3
    <3> QED
      BY ONLY <1>13, <2>3, <3>2, <3>3
  <2>4. CASE r = 3
    <3>1. Inside(i, 3 * g + 1, 1)
      BY <1>1, <2>4 DEF Inside, StartsAt
    <3>2. Unpack3(y, size, i) = Alone(y[3 * g + 1], 1)
      BY ONLY <3>1, UnpackInside
    <3>3. y[3 * g + 1] = Byte3b(m[2], m[3], m[4], m[5])
      BY ONLY <1>11, <2>4
    <3> QED
      BY ONLY <1>13, <2>4, <3>2, <3>3
  <2>5. CASE r = 4
    <3>1. Inside(i, 3 * g + 1, 4)
      BY <1>1, <2>5 DEF Inside, StartsAt
    <3>2. Unpack3(y, size, i) = Alone(y[3 * g + 1], 4)
      BY ONLY <3>1, UnpackInside
    <3>3. y[3 * g + 1] = Byte3b(m[2], m[3], m[4], m[5])
      BY ONLY <1>11, <2>5
    <3> QED
      BY ONLY <1>13, <2>5, <3>2, <3>3
  <2>6. CASE r = 5
    <3>1. Astride(i, 3 * g + 1, 3 * g + 2, 7, size)
      BY <1>1, <1>9, <2>6 DEF Astride, StartsAt
    <3>2. Unpack3(y, size, i) = Across(y[3 * g + 1], y[3 * g + 2], 7)
      BY ONLY <3>1, UnpackAstride
    <3>3. y[3 * g + 1] = Byte3b(m[2], m[3], m[4], m[5]) /\ y[3 * g + 2] = Byte3c(m[5], m[6], m[7])
      BY ONLY <1>11, <1>12, <2>6
    <3> QED
      BY ONLY <1>13, <2>6, <3>2, <3>3
  <2>7. CASE r = 6
    <3>1. Inside(i, 3 * g + 2, 2)
      BY <1>1, <2>7 DEF Inside, StartsAt
    <3>2. Unpack3(y, size, i) = Alone(y[3 * g + 2], 2)
      BY ONLY <3>1, UnpackInside
    <3>3. y[3 * g + 2] = Byte3c(m[5], m[6], m[7])
      BY ONLY <1>12, <2>7
    <3> QED
      BY ONLY <1>13, <2>7, <3>2, <3>3
  <2>8. CASE r = 7
    <3>1. Inside(i, 3 * g + 2, 5)
      BY <1>1, <2>8 DEF Inside, StartsAt
    <3>2. Unpack3(y, size, i) = Alone(y[3 * g + 2], 5)
      BY ONLY <3>1, UnpackInside
    <3>3. y[3 * g + 2] = Byte3c(m[5], m[6], m[7])
      BY ONLY <1>12, <2>8
    <3> QED
      BY ONLY <1>13, <2>8, <3>2, <3>3
  <2> QED
    BY <1>1, <2>1, <2>2, <2>3, <2>4, <2>5, <2>6, <2>7, <2>8
<1> QED
  BY <1>3, <1>14 DEF size

-----------------------------------------------------------------------------
(* A vector of dim indices of a width: what Quantize hands to the codec. *)
IsQuantized(qv, width) ==
    /\ width \in Widths /\ qv.dim \in Nat
    /\ qv.at \in [0 .. qv.dim - 1 -> Digit(width)]
    /\ qv = [norm |-> qv.norm, dim |-> qv.dim, at |-> qv.at]

\* The indices come back from the bytes, whatever their number and width.
LEMMA IndicesRoundTrip ==
  ASSUME NEW width \in Widths, NEW dim \in Nat, NEW x \in [0 .. dim - 1 -> Digit(width)],
         NEW y, y = Pack(x, dim, width), NEW n, n = IndexBytesNeeded(dim, width)
  PROVE  Unpack(y, n, dim, width) = x
<1>1. CASE width = 2
  <2>1. y = [b \in 0 .. IndexBytesNeeded(dim, 2) - 1 |-> Pack2(x, dim, b)]
    BY <1>1 DEF Pack
  <2>2. ASSUME NEW i \in 0 .. dim - 1 PROVE Unpack2(y, i) = x[i]
    BY ONLY <1>1, <2>1, RoundTrip2, i \in 0 .. dim - 1, dim \in Nat,
            x \in [0 .. dim - 1 -> Digit(width)]
  <2>3. Unpack(y, n, dim, 2) = [i \in 0 .. dim - 1 |-> Unpack2(y, i)]
    BY ONLY DEF Unpack
  <2> QED
    BY ONLY <1>1, <2>2, <2>3, x \in [0 .. dim - 1 -> Digit(width)]
<1>2. CASE width = 3
  <2>1. y = [b \in 0 .. IndexBytesNeeded(dim, 3) - 1 |-> Pack3(x, dim, b)]
    BY <1>2 DEF Pack
  <2>2. ASSUME NEW i \in 0 .. dim - 1 PROVE Unpack3(y, n, i) = x[i]
    BY ONLY <1>2, <2>1, RoundTrip3, i \in 0 .. dim - 1, dim \in Nat,
            x \in [0 .. dim - 1 -> Digit(width)], n = IndexBytesNeeded(dim, width)
  <2>3. Unpack(y, n, dim, 3) = [i \in 0 .. dim - 1 |-> Unpack3(y, n, i)]
    BY ONLY DEF Unpack
  <2> QED
    BY ONLY <1>2, <2>2, <2>3, x \in [0 .. dim - 1 -> Digit(width)]
<1>3. CASE width = 4
  <2>1. y = [b \in 0 .. IndexBytesNeeded(dim, 4) - 1 |-> Pack4(x, dim, b)]
    BY <1>3 DEF Pack
  <2>2. ASSUME NEW i \in 0 .. dim - 1 PROVE Unpack4(y, i) = x[i]
    BY ONLY <1>3, <2>1, RoundTrip4, i \in 0 .. dim - 1, dim \in Nat,
            x \in [0 .. dim - 1 -> Digit(width)]
  <2>3. Unpack(y, n, dim, 4) = [i \in 0 .. dim - 1 |-> Unpack4(y, i)]
    BY ONLY DEF Unpack
  <2> QED
    BY ONLY <1>3, <2>2, <2>3, x \in [0 .. dim - 1 -> Digit(width)]
<1> QED
  BY <1>1, <1>2, <1>3 DEF Widths

\* DeserializeQuantizedVector and DeserializeQuantizedVectorFrom give back, for every
\* dimension and width, the vector SerializeQuantizedVector was given.
THEOREM CodecIsLossless ==
  ASSUME NEW qv, NEW width, IsQuantized(qv, width)
  PROVE  /\ Deserialize(Serialize(qv, width), width, qv.dim) = qv
         /\ DeserializeFrom(Serialize(qv, width), width, qv.dim) = qv
<1> DEFINE n == IndexBytesNeeded(qv.dim, width)
           y == Pack(qv.at, qv.dim, width)
<1>1. Unpack(y, n, qv.dim, width) = qv.at
  BY IndicesRoundTrip DEF IsQuantized
<1>2. /\ Serialize(qv, width).norm = qv.norm /\ Serialize(qv, width).size = n
      /\ Serialize(qv, width).at = y
  BY DEF Serialize
<1>3. Deserialize(Serialize(qv, width), width, qv.dim)
        = [norm |-> qv.norm, dim |-> qv.dim, at |-> Unpack(y, n, qv.dim, width)]
  BY <1>2 DEF Deserialize
<1>4. ~ n < n
  <2>1. n \in Int
    BY DEF IsQuantized, IndexBytesNeeded, Widths
  <2> QED
    BY <2>1
<1>5. DeserializeFrom(Serialize(qv, width), width, qv.dim)
        = [norm |-> qv.norm, dim |-> qv.dim, at |-> Unpack(y, n, qv.dim, width)]
  BY <1>2, <1>4 DEF DeserializeFrom
<1> QED
  BY <1>1, <1>3, <1>5 DEF IsQuantized

\* DeserializeQuantizedVectorBuf puts the indices into the buffer and leaves the rest.
LEMMA BufRoundTrip ==
  ASSUME NEW width \in Widths, NEW dim \in Nat, NEW x \in [0 .. dim - 1 -> Digit(width)],
         NEW y, y = Pack(x, dim, width), NEW n, n = IndexBytesNeeded(dim, width),
         NEW bytes, bytes.size = n, bytes.at = y, NEW dst, NEW i \in DOMAIN dst, i \in Nat
  PROVE  DeserializeBuf(bytes, width, dim, dst)[i] = IF i < dim THEN x[i] ELSE dst[i]
<1>1. CASE ~ i < dim
  BY ONLY <1>1, i \in DOMAIN dst DEF DeserializeBuf
<1>2. CASE i < dim /\ width = 2
  <2>1. y = [b \in 0 .. IndexBytesNeeded(dim, 2) - 1 |-> Pack2(x, dim, b)]
    BY <1>2 DEF Pack
  <2>2. i \in 0 .. dim - 1
    BY <1>2
  <2>3. Unpack2(y, i) = x[i]
    BY ONLY <1>2, <2>1, <2>2, RoundTrip2, dim \in Nat, x \in [0 .. dim - 1 -> Digit(width)]
  <2>4. DeserializeBuf(bytes, width, dim, dst)[i] = Unpack2(y, i)
    BY ONLY <1>2, i \in DOMAIN dst, bytes.at = y DEF DeserializeBuf
  <2> QED
    BY ONLY <1>2, <2>3, <2>4
<1>3. CASE i < dim /\ width = 3
  <2>1. y = [b \in 0 .. IndexBytesNeeded(dim, 3) - 1 |-> Pack3(x, dim, b)]
    BY <1>3 DEF Pack
  <2>2. i \in 0 .. dim - 1
    BY <1>3
  <2>3. Unpack3(y, n, i) = x[i]
    BY ONLY <1>3, <2>1, <2>2, RoundTrip3, dim \in Nat, x \in [0 .. dim - 1 -> Digit(width)],
            n = IndexBytesNeeded(dim, width)
  <2>4. DeserializeBuf(bytes, width, dim, dst)[i] = Unpack3(y, n, i)
    BY ONLY <1>3, i \in DOMAIN dst, bytes.at = y, bytes.size = n DEF DeserializeBuf
  <2> QED
    BY ONLY <1>3, <2>3, <2>4
<1>4. CASE i < dim /\ width = 4
  <2>1. y = [b \in 0 .. IndexBytesNeeded(dim, 4) - 1 |-> Pack4(x, dim, b)]
    BY <1>4 DEF Pack
  <2>2. i \in 0 .. dim - 1 /\ (i % 2 = 0 \/ i % 2 = 1)
    BY <1>4
  <2>3. Unpack4(y, i) = x[i] /\ (i % 2 = 1 => Shr(y[i \div 2], 4) = x[i])
    BY ONLY <1>4, <2>1, <2>2, RoundTrip4, dim \in Nat, x \in [0 .. dim - 1 -> Digit(width)]
  <2>4. DeserializeBuf(bytes, width, dim, dst)[i]
          = IF i % 2 = 0 THEN y[i \div 2] % 16 ELSE Shr(y[i \div 2], 4)
    BY ONLY <1>4, <2>2, i \in DOMAIN dst, bytes.at = y DEF DeserializeBuf
  <2>5. i % 2 = 0 => Unpack4(y, i) = y[i \div 2] % 16
    BY ONLY DEF Unpack4
  <2> QED
    BY ONLY <1>4, <2>2, <2>3, <2>4, <2>5
<1> QED
  BY <1>1, <1>2, <1>3, <1>4 DEF Widths

(***************************************************************************)
(* The codec (codec.go), for every vector and width: whichever of the      *)
(* three ways of unpacking is used, it gives the packed indices back, and  *)
(* a caller's buffer keeps what lies behind them.                          *)
(***************************************************************************)
THEOREM CodecIsExact ==
  ASSUME call.op = "codec" => IsQuantized(call.qv, call.width)
  PROVE  CodecExact
<1> SUFFICES ASSUME call.op = "codec" PROVE CodecExact
  BY DEF CodecExact, CodecRoundTrip, BufLeavesTheRest
<1> PICK qv, width : qv = call.qv /\ width = call.width
  OBVIOUS
<1>1. IsQuantized(qv, width)
  OBVIOUS
<1>2. CodecRoundTrip
  BY <1>1, CodecIsLossless DEF CodecRoundTrip
<1> PICK bytes : bytes = Serialize(qv, width)
  OBVIOUS
<1> PICK dst : dst = [i \in 0 .. qv.dim |-> 99]
  OBVIOUS
<1>3. ASSUME NEW i \in 0 .. qv.dim
      PROVE  DeserializeBuf(bytes, width, qv.dim, dst)[i] = IF i < qv.dim THEN qv.at[i] ELSE 99
  <2>1. /\ width \in Widths /\ qv.dim \in Nat /\ qv.at \in [0 .. qv.dim - 1 -> Digit(width)]
        /\ bytes.size = IndexBytesNeeded(qv.dim, width) /\ bytes.at = Pack(qv.at, qv.dim, width)
    BY <1>1 DEF IsQuantized, Serialize
  <2>2. i \in DOMAIN dst /\ i \in Nat /\ dst[i] = 99
    BY <2>1
  <2> QED
    <3> PICK x, dim, y, n : x = qv.at /\ dim = qv.dim /\ y = bytes.at /\ n = bytes.size
      OBVIOUS
    <3>1. /\ width \in Widths /\ dim \in Nat /\ x \in [0 .. dim - 1 -> Digit(width)]
          /\ y = Pack(x, dim, width) /\ n = IndexBytesNeeded(dim, width)
          /\ bytes.size = n /\ bytes.at = y
      BY <2>1
    <3>2. DeserializeBuf(bytes, width, dim, dst)[i] = IF i < dim THEN x[i] ELSE dst[i]
      BY ONLY <2>2, <3>1, BufRoundTrip
    <3> QED
      BY <2>2, <3>2
<1>4. DeserializeBuf(bytes, width, qv.dim, dst)
        = [i \in 0 .. qv.dim |-> IF i < qv.dim THEN qv.at[i] ELSE 99]
  <2>1. DeserializeBuf(bytes, width, qv.dim, dst)
          = [i \in 0 .. qv.dim |-> DeserializeBuf(bytes, width, qv.dim, dst)[i]]
    <3>1. DOMAIN dst = 0 .. qv.dim
      OBVIOUS
    <3> QED
      BY ONLY <3>1 DEF DeserializeBuf
  <2> QED
    BY <1>3, <2>1
<1>5. BufLeavesTheRest
  BY <1>4 DEF BufLeavesTheRest
<1> QED
  BY <1>2, <1>5 DEF CodecExact

-----------------------------------------------------------------------------
(***************************************************************************)
(* Numbers: induction as the least counterexample, and the least member.   *)
(***************************************************************************)
LEMMA LeastIn ==
  ASSUME NEW S, S \subseteq Nat, S # {}
  PROVE  \E x \in S : \A y \in S : x <= y
<1> DEFINE R == OpToRel(<, Nat)
<1>1. IsWellFoundedOn(R, Nat)
  BY Zenon, NatLessThanWellFounded
<1>2. PICK x \in S : \A y \in S : ~ (<<y, x>> \in R)
  <2> HIDE DEF R
  <2> QED
    BY <1>1, WFMin
<1>3. \A a, b \in Nat : a < b => <<a, b>> \in R
  BY Zenon DEF OpToRel
<1>4. \A y \in S : ~ (y < x)
  BY Zenon, <1>2, <1>3
<1> HIDE DEF R
<1>5. \A y \in S : x <= y
  BY <1>4
<1> QED
  BY <1>5

LEMMA MinIsLeast ==
  ASSUME NEW S, S \subseteq Nat, S # {}
  PROVE  Min(S) \in S /\ \A y \in S : Min(S) <= y
<1>1. \E x \in S : \A y \in S : x <= y
  BY LeastIn
<1> QED
  BY <1>1 DEF Min

LEMMA MinIs ==
  ASSUME NEW a \in Int, NEW b \in Int
  PROVE  Min({a, b}) = IF a <= b THEN a ELSE b
<1>1. PICK m : m = IF a <= b THEN a ELSE b
  OBVIOUS
<1>2. m \in {a, b} /\ m \in Int /\ \A y \in {a, b} : m <= y
  BY <1>1
<1>3. \A x \in {a, b} : (\A y \in {a, b} : x <= y) => x = m
  BY <1>2
<1> QED
  BY <1>1, <1>2, <1>3 DEF Min

LEMMA UpTo ==
  ASSUME NEW n \in Nat, NEW S, 0 \in S, \A k \in 0 .. n - 1 : k \in S => k + 1 \in S
  PROVE  \A k \in 0 .. n : k \in S
<1>1. SUFFICES ASSUME NEW T, T = {k \in 0 .. n : k \notin S}, T # {} PROVE FALSE
  OBVIOUS
<1>2. T \subseteq Nat
  BY <1>1
<1>3. PICK x \in T : \A y \in T : x <= y
  BY <1>1, <1>2, LeastIn
<1>4. x \in 0 .. n /\ x \notin S /\ x # 0
  BY <1>1
<1>5. x - 1 \in 0 .. n - 1 /\ x - 1 \in 0 .. n /\ (x - 1) + 1 = x /\ ~ (x <= x - 1)
  BY <1>4
<1>6. x - 1 \notin T
  BY <1>3, <1>5
<1>7. x - 1 \in S
  BY <1>1, <1>5, <1>6
<1> QED
  BY <1>4, <1>5, <1>7

\* A loop of n rounds, each of which takes a state of S to a state of S.
Rounds(g, n, S) == g \in [1 .. n -> [S -> S]]

IsLoop(f, n, S, a, g) ==
    f \in [0 .. n -> S] /\ \A k \in 0 .. n : f[k] = IF k = 0 THEN a ELSE g[k][f[k - 1]]

LEMMA LoopExists ==
  ASSUME NEW n, NEW S, NEW a, NEW g, n \in Nat, a \in S, Rounds(g, n, S)
  PROVE  \E f : IsLoop(f, n, S, a, g)
<1>0. g \in [1 .. n -> [S -> S]]
  BY DEF Rounds
<1> DEFINE OK(m, f) == \A k \in 0 .. n : k <= m => f[k] = IF k = 0 THEN a ELSE g[k][f[k - 1]]
           T == {m \in 0 .. n : \E f \in [0 .. n -> S] : OK(m, f)}
<1>1. 0 \in T
  <2>1. PICK f : f = [k \in 0 .. n |-> a]
    OBVIOUS
  <2>2. f \in [0 .. n -> S] /\ OK(0, f)
    BY <2>1
  <2> QED
    BY <2>2
<1>2. ASSUME NEW m \in 0 .. n - 1, m \in T PROVE m + 1 \in T
  <2>1. PICK f \in [0 .. n -> S] : OK(m, f)
    BY <1>2
  <2>2. m + 1 \in 1 .. n /\ m \in 0 .. n /\ m + 1 \in 0 .. n
    OBVIOUS
  <2>3. PICK b : b = g[m + 1][f[m]]
    OBVIOUS
  <2>4. b \in S
    BY <1>0, <2>2, <2>3
  <2>5. PICK h : h = [f EXCEPT ![m + 1] = b]
    OBVIOUS
  <2>6. h \in [0 .. n -> S] /\ h[m + 1] = b /\ \A k \in 0 .. n : k # m + 1 => h[k] = f[k]
    BY <2>2, <2>4, <2>5
  <2>7. ASSUME NEW k \in 0 .. n, k <= m + 1
        PROVE  h[k] = IF k = 0 THEN a ELSE g[k][h[k - 1]]
    <3>1. CASE k = m + 1
      <4>1. k - 1 = m /\ k # 0 /\ h[m] = f[m]
        BY <2>2, <2>6, <3>1
      <4> QED
        BY <2>3, <2>6, <3>1, <4>1
    <3>2. CASE k # m + 1
      <4>1. k <= m /\ h[k] = f[k]
        BY <2>6, <2>7, <3>2
      <4>2. f[k] = IF k = 0 THEN a ELSE g[k][f[k - 1]]
        BY <2>1, <4>1
      <4>3. k # 0 => k - 1 \in 0 .. n /\ k - 1 # m + 1
        BY <4>1
      <4> QED
        BY <2>6, <4>1, <4>2, <4>3
    <3> QED
      BY <3>1, <3>2
  <2>8. OK(m + 1, h)
    BY <2>7
  <2> QED
    BY <2>2, <2>6, <2>8
<1>3. n \in T
  <2> HIDE DEF T
  <2>1. \A k \in 0 .. n - 1 : k \in T => k + 1 \in T
    BY <1>2
  <2>2. \A k \in 0 .. n : k \in T
    BY ONLY <1>1, <2>1, UpTo, n \in Nat
  <2> QED
    BY <2>2
<1>4. PICK f \in [0 .. n -> S] : OK(n, f)
  BY <1>3
<1> QED
  BY <1>4 DEF IsLoop

-----------------------------------------------------------------------------
(***************************************************************************)
(* The order of similarities.                                              *)
(***************************************************************************)
IsSimilarity(s) == s.dot \in Int /\ s.normSq \in Nat /\ s.normSq > 0

LEMMA SignedIsInt == ASSUME NEW s, IsSimilarity(s) PROVE Signed(s) \in Int
  BY DEF IsSimilarity, Signed

LEMMA GreaterIsAsymmetric ==
  ASSUME NEW s, NEW t, IsSimilarity(s), IsSimilarity(t), Greater(s, t)
  PROVE  ~ Greater(t, s)
<1> PICK a : a = Signed(s)
  OBVIOUS
<1> PICK b : b = Signed(t)
  OBVIOUS
<1> PICK p : p = a * t.normSq
  OBVIOUS
<1> PICK q : q = b * s.normSq
  OBVIOUS
<1>1. a \in Int /\ b \in Int
  BY SignedIsInt
<1>2. p \in Int /\ q \in Int
  BY <1>1 DEF IsSimilarity
<1>3. p > q
  BY DEF Greater
<1>4. Greater(t, s) <=> q > p
  BY DEF Greater
<1> QED
  BY <1>2, <1>3, <1>4

\* No worse than: if b is no better than a, and c than b, then c is no better than a.
LEMMA NoBetterThan ==
  ASSUME NEW r, NEW s, NEW t, IsSimilarity(r), IsSimilarity(s), IsSimilarity(t),
         ~ Greater(s, r), ~ Greater(t, s)
  PROVE  ~ Greater(t, r)
<1> PICK a : a = Signed(r)
  OBVIOUS
<1> PICK b : b = Signed(s)
  OBVIOUS
<1> PICK c : c = Signed(t)
  OBVIOUS
<1> PICK x : x = r.normSq
  OBVIOUS
<1> PICK y : y = s.normSq
  OBVIOUS
<1> PICK z : z = t.normSq
  OBVIOUS
<1>1. a \in Int /\ b \in Int /\ c \in Int
  BY SignedIsInt
<1>2. x \in Nat /\ y \in Nat /\ z \in Nat /\ x > 0 /\ y > 0 /\ z > 0
  BY DEF IsSimilarity
<1>3. /\ b * x \in Int /\ a * y \in Int /\ c * y \in Int /\ b * z \in Int
      /\ c * x \in Int /\ a * z \in Int
  BY ONLY <1>1, <1>2
<1>4. b * x <= a * y /\ c * y <= b * z
  <2>1. ~ (b * x > a * y) /\ ~ (c * y > b * z)
    BY DEF Greater
  <2> QED
    BY ONLY <1>3, <2>1
<1>5. c * x <= a * z
  <2>1. \A m, n \in Int, k \in Nat : m <= n => m * k <= n * k
    OBVIOUS
  <2>2. (c * y) * x <= (b * z) * x /\ (b * x) * z <= (a * y) * z
    BY ONLY <1>2, <1>3, <1>4, <2>1
  <2>3. /\ (c * y) * x = (c * x) * y /\ (b * z) * x = (b * x) * z /\ (a * y) * z = (a * z) * y
    BY ONLY <1>1, <1>2
  <2>4. (c * x) * y \in Int /\ (a * z) * y \in Int /\ (b * x) * z \in Int
    BY ONLY <1>2, <1>3
  <2>5. (c * x) * y <= (a * z) * y
    BY ONLY <2>2, <2>3, <2>4
  <2>6. \A m, n \in Int, k \in Nat : k > 0 /\ m * k <= n * k => m <= n
    OBVIOUS
  <2> QED
    BY ONLY <1>2, <1>3, <2>5, <2>6
<1>6. Greater(t, r) <=> c * x > a * z
  BY DEF Greater
<1> QED
  BY ONLY <1>3, <1>5, <1>6

-----------------------------------------------------------------------------
(***************************************************************************)
(* Codebook.FindNearestIndex.                                              *)
(***************************************************************************)
\* The loop of sort.Search.
Halvings(f, value) ==
    f = [k \in 0 .. Len(Centroids) - 1 |->
            IF k = 0 THEN [lo |-> 0, hi |-> Len(Centroids) - 1] ELSE Halve(f[k - 1], value)]

\* lo and hi enclose the answer, and after k rounds at least k candidates are gone.
Encloses(r, value, n, k) ==
    /\ r.lo \in Nat /\ r.hi \in Nat /\ r.lo <= r.hi /\ r.hi <= n /\ r = [lo |-> r.lo, hi |-> r.hi]
    /\ r.lo < r.hi => r.hi - r.lo <= n - k
    /\ r.lo > 0 => TwiceBoundary(r.lo - 1) <= 2 * value
    /\ r.hi < n => TwiceBoundary(r.hi) > 2 * value

LEMMA Codebook ==
  \E n \in Nat : /\ n = Len(Centroids) - 1 /\ DOMAIN Centroids = 1 .. n + 1
                 /\ \A i \in 0 .. n : Centroids[i + 1] \in Int
                 /\ \A i, j \in 0 .. n : i < j => Centroids[i + 1] < Centroids[j + 1]
                 /\ \A i \in 0 .. n - 1 : TwiceBoundary(i) \in Int
<1>1. Centroids \in Seq(Int) /\ Centroids # <<>>
  BY VectorAssumption
<1>2. PICK m \in Nat : m = Len(Centroids) /\ DOMAIN Centroids = 1 .. m /\ m # 0
  BY <1>1
<1> PICK n : n = m - 1
  OBVIOUS
<1>3. n \in Nat /\ n = Len(Centroids) - 1 /\ DOMAIN Centroids = 1 .. n + 1
  BY <1>2
<1>4. \A i \in 1 .. n + 1 : Centroids[i] \in Int
  BY <1>1, <1>3
<1>5. \A i \in 0 .. n : i + 1 \in 1 .. n + 1
  BY <1>3
<1>6. \A i, j \in 1 .. n + 1 : i < j => Centroids[i] < Centroids[j]
  BY <1>3, VectorAssumption
<1>7. \A i, j \in 0 .. n : i < j => Centroids[i + 1] < Centroids[j + 1]
  BY <1>3, <1>5, <1>6
<1>8. ASSUME NEW i \in 0 .. n - 1 PROVE TwiceBoundary(i) \in Int
  <2>1. i + 1 \in 1 .. n + 1 /\ i + 2 \in 1 .. n + 1
    BY <1>3
  <2> QED
    BY <1>4, <2>1 DEF TwiceBoundary
<1> QED
  BY <1>3, <1>4, <1>5, <1>7, <1>8

LEMMA HalveEncloses ==
  ASSUME NEW n \in Nat, \A i \in 0 .. n - 1 : TwiceBoundary(i) \in Int,
         NEW k \in Nat, NEW value \in Int, NEW r, Encloses(r, value, n, k)
  PROVE  Encloses(Halve(r, value), value, n, k + 1)
<1> PICK a : a = r.lo
  OBVIOUS
<1> PICK b : b = r.hi
  OBVIOUS
<1>1. /\ a \in Nat /\ b \in Nat /\ a <= b /\ b <= n /\ r = [lo |-> a, hi |-> b]
      /\ a < b => b - a <= n - k
      /\ a > 0 => TwiceBoundary(a - 1) <= 2 * value
      /\ b < n => TwiceBoundary(b) > 2 * value
  BY DEF Encloses
<1>2. CASE a >= b
  <2>1. Halve(r, value) = r
    BY <1>2 DEF Halve
  <2> QED
    BY <1>1, <1>2, <2>1 DEF Encloses
<1>3. CASE ~ (a >= b)
  <2> PICK mid : mid = (a + b) \div 2
    OBVIOUS
  <2>1. mid \in Nat /\ a <= mid /\ mid < b
    BY <1>1, <1>3
  <2>2. mid \in 0 .. n - 1 /\ TwiceBoundary(mid) \in Int
    BY <1>1, <2>1
  <2>3. CASE TwiceBoundary(mid) > 2 * value
    <3>1. Halve(r, value) = [lo |-> a, hi |-> mid]
      BY <1>1, <1>3, <2>3 DEF Halve
    <3>2. a < mid => mid - a <= n - (k + 1)
      BY <1>1, <1>3, <2>1
    <3> QED
      BY <1>1, <2>1, <2>3, <3>1, <3>2 DEF Encloses
  <2>4. CASE ~ (TwiceBoundary(mid) > 2 * value)
    <3>1. Halve(r, value) = [lo |-> mid + 1, hi |-> b]
      BY <1>1, <1>3, <2>4 DEF Halve
    <3>2. mid + 1 < b => b - (mid + 1) <= n - (k + 1)
      BY <1>1, <1>3, <2>1
    <3>3. mid + 1 \in Nat /\ mid + 1 <= b /\ mid + 1 > 0 /\ (mid + 1) - 1 = mid
      BY <1>1, <2>1
    <3>4. TwiceBoundary(mid) <= 2 * value
      BY <2>2, <2>4
    <3> QED
      BY <1>1, <3>1, <3>2, <3>3, <3>4 DEF Encloses
  <2> QED
    BY <2>3, <2>4
<1> QED
  BY <1>2, <1>3

LEMMA HalvingsExist == ASSUME NEW value \in Int PROVE \E f : Halvings(f, value)
<1>1. PICK n \in Nat : n = Len(Centroids) - 1
  BY Codebook
<1> PICK S : S = [lo : Int, hi : Int]
  OBVIOUS
<1>2. ASSUME NEW r \in S PROVE Halve(r, value) \in S
  BY DEF Halve
<1> PICK g : g = [k \in 1 .. n |-> [r \in S |-> Halve(r, value)]]
  OBVIOUS
<1>3. Rounds(g, n, S)
  BY <1>2 DEF Rounds
<1> PICK a : a = [lo |-> 0, hi |-> n]
  OBVIOUS
<1>4. a \in S
  OBVIOUS
<1>5. PICK f : IsLoop(f, n, S, a, g)
  BY Zenon, <1>1, <1>3, <1>4, LoopExists
<1>6. ASSUME NEW k \in 0 .. n
      PROVE  f[k] = IF k = 0 THEN [lo |-> 0, hi |-> n] ELSE Halve(f[k - 1], value)
  <2>1. k # 0 => k \in 1 .. n /\ k - 1 \in 0 .. n
    OBVIOUS
  <2>2. k # 0 => f[k - 1] \in S /\ g[k][f[k - 1]] = Halve(f[k - 1], value)
    BY <1>5, <2>1 DEF IsLoop
  <2> QED
    BY <1>5, <2>2 DEF IsLoop
<1>7. f = [k \in 0 .. n |-> IF k = 0 THEN [lo |-> 0, hi |-> n] ELSE Halve(f[k - 1], value)]
  BY <1>5, <1>6 DEF IsLoop
<1> QED
  BY <1>1, <1>7 DEF Halvings

LEMMA NearestBetween ==
  ASSUME NEW value \in Int, NEW n \in Nat, n = Len(Centroids) - 1
  PROVE  LET i == FindNearestIndex(value)
         IN  /\ i \in 0 .. n
             /\ i > 0 => TwiceBoundary(i - 1) <= 2 * value
             /\ i < n => TwiceBoundary(i) > 2 * value
<1> DEFINE f == CHOOSE f : f = [k \in 0 .. Len(Centroids) - 1 |->
                  IF k = 0 THEN [lo |-> 0, hi |-> Len(Centroids) - 1] ELSE Halve(f[k - 1], value)]
<1>1. Halvings(f, value)
  BY HalvingsExist DEF Halvings
<1>2. FindNearestIndex(value) = f[n].lo
  BY DEF FindNearestIndex
<1> HIDE DEF f
<1>3. /\ f[0] = [lo |-> 0, hi |-> n]
      /\ \A k \in 0 .. n - 1 : f[k + 1] = Halve(f[k], value)
  <2>1. 0 \in 0 .. n
    OBVIOUS
  <2>2. \A k \in 0 .. n : f[k] = IF k = 0 THEN [lo |-> 0, hi |-> n] ELSE Halve(f[k - 1], value)
    BY <1>1 DEF Halvings
  <2>3. \A k \in 0 .. n - 1 : k + 1 \in 0 .. n /\ k + 1 # 0 /\ (k + 1) - 1 = k
    OBVIOUS
  <2> QED
    BY <2>1, <2>2, <2>3
<1>4. \A i \in 0 .. n - 1 : TwiceBoundary(i) \in Int
  BY Codebook
<1> PICK S : S = {k \in 0 .. n : Encloses(f[k], value, n, k)}
  OBVIOUS
<1>5. 0 \in S
  BY <1>3 DEF Encloses
<1>6. ASSUME NEW k \in 0 .. n - 1, k \in S PROVE k + 1 \in S
  <2>1. k \in Nat /\ Encloses(f[k], value, n, k) /\ k + 1 \in 0 .. n
    BY <1>6
  <2>2. Encloses(Halve(f[k], value), value, n, k + 1)
    BY <1>4, <2>1, HalveEncloses
  <2> QED
    BY <1>3, <2>1, <2>2
<1>7. n \in S
  <2>1. \A k \in 0 .. n - 1 : k \in S => k + 1 \in S
    BY <1>6
  <2>2. \A k \in 0 .. n : k \in S
    BY ONLY <1>5, <2>1, UpTo, n \in Nat
  <2> QED
    BY <2>2
<1>8. Encloses(f[n], value, n, n)
  BY <1>7
<1>9. f[n].lo = f[n].hi
  BY <1>8 DEF Encloses
<1> QED
  BY <1>2, <1>8, <1>9 DEF Encloses

LEMMA NearestIsNearest ==
  ASSUME NEW value \in Int
  PROVE  LET Distance(i) == Abs(value - Centroids[i])
             idx == FindNearestIndex(value)
         IN  /\ \A i \in DOMAIN Centroids : Distance(idx + 1) <= Distance(i)
             /\ \A i \in DOMAIN Centroids : i > idx + 1 => Distance(idx + 1) < Distance(i)
<1>1. PICK n \in Nat : /\ n = Len(Centroids) - 1 /\ DOMAIN Centroids = 1 .. n + 1
                       /\ \A i \in 0 .. n : Centroids[i + 1] \in Int
                       /\ \A i, j \in 0 .. n : i < j => Centroids[i + 1] < Centroids[j + 1]
  BY Codebook
<1> PICK m : m = FindNearestIndex(value)
  OBVIOUS
<1>2. /\ m \in 0 .. n
      /\ m > 0 => Centroids[m] + Centroids[m + 1] <= 2 * value
      /\ m < n => Centroids[m + 1] + Centroids[m + 2] > 2 * value
  <2>1. m \in 0 .. n /\ (m > 0 => TwiceBoundary(m - 1) <= 2 * value)
        /\ (m < n => TwiceBoundary(m) > 2 * value)
    BY <1>1, NearestBetween
  <2>2. m \in Int /\ (m - 1) + 1 = m /\ (m - 1) + 2 = m + 1
    BY <2>1
  <2> QED
    BY <2>1, <2>2 DEF TwiceBoundary
<1> PICK c : c = Centroids[m + 1]
  OBVIOUS
<1>3. c \in Int
  BY <1>1, <1>2
<1>4. ASSUME NEW i \in 1 .. n + 1, NEW x, x = Centroids[i]
      PROVE  /\ Abs(value - c) <= Abs(value - x)
             /\ i > m + 1 => Abs(value - c) < Abs(value - x)
  <2>1. x \in Int
    <3>1. i - 1 \in 0 .. n /\ (i - 1) + 1 = i
      BY <1>1
    <3> QED
      BY <1>1, <1>4, <3>1
  <2>2. CASE i = m + 1
    <3>1. x = c
      BY <1>4, <2>2
    <3> QED
      BY <1>2, <1>3, <2>2, <3>1 DEF Abs
  <2>3. CASE i > m + 1
    <3>1. m < n /\ m + 1 \in 0 .. n /\ i - 1 \in 0 .. n /\ (i - 1) + 1 = i /\ m < i - 1 /\ m + 1 <= i - 1
      BY <1>2, <2>3
    <3> PICK d : d = Centroids[m + 2]
      OBVIOUS
    <3>2. d = Centroids[(m + 1) + 1]
      <4>1. (m + 1) + 1 = m + 2
        BY <1>2
      <4> QED
        BY Zenon, <4>1
    <3>3. d \in Int /\ c < x /\ d <= x
      <4>1. c < x
        BY <1>1, <1>2, <1>4, <3>1
      <4>2. d \in Int
        BY <1>1, <3>1, <3>2
      <4>3. CASE m + 1 = i - 1
        <5>1. d = x
          BY <1>4, <3>1, <3>2, <4>3
        <5> QED
          BY <2>1, <4>1, <4>2, <5>1
      <4>4. CASE m + 1 < i - 1
        <5>1. Centroids[(m + 1) + 1] < Centroids[(i - 1) + 1]
          BY ONLY <1>1, <3>1, <4>4
        <5>2. d < x
          BY ONLY Zenon, <1>4, <3>1, <3>2, <5>1
        <5> QED
          BY ONLY <2>1, <4>1, <4>2, <5>2
      <4> QED
        BY <3>1, <4>3, <4>4
    <3>4. c + d > 2 * value
      BY <1>2, <3>1
    <3> QED
      BY ONLY <1>3, <2>1, <3>3, <3>4, value \in Int DEF Abs
  <2>4. CASE i < m + 1
    <3>1. m > 0 /\ m - 1 \in 0 .. n /\ i - 1 \in 0 .. n /\ (i - 1) + 1 = i /\ (m - 1) + 1 = m /\ i - 1 <= m - 1
          /\ i - 1 < m
      BY <1>2, <2>4
    <3> PICK d : d = Centroids[m]
      OBVIOUS
    <3>2. d \in Int /\ x < c /\ x <= d
      <4>1. x < c
        BY <1>1, <1>2, <1>4, <3>1
      <4>2. d \in Int
        BY <1>1, <3>1
      <4>3. CASE i - 1 = m - 1
        <5>1. d = x
          BY <1>4, <3>1, <4>3
        <5> QED
          BY <2>1, <4>1, <4>2, <5>1
      <4>4. CASE i - 1 < m - 1
        <5>1. Centroids[(i - 1) + 1] < Centroids[(m - 1) + 1]
          BY ONLY <1>1, <3>1, <4>4
        <5>2. x < Centroids[m]
          BY ONLY Zenon, <1>4, <3>1, <5>1
        <5> QED
          BY <2>1, <4>1, <4>2, <5>2
      <4> QED
        BY <3>1, <4>3, <4>4
    <3>3. d + c <= 2 * value
      BY <1>2, <3>1
    <3>4. Abs(value - c) <= Abs(value - x)
      BY ONLY <1>3, <2>1, <3>2, <3>3, value \in Int DEF Abs
    <3> QED
      BY <1>2, <2>4, <3>4
  <2> QED
    BY <1>2, <2>2, <2>3, <2>4
<1> QED
  BY <1>1, <1>4

-----------------------------------------------------------------------------
(***************************************************************************)
(* Scores: what is summed up without being pruned is the score.            *)
(***************************************************************************)
IsSum(f, n, x, y) == f = [i \in 0 .. n |-> IF i = 0 THEN 0 ELSE f[i - 1] + x[i] * y[i]]

IntsUpTo(n, x) == \A i \in 1 .. n : x[i] \in Int

LEMMA SumExists ==
  ASSUME NEW n \in Nat, NEW x, NEW y, IntsUpTo(n, x), IntsUpTo(n, y)
  PROVE  \E f : IsSum(f, n, x, y)
<1> PICK g : g = [i \in 1 .. n |-> [s \in Int |-> s + x[i] * y[i]]]
  OBVIOUS
<1>1. Rounds(g, n, Int)
  <2>1. ASSUME NEW i \in 1 .. n, NEW s \in Int PROVE s + x[i] * y[i] \in Int
    <3>1. x[i] \in Int /\ y[i] \in Int
      BY DEF IntsUpTo
    <3> QED
      BY ONLY <3>1, s \in Int
  <2> QED
    BY <2>1 DEF Rounds
<1>2. PICK f : IsLoop(f, n, Int, 0, g)
  <2>1. 0 \in Int
    OBVIOUS
  <2> QED
    BY Zenon, <1>1, <2>1, LoopExists
<1>3. ASSUME NEW i \in 0 .. n PROVE f[i] = IF i = 0 THEN 0 ELSE f[i - 1] + x[i] * y[i]
  <2>1. i # 0 => i \in 1 .. n /\ i - 1 \in 0 .. n
    OBVIOUS
  <2>2. i # 0 => f[i - 1] \in Int /\ g[i][f[i - 1]] = f[i - 1] + x[i] * y[i]
    BY <1>2, <2>1 DEF IsLoop
  <2> QED
    BY <1>2, <2>2 DEF IsLoop
<1>4. f = [i \in 0 .. n |-> f[i]]
  BY <1>2 DEF IsLoop
<1>5. f = [i \in 0 .. n |-> IF i = 0 THEN 0 ELSE f[i - 1] + x[i] * y[i]]
  BY ONLY <1>3, <1>4
<1> QED
  BY ONLY <1>5 DEF IsSum

LEMMA SumSteps ==
  ASSUME NEW n \in Nat, NEW x, NEW y, IntsUpTo(n, x), IntsUpTo(n, y), NEW f, IsSum(f, n, x, y)
  PROVE  /\ f[0] = 0 /\ \A i \in 0 .. n : f[i] \in Int
         /\ \A i \in 1 .. n : f[i] = f[i - 1] + x[i] * y[i]
<1>1. \A i \in 0 .. n : f[i] = IF i = 0 THEN 0 ELSE f[i - 1] + x[i] * y[i]
  BY DEF IsSum
<1>2. f[0] = 0
  BY <1>1
<1>3. \A i \in 1 .. n : f[i] = f[i - 1] + x[i] * y[i]
  BY <1>1
<1> PICK S : S = {i \in 0 .. n : f[i] \in Int}
  OBVIOUS
<1>4. 0 \in S
  BY <1>2
<1>5. \A i \in 0 .. n - 1 : i \in S => i + 1 \in S
  <2> SUFFICES ASSUME NEW i \in 0 .. n - 1, i \in S PROVE i + 1 \in S
    OBVIOUS
  <2>1. i + 1 \in 1 .. n /\ (i + 1) - 1 = i /\ f[i] \in Int
    OBVIOUS
  <2>2. x[i + 1] \in Int /\ y[i + 1] \in Int
    BY <2>1 DEF IntsUpTo
  <2>3. f[i + 1] = f[i] + x[i + 1] * y[i + 1]
    BY <1>3, <2>1
  <2>4. f[i + 1] \in Int
    BY ONLY <2>1, <2>2, <2>3
  <2> QED
    BY <2>1, <2>4
<1>6. \A i \in 0 .. n : i \in S
  BY <1>4, <1>5, UpTo
<1> QED
  BY <1>2, <1>3, <1>6

LEMMA SquareSteps ==
  ASSUME NEW n \in Nat, NEW x, IntsUpTo(n, x), NEW f, IsSum(f, n, x, x)
  PROVE  f[0] = 0 /\ \A i \in 1 .. n : f[i] = f[i - 1] + x[i] * x[i]
  BY DEF IsSum

\* A sequence of n entries, whatever they are.
LEMMA LenIs ==
  ASSUME NEW n \in Nat, NEW s, s = [i \in 1 .. n |-> s[i]]
  PROVE  Len(s) = n /\ DOMAIN s = 1 .. n
<1> PICK S : S = {s[i] : i \in 1 .. n}
  OBVIOUS
<1>1. s \in [1 .. n -> S]
  OBVIOUS
<1> QED
  BY <1>1

LEMMA DotIs ==
  ASSUME NEW x, NEW y, Len(x) \in Nat, IntsUpTo(Len(x), x), IntsUpTo(Len(x), y)
  PROVE  \E f : IsSum(f, Len(x), x, y) /\ Dot(x, y) = f[Len(x)]
<1> DEFINE f == CHOOSE f : f = [i \in 0 .. Len(x) |-> IF i = 0 THEN 0 ELSE f[i - 1] + x[i] * y[i]]
<1>1. \E e : IsSum(e, Len(x), x, y)
  BY SumExists
<1>2. IsSum(f, Len(x), x, y)
  BY <1>1 DEF IsSum
<1>3. Dot(x, y) = f[Len(x)]
  BY DEF Dot
<1> QED
  BY <1>2, <1>3

\* The vectors the index holds: an index into the codebook per dimension.
IsCode(indices, n) == \A i \in 1 .. n : indices[i] \in 0 .. Len(Centroids) - 1

LEMMA CentroidIs ==
  ASSUME NEW n \in Nat, NEW indices, IsCode(indices, n), NEW i \in 1 .. n
  PROVE  Centroids[indices[i] + 1] \in Int
<1>1. indices[i] \in 0 .. Len(Centroids) - 1
  BY DEF IsCode
<1> QED
  BY <1>1, Codebook

LEMMA SquareIs == \A c \in Int : c * c \in Nat
  OBVIOUS

LEMMA SimilarityIs ==
  ASSUME NEW dot \in Int, NEW normSq \in Nat
  PROVE  IsSimilarity(Similarity(dot, normSq))
  BY DEF IsSimilarity, Similarity

\* Score, as the end of two sums.
LEMMA ScoreIs ==
  ASSUME NEW n \in Nat, NEW query, query \in [1 .. n -> Int], NEW indices, IsCode(indices, n)
  PROVE  \E val, d, e : /\ val = [i \in 1 .. n |-> Centroids[indices[i] + 1]]
                        /\ IntsUpTo(n, query) /\ IntsUpTo(n, val)
                        /\ IsSum(d, n, query, val) /\ IsSum(e, n, val, val)
                        /\ Score(query, indices) = Similarity(d[n], e[n])
<1> PICK val : val = [i \in 1 .. n |-> Centroids[indices[i] + 1]]
  OBVIOUS
<1>1. IntsUpTo(n, val)
  BY CentroidIs DEF IntsUpTo
<1>2. IntsUpTo(n, query) /\ Len(query) = n /\ DOMAIN query = 1 .. n
  BY DEF IntsUpTo
<1>3. Len(val) = n
  BY LenIs
<1>4. PICK d : IsSum(d, n, query, val) /\ Dot(query, val) = d[n]
  <2>1. Len(query) \in Nat /\ IntsUpTo(Len(query), query) /\ IntsUpTo(Len(query), val)
    BY <1>1, <1>2
  <2>2. \E d : IsSum(d, Len(query), query, val) /\ Dot(query, val) = d[Len(query)]
    BY ONLY Zenon, <2>1, DotIs
  <2> QED
    BY ONLY Zenon, <1>2, <2>2
<1>5. PICK e : IsSum(e, n, val, val) /\ Dot(val, val) = e[n]
  <2>1. Len(val) \in Nat /\ IntsUpTo(Len(val), val)
    BY <1>1, <1>3
  <2>2. \E e : IsSum(e, Len(val), val, val) /\ Dot(val, val) = e[Len(val)]
    BY ONLY Zenon, <2>1, DotIs
  <2> QED
    BY ONLY Zenon, <1>3, <2>2
<1>6. Score(query, indices) = Similarity(Dot(query, val), Dot(val, val))
  BY <1>2 DEF Score
<1> QED
  BY <1>1, <1>2, <1>4, <1>5, <1>6

\* The loop of the pruned score.
Scans(f, query, norm, indices, threshold) ==
    f = [i \in 0 .. Len(query) |->
            IF i = 0 THEN [dot |-> 0, normSq |-> 0, pruned |-> FALSE]
            ELSE AddOrPrune(query, norm, threshold, i, Centroids[indices[i] + 1], f[i - 1])]

LEMMA ScansExist ==
  ASSUME NEW n \in Nat, NEW query, query \in [1 .. n -> Int], NEW indices, IsCode(indices, n),
         NEW norm, NEW threshold
  PROVE  \E f : Scans(f, query, norm, indices, threshold)
<1> PICK S : S = [dot : Int, normSq : Int, pruned : BOOLEAN]
  OBVIOUS
<1>1. ASSUME NEW i \in 1 .. n, NEW st \in S
      PROVE  AddOrPrune(query, norm, threshold, i, Centroids[indices[i] + 1], st) \in S
  <2> PICK c : c = Centroids[indices[i] + 1]
    OBVIOUS
  <2>1. c \in Int /\ query[i] \in Int
    BY CentroidIs
  <2> PICK p : p = (st.pruned \/ Prunes(query, norm, threshold, i - 1, st.dot, st.normSq))
    OBVIOUS
  <2>2. AddOrPrune(query, norm, threshold, i, c, st)
          = IF p THEN [dot |-> st.dot, normSq |-> st.normSq, pruned |-> TRUE]
            ELSE [dot |-> st.dot + query[i] * c, normSq |-> st.normSq + c * c, pruned |-> FALSE]
    BY DEF AddOrPrune
  <2>3. query[i] * c \in Int /\ c * c \in Int
    BY <2>1
  <2>4. [dot |-> st.dot, normSq |-> st.normSq, pruned |-> TRUE] \in S
    OBVIOUS
  <2>5. [dot |-> st.dot + query[i] * c, normSq |-> st.normSq + c * c, pruned |-> FALSE] \in S
    BY <2>3
  <2> QED
    BY ONLY <2>2, <2>4, <2>5, c = Centroids[indices[i] + 1]
<1> PICK g : g = [i \in 1 .. n |-> [st \in S |->
                    AddOrPrune(query, norm, threshold, i, Centroids[indices[i] + 1], st)]]
  OBVIOUS
<1>2. Rounds(g, n, S)
  BY ONLY <1>1, g = [i \in 1 .. n |-> [st \in S |->
                    AddOrPrune(query, norm, threshold, i, Centroids[indices[i] + 1], st)]] DEF Rounds
<1> PICK a : a = [dot |-> 0, normSq |-> 0, pruned |-> FALSE]
  OBVIOUS
<1>3. a \in S
  OBVIOUS
<1>4. PICK f : IsLoop(f, n, S, a, g)
  BY Zenon, <1>2, <1>3, LoopExists
<1>5. ASSUME NEW i \in 0 .. n
      PROVE  f[i] = IF i = 0 THEN a
                    ELSE AddOrPrune(query, norm, threshold, i, Centroids[indices[i] + 1], f[i - 1])
  <2>1. i # 0 => i \in 1 .. n /\ i - 1 \in 0 .. n
    OBVIOUS
  <2>2. i # 0 => f[i - 1] \in S
    BY <1>4, <2>1 DEF IsLoop
  <2>3. i # 0 => g[i][f[i - 1]]
                   = AddOrPrune(query, norm, threshold, i, Centroids[indices[i] + 1], f[i - 1])
    BY <2>1, <2>2
  <2> QED
    BY <1>4, <2>3 DEF IsLoop
<1>6. Len(query) = n
  OBVIOUS
<1> QED
  BY <1>4, <1>5, <1>6 DEF IsLoop, Scans

LEMMA ScoreIsSimilarity ==
  ASSUME NEW n \in Nat, NEW query, query \in [1 .. n -> Int], NEW indices, IsCode(indices, n)
  PROVE  IsSimilarity(Score(query, indices))
<1>1. PICK val, d, e : /\ IntsUpTo(n, query) /\ IntsUpTo(n, val)
                       /\ IsSum(d, n, query, val) /\ IsSum(e, n, val, val)
                       /\ Score(query, indices) = Similarity(d[n], e[n])
  BY ScoreIs
<1>2. \A i \in 0 .. n : d[i] \in Int
  BY <1>1, SumSteps
<1>3. e[0] = 0 /\ (\A i \in 0 .. n : e[i] \in Int) /\ \A i \in 1 .. n : e[i] = e[i - 1] + val[i] * val[i]
  BY ONLY <1>1, SumSteps, n \in Nat
<1> PICK S : S = {i \in 0 .. n : e[i] \in Nat}
  OBVIOUS
<1>4. 0 \in S
  BY <1>3
<1>5. \A i \in 0 .. n - 1 : i \in S => i + 1 \in S
  <2> SUFFICES ASSUME NEW i \in 0 .. n - 1, i \in S PROVE i + 1 \in S
    OBVIOUS
  <2>1. i + 1 \in 1 .. n /\ i + 1 \in 0 .. n /\ (i + 1) - 1 = i /\ e[i] \in Nat
    OBVIOUS
  <2>2. val[i + 1] * val[i + 1] \in Nat
    BY <1>1, <2>1, SquareIs DEF IntsUpTo
  <2>3. e[i + 1] = e[i] + val[i + 1] * val[i + 1]
    BY <1>3, <2>1
  <2>4. e[i + 1] \in Nat
    BY ONLY <2>1, <2>2, <2>3
  <2> QED
    BY <2>1, <2>4
<1>6. n \in S
  <2>1. \A i \in 0 .. n : i \in S
    BY <1>4, <1>5, UpTo
  <2> QED
    BY <2>1
<1>7. d[n] \in Int /\ e[n] \in Nat
  BY <1>2, <1>6
<1> QED
  BY <1>1, <1>7, SimilarityIs

\* While the list is not full, and with vectors too short for a check, nothing is pruned.
NeverPrunes(n, threshold) == threshold = NoThreshold \/ n <= FirstCheck

LEMMA NoCheckNoPruning ==
  ASSUME NEW n \in Nat, NEW threshold, NeverPrunes(n, threshold), NEW i \in 1 .. n,
         NEW query, NEW norm, NEW dot, NEW normSq
  PROVE  ~ Prunes(query, norm, threshold, i - 1, dot, normSq)
<1>1. threshold = NoThreshold \/ ~ CheckedAt(i - 1)
  <2>1. FirstCheck \in Nat
    BY VectorAssumption
  <2>2. i - 1 < n /\ i - 1 \in Int
    OBVIOUS
  <2>3. n <= FirstCheck => ~ (i - 1 >= FirstCheck)
    BY ONLY <2>1, <2>2, n \in Nat
  <2> QED
    BY Zenon, <2>3 DEF NeverPrunes, CheckedAt
<1> QED
  BY Zenon, <1>1 DEF Prunes

LEMMA ScanAgrees ==
  ASSUME NEW n \in Nat, NEW query, query \in [1 .. n -> Int], NEW indices, IsCode(indices, n),
         NEW norm, NEW threshold, NEW f, Scans(f, query, norm, indices, threshold),
         NEW val, val = [i \in 1 .. n |-> Centroids[indices[i] + 1]],
         NEW d, IsSum(d, n, query, val), NEW e, IsSum(e, n, val, val),
         IntsUpTo(n, query), IntsUpTo(n, val)
  PROVE  /\ f[n].pruned \/ (f[n].dot = d[n] /\ f[n].normSq = e[n])
         /\ NeverPrunes(n, threshold) => ~ f[n].pruned
<1>1. d[0] = 0 /\ \A i \in 1 .. n : d[i] = d[i - 1] + query[i] * val[i]
  BY ONLY SumSteps, n \in Nat, IsSum(d, n, query, val), IntsUpTo(n, query), IntsUpTo(n, val)
<1>2. e[0] = 0 /\ \A i \in 1 .. n : e[i] = e[i - 1] + val[i] * val[i]
  BY ONLY SquareSteps, n \in Nat, IsSum(e, n, val, val), IntsUpTo(n, val)
<1>3. /\ f[0] = [dot |-> 0, normSq |-> 0, pruned |-> FALSE]
      /\ \A i \in 1 .. n : f[i] = AddOrPrune(query, norm, threshold, i, val[i], f[i - 1])
  <2>1. Len(query) = n
    OBVIOUS
  <2>2. \A i \in 0 .. n : f[i] = IF i = 0 THEN [dot |-> 0, normSq |-> 0, pruned |-> FALSE]
             ELSE AddOrPrune(query, norm, threshold, i, Centroids[indices[i] + 1], f[i - 1])
    BY <2>1 DEF Scans
  <2>3. 0 \in 0 .. n /\ \A i \in 1 .. n : i \in 0 .. n /\ i # 0
    OBVIOUS
  <2>4. \A i \in 1 .. n : val[i] = Centroids[indices[i] + 1]
    OBVIOUS
  <2> QED
    BY ONLY <2>2, <2>3, <2>4
<1> DEFINE OK(i) == /\ f[i].pruned \/ (f[i].dot = d[i] /\ f[i].normSq = e[i])
                    /\ NeverPrunes(n, threshold) => ~ f[i].pruned
<1> PICK S : S = {i \in 0 .. n : OK(i)}
  OBVIOUS
<1>4. 0 \in S
  BY <1>1, <1>2, <1>3
<1>5. \A i \in 0 .. n - 1 : i \in S => i + 1 \in S
  <2> SUFFICES ASSUME NEW i \in 0 .. n - 1, i \in S PROVE i + 1 \in S
    OBVIOUS
  <2>1. i + 1 \in 1 .. n /\ i + 1 \in 0 .. n /\ (i + 1) - 1 = i
    OBVIOUS
  <2>2. OK(i)
    OBVIOUS
  <2> PICK j : j = i + 1
    OBVIOUS
  <2> PICK st : st = f[i]
    OBVIOUS
  <2> PICK p : p = Prunes(query, norm, threshold, j - 1, st.dot, st.normSq)
    OBVIOUS
  <2>3. f[j] = AddOrPrune(query, norm, threshold, j, val[j], st)
    BY <1>3, <2>1
  <2>4. CASE st.pruned \/ p
    <3>1. f[j] = [dot |-> st.dot, normSq |-> st.normSq, pruned |-> TRUE]
      BY <2>3, <2>4 DEF AddOrPrune
    <3>2. ~ NeverPrunes(n, threshold)
      <4>1. SUFFICES ASSUME NeverPrunes(n, threshold) PROVE FALSE
        OBVIOUS
      <4>2. ~ st.pruned
        BY <2>2, <4>1
      <4>3. ~ p
        BY <2>1, <4>1, NoCheckNoPruning
      <4> QED
        BY <2>4, <4>2, <4>3
    <3>3. f[j].pruned
      BY ONLY <3>1
    <3> QED
      BY <2>1, <3>2, <3>3
  <2>5. CASE ~ (st.pruned \/ p)
    <3>1. f[j] = [dot |-> st.dot + query[j] * val[j], normSq |-> st.normSq + val[j] * val[j], pruned |-> FALSE]
      BY <2>3, <2>5 DEF AddOrPrune
    <3>2. st.dot = d[i] /\ st.normSq = e[i]
      BY <2>2, <2>5
    <3>3. d[j] = d[i] + query[j] * val[j] /\ e[j] = e[i] + val[j] * val[j]
      BY <1>1, <1>2, <2>1
    <3>4. f[j].dot = d[j] /\ f[j].normSq = e[j] /\ ~ f[j].pruned
      BY ONLY <3>1, <3>2, <3>3
    <3> QED
      BY <2>1, <3>4
  <2> QED
    BY <2>4, <2>5
<1>6. \A i \in 0 .. n : i \in S
  <2> HIDE DEF OK
  <2> QED
    BY <1>4, <1>5, UpTo
<1> QED
  BY <1>6

\* What is not pruned has its whole score.
LEMMA UnprunedIsScore ==
  ASSUME NEW n \in Nat, NEW query, query \in [1 .. n -> Int], NEW indices, IsCode(indices, n),
         NEW norm, NEW threshold
  PROVE  LET s == ScoreWithPruning(query, norm, indices, threshold)
         IN  /\ s.pruned \/ s.similarity = Score(query, indices)
             /\ NeverPrunes(n, threshold) => ~ s.pruned
<1> DEFINE f == CHOOSE f : f = [i \in 0 .. Len(query) |->
                  IF i = 0 THEN [dot |-> 0, normSq |-> 0, pruned |-> FALSE]
                  ELSE AddOrPrune(query, norm, threshold, i, Centroids[indices[i] + 1], f[i - 1])]
<1>1. \E g : Scans(g, query, norm, indices, threshold)
  BY ScansExist
<1>2. Scans(f, query, norm, indices, threshold)
  BY <1>1 DEF Scans
<1>3. Len(query) = n
  OBVIOUS
<1>4. ScoreWithPruning(query, norm, indices, threshold)
        = [similarity |-> Similarity(f[n].dot, f[n].normSq), pruned |-> f[n].pruned]
  BY <1>3 DEF ScoreWithPruning
<1> HIDE DEF f
<1>5. PICK val, d, e : /\ val = [i \in 1 .. n |-> Centroids[indices[i] + 1]]
                       /\ IntsUpTo(n, query) /\ IntsUpTo(n, val)
                       /\ IsSum(d, n, query, val) /\ IsSum(e, n, val, val)
                       /\ Score(query, indices) = Similarity(d[n], e[n])
  BY ScoreIs
<1>6. /\ f[n].pruned \/ (f[n].dot = d[n] /\ f[n].normSq = e[n])
      /\ NeverPrunes(n, threshold) => ~ f[n].pruned
  BY <1>2, <1>5, ScanAgrees
<1> QED
  BY <1>4, <1>5, <1>6

-----------------------------------------------------------------------------
(***************************************************************************)
(* The list of the best: what an insertion makes of it.                    *)
(***************************************************************************)
LEMMA VisitIs ==
  ASSUME NEW n \in Nat, NEW query, query \in [1 .. n -> Int], NEW v, IsCode(v.indices, n),
         NEW r, Len(r) \in Nat, NEW limit \in Nat, NEW active
  PROVE  /\ v.id \notin active => Visit(query, active, limit, r, v) = r
         /\ v.id \in active =>
              \/ Visit(query, active, limit, r, v)
                   = Insert(r, [id |-> v.id, similarity |-> Score(query, v.indices)], limit)
              \/ /\ Visit(query, active, limit, r, v) = r
                 /\ Len(r) >= limit /\ n > FirstCheck
<1> PICK t : t = IF Len(r) >= limit THEN Last(r).similarity ELSE NoThreshold
  OBVIOUS
<1> PICK s : s = ScoreWithPruning(query, v.norm, v.indices, t)
  OBVIOUS
<1>1. Visit(query, active, limit, r, v)
        = IF v.id \notin active \/ s.pruned THEN r
          ELSE Insert(r, [id |-> v.id, similarity |-> s.similarity], limit)
  BY DEF Visit
<1>2. /\ s.pruned \/ s.similarity = Score(query, v.indices)
      /\ NeverPrunes(n, t) => ~ s.pruned
  BY UnprunedIsScore
<1>3. s.pruned => Len(r) >= limit /\ n > FirstCheck
  <2>1. s.pruned => t # NoThreshold /\ ~ (n <= FirstCheck)
    BY ONLY <1>2 DEF NeverPrunes
  <2>2. FirstCheck \in Nat
    BY VectorAssumption
  <2>3. t # NoThreshold => Len(r) >= limit
    BY ONLY t = IF Len(r) >= limit THEN Last(r).similarity ELSE NoThreshold
  <2>4. ~ (n <= FirstCheck) => n > FirstCheck
    BY ONLY <2>2, n \in Nat
  <2> QED
    BY ONLY Zenon, <2>1, <2>3, <2>4
<1>4. CASE v.id \notin active
  BY ONLY Zenon, <1>1, <1>4
<1>5. CASE v.id \in active /\ s.pruned
  BY ONLY Zenon, <1>1, <1>3, <1>5
<1>6. CASE v.id \in active /\ ~ s.pruned
  BY ONLY Zenon, <1>1, <1>2, <1>6
<1> QED
  BY ONLY Zenon, <1>4, <1>5, <1>6

\* Entry res at place w of a list of p: a list of q.
PutAt(r, res, w, q) ==
    [i \in 1 .. q |-> IF i < w THEN r[i] ELSE IF i = w THEN res ELSE r[i - 1]]

IsPlace(w, r, p, res) ==
    /\ w \in 1 .. p + 1
    /\ w <= p => Greater(res.similarity, r[w].similarity)
    /\ \A i \in 1 .. w - 1 : ~ Greater(res.similarity, r[i].similarity)

OneMore(p, limit) == IF p < limit THEN p + 1 ELSE limit

LEMMA InsertIs ==
  ASSUME NEW E, NEW r \in Seq(E), NEW res, NEW limit \in Nat
  PROVE  \E w : /\ IsPlace(w, r, Len(r), res)
                /\ Insert(r, res, limit) = PutAt(r, res, w, OneMore(Len(r), limit))
<1> PICK p : p = Len(r)
  OBVIOUS
<1>1. p \in Nat /\ DOMAIN r = 1 .. p
  OBVIOUS
<1> PICK worse : worse = {i \in DOMAIN r : Greater(res.similarity, r[i].similarity)}
  OBVIOUS
<1> PICK w : w = IF worse = {} THEN p + 1 ELSE Min(worse)
  OBVIOUS
<1>2. worse \subseteq Nat /\ worse \subseteq 1 .. p
  BY <1>1
<1>3. IsPlace(w, r, p, res)
  <2>1. CASE worse = {}
    <3>1. w = p + 1 /\ \A i \in 1 .. p : ~ Greater(res.similarity, r[i].similarity)
      BY <2>1, <1>1
    <3>2. w \in 1 .. p + 1 /\ ~ (w <= p) /\ w - 1 = p
      BY ONLY <3>1, <1>1
    <3> QED
      BY ONLY <3>1, <3>2 DEF IsPlace
  <2>2. CASE worse # {}
    <3>1. Min(worse) \in worse /\ \A y \in worse : Min(worse) <= y
      BY <1>2, <2>2, MinIsLeast
    <3>2. w \in worse /\ \A y \in worse : w <= y
      BY ONLY <3>1, <2>2, w = IF worse = {} THEN p + 1 ELSE Min(worse)
    <3>3. w \in 1 .. p /\ Greater(res.similarity, r[w].similarity)
      BY <3>2, <1>1
    <3>4. ASSUME NEW i \in 1 .. w - 1 PROVE ~ Greater(res.similarity, r[i].similarity)
      <4>1. i \in 1 .. p /\ ~ (w <= i)
        BY ONLY <3>3, <1>1, i \in 1 .. w - 1
      <4>2. i \notin worse
        BY ONLY <3>2, <4>1
      <4> QED
        BY ONLY <4>1, <4>2, <1>1, worse = {x \in DOMAIN r : Greater(res.similarity, r[x].similarity)}
    <3>5. w \in 1 .. p + 1
      BY ONLY <3>3, <1>1
    <3> QED
      BY ONLY <3>3, <3>4, <3>5 DEF IsPlace
  <2> QED
    BY <2>1, <2>2
<1>4. Min({limit, p + 1}) = OneMore(p, limit)
  <2>1. limit \in Int /\ p + 1 \in Int
    BY ONLY <1>1, limit \in Nat
  <2>2. Min({limit, p + 1}) = IF limit <= p + 1 THEN limit ELSE p + 1
    BY ONLY <2>1, MinIs
  <2> QED
    BY ONLY <2>2, <1>1, limit \in Nat DEF OneMore
<1>5. Insert(r, res, limit)
        = [i \in 1 .. Min({limit, p + 1}) |->
              IF i < w THEN r[i] ELSE IF i = w THEN res ELSE r[i - 1]]
  BY ONLY Zenon, p = Len(r), worse = {i \in DOMAIN r : Greater(res.similarity, r[i].similarity)},
          w = IF worse = {} THEN p + 1 ELSE Min(worse) DEF Insert
<1>6. Insert(r, res, limit) = PutAt(r, res, w, OneMore(p, limit))
  BY ONLY <1>4, <1>5 DEF PutAt
<1> QED
  BY ONLY Zenon, <1>3, <1>6, p = Len(r)

\* The first p entries of r: members of A with their scores, each once, in falling order.
IsRanked(r, p, A, T) ==
    /\ \A i \in 1 .. p : r[i].id \in A /\ r[i].similarity = T[r[i].id]
    /\ \A i, j \in 1 .. p : i < j => /\ r[i].id # r[j].id
                                     /\ ~ Greater(r[j].similarity, r[i].similarity)

\* What the list leaves out of A is no better than the last of a full list.
IsBest(r, p, A, T, limit) ==
    \A a \in A : \/ \E i \in 1 .. p : r[i].id = a
                 \/ p = limit /\ ~ Greater(T[a], r[p].similarity)

AreSimilarities(A, T) == \A a \in A : IsSimilarity(T[a])

LEMMA PutPlaces ==
  ASSUME NEW p \in Nat, NEW limit \in Nat, limit > 0, p <= limit, NEW w \in 1 .. p + 1,
         NEW q, q = OneMore(p, limit), NEW r, NEW res, NEW u, u = PutAt(r, res, w, q)
  PROVE  /\ q \in Nat /\ q <= limit /\ p <= q /\ q <= p + 1 /\ (q = p => p = limit)
         /\ \A i \in 1 .. q : /\ i < w => i \in 1 .. p /\ u[i] = r[i]
                              /\ i = w => u[i] = res
                              /\ i > w => i - 1 \in 1 .. p /\ i - 1 >= w /\ u[i] = r[i - 1]
<1>1. q \in Nat /\ q <= limit /\ p <= q /\ q <= p + 1 /\ (q = p => p = limit)
  BY DEF OneMore
<1>2. ASSUME NEW i \in 1 .. q
      PROVE  u[i] = IF i < w THEN r[i] ELSE IF i = w THEN res ELSE r[i - 1]
  BY DEF PutAt
<1>3. ASSUME NEW i \in 1 .. q
      PROVE  (i < w => i \in 1 .. p) /\ (i > w => i - 1 \in 1 .. p /\ i - 1 >= w /\ ~ (i < w) /\ i # w)
  BY <1>1
<1>4. ASSUME NEW i \in 1 .. q PROVE i = w => ~ (i < w)
  OBVIOUS
<1> QED
  BY ONLY <1>1, <1>2, <1>3, <1>4

LEMMA PutRanked ==
  ASSUME NEW p \in Nat, NEW limit \in Nat, limit > 0, p <= limit,
         NEW A, NEW T, NEW k, k \notin A, AreSimilarities(A \cup {k}, T),
         NEW r, IsRanked(r, p, A, T),
         NEW res, res.id = k, res.similarity = T[k], NEW w, IsPlace(w, r, p, res),
         NEW q, q = OneMore(p, limit), NEW u, u = PutAt(r, res, w, q)
  PROVE  /\ IsRanked(u, q, A \cup {k}, T)
         /\ IsBest(r, p, A, T, limit) => IsBest(u, q, A \cup {k}, T, limit)
<1>1. w \in 1 .. p + 1
  BY DEF IsPlace
<1>2. /\ q \in Nat /\ q <= limit /\ p <= q /\ q <= p + 1 /\ (q = p => p = limit)
      /\ \A i \in 1 .. q : /\ i < w => i \in 1 .. p /\ u[i] = r[i]
                           /\ i = w => u[i] = res
                           /\ i > w => i - 1 \in 1 .. p /\ i - 1 >= w /\ u[i] = r[i - 1]
  BY <1>1, PutPlaces
<1>3. ASSUME NEW i \in 1 .. p PROVE r[i].id \in A /\ r[i].similarity = T[r[i].id]
  BY DEF IsRanked
<1>4. ASSUME NEW i \in 1 .. p, NEW j \in 1 .. p, i < j
      PROVE  r[i].id # r[j].id /\ ~ Greater(r[j].similarity, r[i].similarity)
  BY <1>4 DEF IsRanked
<1>5. ASSUME NEW i \in 1 .. p PROVE IsSimilarity(r[i].similarity)
  BY <1>3 DEF AreSimilarities
<1>6. IsSimilarity(res.similarity)
  BY DEF AreSimilarities
<1>7. ASSUME NEW i \in 1 .. p, i >= w PROVE ~ Greater(r[i].similarity, res.similarity)
  <2>1. w \in 1 .. p /\ w <= p
    BY <1>1, <1>7
  <2>2. Greater(res.similarity, r[w].similarity)
    BY <2>1 DEF IsPlace
  <2>3. ~ Greater(r[w].similarity, res.similarity)
    BY ONLY Zenon, <1>5, <1>6, <2>1, <2>2, GreaterIsAsymmetric
  <2>4. CASE i = w
    BY <2>3, <2>4
  <2>5. CASE i # w
    <3>1. w < i
      BY <1>1, <1>7, <2>5
    <3>2. ~ Greater(r[i].similarity, r[w].similarity)
      BY ONLY Zenon, <1>4, <2>1, <3>1, i \in 1 .. p
    <3>3. IsSimilarity(r[i].similarity) /\ IsSimilarity(r[w].similarity)
      BY <1>5, <2>1
    <3> QED
      BY ONLY Zenon, <1>6, <2>3, <3>2, <3>3, NoBetterThan
  <2> QED
    BY <2>4, <2>5
<1>8. IsRanked(u, q, A \cup {k}, T)
  <2>1. ASSUME NEW i \in 1 .. q PROVE u[i].id \in A \cup {k} /\ u[i].similarity = T[u[i].id]
    <3>1. i < w \/ i = w \/ i > w
      BY <1>1
    <3> QED
      BY <1>2, <1>3, <3>1
  <2>2. ASSUME NEW i \in 1 .. q, NEW j \in 1 .. q, i < j
        PROVE  u[i].id # u[j].id /\ ~ Greater(u[j].similarity, u[i].similarity)
    <3>0. w \in Int /\ i \in Int /\ j \in Int
      BY <1>1
    <3>1. CASE j < w
      <4>1. i < w
        BY <2>2, <3>0, <3>1
      <4>2. u[i] = r[i] /\ i \in 1 .. p /\ u[j] = r[j] /\ j \in 1 .. p
        BY <1>2, <3>1, <4>1
      <4> QED
        BY <1>4, <2>2, <4>2
    <3>2. CASE j = w
      <4>1. i < w
        BY <2>2, <3>2
      <4>2. u[i] = r[i] /\ i \in 1 .. p /\ u[j] = res
        BY <1>2, <3>2, <4>1
      <4>3. i \in 1 .. w - 1
        BY <3>0, <4>1
      <4>4. ~ Greater(res.similarity, r[i].similarity)
        BY <4>3 DEF IsPlace
      <4>5. r[i].id \in A
        BY <1>3, <4>2
      <4> QED
        BY <4>2, <4>4, <4>5
    <3>3. CASE j > w
      <4>1. u[j] = r[j - 1] /\ j - 1 \in 1 .. p /\ j - 1 >= w
        BY <1>2, <3>3
      <4>2. CASE i < w
        <5>1. u[i] = r[i] /\ i \in 1 .. p
          BY <1>2, <4>2
        <5>2. i < j - 1
          BY <3>0, <4>1, <4>2
        <5> QED
          BY <1>4, <4>1, <5>1, <5>2
      <4>3. CASE i = w
        <5>1. u[i] = res
          BY <1>2, <4>3
        <5>2. r[j - 1].id \in A /\ ~ Greater(r[j - 1].similarity, res.similarity)
          BY <1>3, <1>7, <4>1
        <5> QED
          BY <4>1, <5>1, <5>2
      <4>4. CASE i > w
        <5>1. u[i] = r[i - 1] /\ i - 1 \in 1 .. p
          BY <1>2, <4>4
        <5>2. i - 1 < j - 1
          BY <2>2, <3>0
        <5> QED
          BY <1>4, <4>1, <5>1, <5>2
      <4> QED
        BY <3>0, <4>2, <4>3, <4>4
    <3> QED
      BY <3>0, <3>1, <3>2, <3>3
  <2> QED
    BY <2>1, <2>2 DEF IsRanked
\* The last of a full list before the insertion is no better than the last after it.
<1>9. ASSUME p = limit PROVE q = p /\ p \in 1 .. p /\ p \in 1 .. q /\ ~ Greater(r[p].similarity, u[p].similarity)
  <2>1. q = p /\ p \in 1 .. p /\ p \in 1 .. q
    BY <1>2, <1>9
  <2>2. CASE p < w
    <3>1. u[p] = r[p] /\ IsSimilarity(r[p].similarity)
      BY <1>2, <1>5, <2>1, <2>2
    <3>2. Greater(r[p].similarity, r[p].similarity) => ~ Greater(r[p].similarity, r[p].similarity)
      BY ONLY Zenon, <3>1, GreaterIsAsymmetric
    <3> QED
      BY ONLY <2>1, <3>1, <3>2
  <2>3. CASE p = w
    <3>1. u[p] = res /\ p >= w
      BY <1>1, <1>2, <2>1, <2>3
    <3> QED
      BY <1>7, <2>1, <3>1
  <2>4. CASE p > w
    <3>1. u[p] = r[p - 1] /\ p - 1 \in 1 .. p /\ p - 1 < p
      BY <1>2, <2>1, <2>4
    <3> QED
      BY <1>4, <2>1, <3>1
  <2> QED
    BY <1>1, <2>2, <2>3, <2>4
<1>10. ASSUME IsBest(r, p, A, T, limit) PROVE IsBest(u, q, A \cup {k}, T, limit)
  <2>1. SUFFICES ASSUME NEW a \in A \cup {k}
        PROVE  \/ \E i \in 1 .. q : u[i].id = a
               \/ q = limit /\ ~ Greater(T[a], u[q].similarity)
    BY DEF IsBest
  <2>2. CASE a = k
    <3>1. CASE w <= q
      <4>1. w \in 1 .. q /\ u[w] = res
        BY <1>1, <1>2, <3>1
      <4> QED
        BY <2>2, <4>1
    <3>2. CASE ~ (w <= q)
      <4>1. w = p + 1 /\ q = p /\ p = limit /\ p \in 1 .. p /\ p < w /\ p \in 1 .. w - 1
        BY <1>1, <1>2, <3>2
      <4>2. u[q] = r[p]
        BY <1>2, <4>1
      <4>3. ~ Greater(res.similarity, r[p].similarity)
        BY <4>1 DEF IsPlace
      <4> QED
        BY <2>2, <4>1, <4>2, <4>3
    <3> QED
      BY <3>1, <3>2
  <2>3. CASE a \in A /\ p = limit /\ ~ Greater(T[a], r[p].similarity)
    <3>1. /\ IsSimilarity(T[a]) /\ IsSimilarity(r[p].similarity)
          /\ ~ Greater(r[p].similarity, u[p].similarity) /\ q = p /\ p \in 1 .. q
      BY <1>5, <1>9, <2>3 DEF AreSimilarities
    <3>2. IsSimilarity(u[p].similarity)
      BY <1>8, <3>1 DEF IsRanked, AreSimilarities
    <3>3. ~ Greater(T[a], u[p].similarity)
      BY ONLY Zenon, <2>3, <3>1, <3>2, NoBetterThan
    <3> QED
      BY <2>3, <3>1, <3>3
  <2>4. ASSUME NEW i \in 1 .. p, r[i].id = a, a \in A
        PROVE  \/ \E x \in 1 .. q : u[x].id = a
               \/ q = limit /\ ~ Greater(T[a], u[q].similarity)
    <3>1. CASE i < w
      <4>1. i \in 1 .. q /\ u[i] = r[i]
        BY <1>2, <3>1
      <4> QED
        BY <2>4, <4>1
    <3>2. CASE i >= w /\ i + 1 <= q
      <4>1. i + 1 \in 1 .. q /\ i + 1 > w /\ (i + 1) - 1 = i
        BY <1>1, <1>2, <3>2
      <4>2. u[i + 1] = r[i]
        BY <1>2, <4>1
      <4> QED
        BY <2>4, <4>1, <4>2
    <3>3. CASE ~ (i + 1 <= q)
      <4>1. i = p /\ q = p /\ p = limit
        BY <1>2, <3>3
      <4>2. T[a] = r[p].similarity
        BY <1>3, <2>4, <4>1
      <4> QED
        BY <1>9, <4>1, <4>2
    <3> QED
      BY <1>1, <3>1, <3>2, <3>3
  <2>5. a = k \/ a \in A
    BY <2>1
  <2>6. a \in A => \/ \E i \in 1 .. p : r[i].id = a
                   \/ p = limit /\ ~ Greater(T[a], r[p].similarity)
    BY <1>10 DEF IsBest
  <2> QED
    BY <2>2, <2>3, <2>4, <2>5, <2>6
<1> QED
  BY <1>8, <1>10

AllIn(E, r, p) == \A i \in 1 .. p : r[i] \in E

LEMMA PutIsSeq ==
  ASSUME NEW E, NEW p \in Nat, NEW r, AllIn(E, r, p), NEW limit \in Nat, limit > 0, p <= limit,
         NEW res \in E, NEW w \in 1 .. p + 1,
         NEW q, q = OneMore(p, limit), NEW u, u = PutAt(r, res, w, q)
  PROVE  u \in Seq(E) /\ Len(u) = q
<1>1. \A i \in 1 .. p : r[i] \in E
  BY DEF AllIn
<1>2. /\ q \in Nat
      /\ \A i \in 1 .. q : /\ i < w => i \in 1 .. p /\ u[i] = r[i]
                           /\ i = w => u[i] = res
                           /\ i > w => i - 1 \in 1 .. p /\ u[i] = r[i - 1]
  BY PutPlaces
<1>3. ASSUME NEW i \in 1 .. q PROVE u[i] \in E
  <2>1. i < w \/ i = w \/ i > w
    OBVIOUS
  <2> QED
    BY <1>1, <1>2, <2>1
<1>4. u = [i \in 1 .. q |-> u[i]]
  BY DEF PutAt
<1>5. u \in [1 .. q -> E]
  BY ONLY <1>3, <1>4
<1>6. u \in Seq(E) /\ Len(u) = q
  BY <1>2, <1>5
<1> QED
  BY <1>6

LEMMA InsertIsSeq ==
  ASSUME NEW E, NEW r \in Seq(E), NEW limit \in Nat, limit > 0, Len(r) <= limit, NEW res \in E
  PROVE  Insert(r, res, limit) \in Seq(E) /\ Len(Insert(r, res, limit)) <= limit
<1> PICK p : p = Len(r)
  OBVIOUS
<1> PICK q : q = OneMore(p, limit)
  OBVIOUS
<1>1. PICK w : IsPlace(w, r, p, res) /\ Insert(r, res, limit) = PutAt(r, res, w, q)
  BY InsertIs
<1> PICK u : u = PutAt(r, res, w, q)
  OBVIOUS
<1>2. w \in 1 .. p + 1 /\ AllIn(E, r, p) /\ p \in Nat /\ p <= limit
  BY <1>1 DEF IsPlace, AllIn
<1>3. u \in Seq(E) /\ Len(u) = q
  BY <1>2, PutIsSeq
<1>4. q <= limit
  BY <1>2 DEF OneMore
<1> QED
  BY <1>1, <1>3, <1>4

Least(a, b) == IF a <= b THEN a ELSE b

\* The list of the best of A, with no more entries than the limit.
IsListOf(r, A, T, limit, n) ==
    /\ Len(r) = Least(limit, Cardinality(A))
    /\ IsRanked(r, Len(r), A, T)
    /\ n <= FirstCheck => IsBest(r, Len(r), A, T, limit)

LEMMA VisitKeepsList ==
  ASSUME NEW n \in Nat, NEW query, query \in [1 .. n -> Int], NEW v, IsCode(v.indices, n),
         NEW E, NEW r \in Seq(E), NEW limit \in Nat, limit > 0, NEW active, NEW A, NEW T,
         v.id \in active, v.id \notin A, IsFiniteSet(A), AreSimilarities(A \cup {v.id}, T),
         T[v.id] = Score(query, v.indices), [id |-> v.id, similarity |-> T[v.id]] \in E,
         IsListOf(r, A, T, limit, n)
  PROVE  /\ Visit(query, active, limit, r, v) \in Seq(E)
         /\ IsListOf(Visit(query, active, limit, r, v), A \cup {v.id}, T, limit, n)
<1> PICK p : p = Len(r)
  OBVIOUS
<1> PICK c : c = Cardinality(A)
  OBVIOUS
<1> PICK k : k = v.id
  OBVIOUS
<1> PICK B : B = A \cup {k}
  OBVIOUS
<1>1. c \in Nat /\ Cardinality(B) = c + 1
  BY FS_CardinalityType, FS_AddElement
<1>2. p \in Nat /\ p = Least(limit, c) /\ p <= limit
  BY <1>1 DEF IsListOf, Least
<1>3. IsRanked(r, p, A, T) /\ (n <= FirstCheck => IsBest(r, p, A, T, limit))
  BY DEF IsListOf
<1>4. CASE Visit(query, active, limit, r, v) = Insert(r, [id |-> v.id, similarity |-> Score(query, v.indices)], limit)
  <2> PICK res : res = [id |-> k, similarity |-> T[k]]
    OBVIOUS
  <2> PICK q : q = OneMore(p, limit)
    OBVIOUS
  <2>1. Visit(query, active, limit, r, v) = Insert(r, res, limit)
    BY <1>4
  <2>2. PICK w : IsPlace(w, r, p, res) /\ Insert(r, res, limit) = PutAt(r, res, w, q)
    BY InsertIs
  <2> PICK u : u = PutAt(r, res, w, q)
    OBVIOUS
  <2>3. res.id = k /\ res.similarity = T[k] /\ res \in E /\ k \notin A /\ AreSimilarities(A \cup {k}, T)
    OBVIOUS
  <2>4. w \in 1 .. p + 1 /\ AllIn(E, r, p)
    BY <2>2 DEF IsPlace, AllIn
  <2>5. u \in Seq(E) /\ Len(u) = q
    BY <1>2, <2>3, <2>4, PutIsSeq
  <2>6. IsRanked(u, q, B, T) /\ (IsBest(r, p, A, T, limit) => IsBest(u, q, B, T, limit))
    BY <1>2, <1>3, <2>2, <2>3, PutRanked
  <2>7. q = Least(limit, c + 1)
    BY <1>1, <1>2 DEF OneMore, Least
  <2>8. IsListOf(u, B, T, limit, n)
    BY ONLY Zenon, <1>1, <1>3, <2>5, <2>6, <2>7 DEF IsListOf
  <2> QED
    BY <2>1, <2>2, <2>5, <2>8
<1>5. CASE Visit(query, active, limit, r, v) = r /\ Len(r) >= limit /\ n > FirstCheck
  <2>1. p = limit /\ limit = Least(limit, c + 1)
    BY <1>1, <1>2, <1>5 DEF Least
  <2>2. IsRanked(r, p, B, T)
    BY <1>3 DEF IsRanked
  <2>3. ~ (n <= FirstCheck)
    <3>1. FirstCheck \in Nat
      BY VectorAssumption
    <3> QED
      BY ONLY <1>5, <3>1, n \in Nat
  <2>4. IsListOf(r, B, T, limit, n)
    BY ONLY <1>1, <2>1, <2>2, <2>3, p = Len(r) DEF IsListOf
  <2> QED
    BY <1>5, <2>4
<1> QED
  BY <1>4, <1>5, VisitIs

\* The loop of a search.
Visits(f, query, vectors, active, limit) ==
    f = [k \in 0 .. Len(vectors) |->
            IF k = 0 THEN <<>> ELSE Visit(query, active, limit, f[k - 1], vectors[k])]

AreCodes(vectors, N, n) == \A i \in 1 .. N : vectors[i].id = i /\ IsCode(vectors[i].indices, n)

LEMMA VisitsExist ==
  ASSUME NEW n \in Nat, NEW query, query \in [1 .. n -> Int], NEW N \in Nat, NEW vectors,
         Len(vectors) = N, AreCodes(vectors, N, n), NEW active, NEW limit \in Nat, limit > 0
  PROVE  \E f : Visits(f, query, vectors, active, limit)
<1> PICK E : E = {[id |-> i, similarity |-> Score(query, vectors[i].indices)] : i \in 1 .. N}
  OBVIOUS
<1> PICK S : S = {r \in Seq(E) : Len(r) <= limit}
  OBVIOUS
<1>1. ASSUME NEW k \in 1 .. N, NEW r \in S
      PROVE  Visit(query, active, limit, r, vectors[k]) \in S
  <2> PICK v : v = vectors[k]
    OBVIOUS
  <2> PICK res : res = [id |-> v.id, similarity |-> Score(query, v.indices)]
    OBVIOUS
  <2>1. v.id = k /\ IsCode(v.indices, n)
    BY DEF AreCodes
  <2>2. res \in E
    BY <2>1
  <2>3. r \in Seq(E) /\ Len(r) <= limit /\ Len(r) \in Nat
    OBVIOUS
  <2>4. Visit(query, active, limit, r, v) = r \/ Visit(query, active, limit, r, v) = Insert(r, res, limit)
    BY ONLY <2>1, <2>3, VisitIs, n \in Nat, query \in [1 .. n -> Int], limit \in Nat,
            res = [id |-> v.id, similarity |-> Score(query, v.indices)]
  <2>5. Insert(r, res, limit) \in S
    <3>1. Insert(r, res, limit) \in Seq(E) /\ Len(Insert(r, res, limit)) <= limit
      BY <2>2, <2>3, InsertIsSeq
    <3> QED
      BY <3>1
  <2> QED
    BY <2>4, <2>5
<1> PICK g : g = [k \in 1 .. N |-> [r \in S |-> Visit(query, active, limit, r, vectors[k])]]
  OBVIOUS
<1>2. Rounds(g, N, S)
  BY ONLY <1>1, g = [k \in 1 .. N |-> [r \in S |-> Visit(query, active, limit, r, vectors[k])]] DEF Rounds
<1> PICK a : a = <<>>
  OBVIOUS
<1>3. a \in S
  OBVIOUS
<1>4. PICK f : IsLoop(f, N, S, a, g)
  BY Zenon, <1>2, <1>3, LoopExists
<1>5. ASSUME NEW k \in 0 .. N
      PROVE  f[k] = IF k = 0 THEN a ELSE Visit(query, active, limit, f[k - 1], vectors[k])
  <2>1. k # 0 => k \in 1 .. N /\ k - 1 \in 0 .. N
    OBVIOUS
  <2>2. k # 0 => f[k - 1] \in S
    BY <1>4, <2>1 DEF IsLoop
  <2>3. k # 0 => g[k][f[k - 1]] = Visit(query, active, limit, f[k - 1], vectors[k])
    BY <2>1, <2>2
  <2> QED
    BY <1>4, <2>3 DEF IsLoop
<1> QED
  BY <1>4, <1>5 DEF IsLoop, Visits

LEMMA UpToNext ==
  ASSUME NEW N \in Nat, NEW active, active \subseteq 1 .. N, NEW k \in 1 .. N
  PROVE  LET A(i) == active \cap (1 .. i)
         IN  /\ k \notin active => A(k) = A(k - 1)
             /\ k \in active => A(k) = A(k - 1) \cup {k}
             /\ k \notin A(k - 1) /\ A(k) \subseteq 1 .. N
<1>1. ASSUME NEW x \in Int PROVE x \in 1 .. k <=> x \in 1 .. k - 1 \/ x = k
  OBVIOUS
<1>2. active \subseteq Int /\ k \notin 1 .. k - 1 /\ 1 .. k \subseteq 1 .. N
  OBVIOUS
<1> QED
  BY <1>1, <1>2

LEMMA SearchIs ==
  ASSUME NEW n \in Nat, NEW query, query \in [1 .. n -> Int], NEW N \in Nat, NEW vectors,
         Len(vectors) = N, AreCodes(vectors, N, n),
         NEW active, active \subseteq 1 .. N, NEW limit \in Nat, limit > 0,
         NEW T, T = [i \in 1 .. N |-> Score(query, vectors[i].indices)]
  PROVE  LET r == Search(query, vectors, active, limit)
         IN  (\E E : r \in Seq(E)) /\ IsListOf(r, active, T, limit, n)
<1> DEFINE f == CHOOSE f : f = [k \in 0 .. Len(vectors) |->
                  IF k = 0 THEN <<>> ELSE Visit(query, active, limit, f[k - 1], vectors[k])]
<1>1. \E g : Visits(g, query, vectors, active, limit)
  BY VisitsExist
<1>2. Visits(f, query, vectors, active, limit)
  BY <1>1 DEF Visits
<1>3. Search(query, vectors, active, limit) = f[Len(vectors)]
  BY DEF Search
<1> HIDE DEF f
<1>4. /\ f[0] = <<>>
      /\ \A k \in 1 .. N : f[k] = Visit(query, active, limit, f[k - 1], vectors[k])
  <2>1. \A k \in 0 .. N : f[k] = IF k = 0 THEN <<>>
                                  ELSE Visit(query, active, limit, f[k - 1], vectors[k])
    BY <1>2 DEF Visits
  <2>2. 0 \in 0 .. N /\ \A k \in 1 .. N : k \in 0 .. N /\ k # 0
    OBVIOUS
  <2> QED
    BY ONLY <2>1, <2>2
<1> PICK E : E = {[id |-> i, similarity |-> T[i]] : i \in 1 .. N}
  OBVIOUS
<1> DEFINE A(k) == active \cap (1 .. k)
<1> PICK S : S = {k \in 0 .. N : f[k] \in Seq(E) /\ IsListOf(f[k], A(k), T, limit, n)}
  OBVIOUS
<1>5. 0 \in S
  <2>1. A(0) = {} /\ Cardinality({}) = 0
    BY FS_EmptySet
  <2>2. f[0] \in Seq(E) /\ Len(f[0]) = 0
    BY <1>4
  <2>3. Least(limit, 0) = 0
    BY DEF Least
  <2>4. IsRanked(f[0], 0, {}, T) /\ IsBest(f[0], 0, {}, T, limit)
    BY DEF IsRanked, IsBest
  <2>5. IsListOf(f[0], A(0), T, limit, n)
    BY ONLY <2>1, <2>2, <2>3, <2>4 DEF IsListOf
  <2> QED
    BY <2>2, <2>5
<1>6. \A k \in 0 .. N - 1 : k \in S => k + 1 \in S
  <2> SUFFICES ASSUME NEW i \in 0 .. N - 1, i \in S PROVE i + 1 \in S
    OBVIOUS
  <2> PICK k : k = i + 1
    OBVIOUS
  <2>1. k \in 1 .. N /\ k \in 0 .. N /\ k - 1 = i
    OBVIOUS
  <2> PICK r : r = f[i]
    OBVIOUS
  <2> PICK v : v = vectors[k]
    OBVIOUS
  <2> PICK D : D = A(i)
    OBVIOUS
  <2>2. r \in Seq(E) /\ IsListOf(r, D, T, limit, n)
    OBVIOUS
  <2>3. f[k] = Visit(query, active, limit, r, v)
    BY <1>4, <2>1
  <2>4. v.id = k /\ IsCode(v.indices, n)
    BY <2>1 DEF AreCodes
  <2>5. /\ k \notin active => A(k) = D
        /\ k \in active => A(k) = D \cup {k}
        /\ k \notin D /\ A(k) \subseteq 1 .. N
    BY ONLY <2>1, UpToNext, N \in Nat, active \subseteq 1 .. N, D = A(i)
  <2>6. CASE k \notin active
    <3>1. f[k] = r
      <4>1. Len(r) \in Nat
        BY <2>2
      <4>2. v.id \notin active
        BY <2>4, <2>6
      <4>3. Visit(query, active, limit, r, v) = r
        BY ONLY <4>2 DEF Visit
      <4> QED
        BY ONLY Zenon, <2>3, <4>3
    <3> QED
      BY <2>1, <2>2, <2>5, <2>6, <3>1
  <2>7. CASE k \in active
    <3>1. IsFiniteSet(D)
      <4>1. IsFiniteSet(1 .. i)
        BY FS_Interval
      <4>2. D \subseteq 1 .. i
        OBVIOUS
      <4> QED
        BY <4>1, <4>2, FS_Subset
    <3>2. AreSimilarities(D \cup {k}, T)
      <4>1. ASSUME NEW x \in 1 .. N PROVE IsSimilarity(T[x])
        <5>1. IsCode(vectors[x].indices, n)
          BY DEF AreCodes
        <5>2. IsSimilarity(Score(query, vectors[x].indices))
          BY <5>1, ScoreIsSimilarity
        <5> QED
          BY <5>2
      <4> QED
        BY <2>5, <2>7, <4>1 DEF AreSimilarities
    <3>3. T[k] = Score(query, v.indices) /\ [id |-> k, similarity |-> T[k]] \in E
      BY <2>1
    <3>4. f[k] \in Seq(E) /\ IsListOf(f[k], D \cup {k}, T, limit, n)
      <4> HIDE DEF A
      <4>1. v.id \in active /\ v.id \notin D /\ AreSimilarities(D \cup {v.id}, T)
        BY <2>4, <2>5, <2>7, <3>2
      <4>2. T[v.id] = Score(query, v.indices) /\ [id |-> v.id, similarity |-> T[v.id]] \in E
        BY <2>4, <3>3
      <4>3. /\ Visit(query, active, limit, r, v) \in Seq(E)
            /\ IsListOf(Visit(query, active, limit, r, v), D \cup {v.id}, T, limit, n)
        BY ONLY Zenon, <2>2, <2>4, <3>1, <4>1, <4>2, VisitKeepsList,
                n \in Nat, query \in [1 .. n -> Int], limit \in Nat, limit > 0
      <4> QED
        BY <2>3, <2>4, <4>3
    <3> QED
      BY <2>1, <2>5, <2>7, <3>4
  <2> QED
    BY <2>6, <2>7
<1>7. N \in S
  <2>1. \A k \in 0 .. N : k \in S
    <3> HIDE DEF A
    <3> QED
      BY <1>5, <1>6, UpTo
  <2>2. N \in 0 .. N
    OBVIOUS
  <2> QED
    BY ONLY Zenon, <2>1, <2>2
<1>8. A(N) = active
  OBVIOUS
<1> QED
  BY <1>3, <1>7, <1>8

-----------------------------------------------------------------------------
(* VectorSearchExact for every codebook, every index of vectors quantised with it, every limit and
   every query, of whatever dimension: whichever vectors the partial scores rule out, a search
   returns as many active vectors as the limit allows, each once, with the full score of its codes
   and in falling order, and with vectors too short for a check nothing it leaves out is better
   (index.go 79-153, turboquant.go 440-605).  The binary search over the codebook ends at a nearest
   centroid, for every value (codebook.go 16-27). *)
THEOREM SearchIsExact ==
  ASSUME call.op = "search" =>
           /\ call.query \in Seq(Int) /\ call.limit \in Nat \ {0}
           /\ call.indices \in Seq([1 .. Len(call.query) -> 0 .. Len(Centroids) - 1])
           /\ call.active \subseteq DOMAIN call.indices,
         call.op = "nearest" => call.value \in Int
  PROVE  VectorSearchExact
<1>1. NearestCentroid
  BY NearestIsNearest DEF NearestCentroid
<1>2. ASSUME call.op = "search"
      PROVE  SearchWellFormed /\ ShortSearchIsTopK
  <2> PICK query : query = call.query
    OBVIOUS
  <2> PICK n : n = Len(query)
    OBVIOUS
  <2> PICK N : N = Len(call.indices)
    OBVIOUS
  <2> PICK active : active = call.active
    OBVIOUS
  <2> PICK limit : limit = call.limit
    OBVIOUS
  <2> PICK vectors : vectors = Vectors
    OBVIOUS
  <2> PICK T : T = [i \in 1 .. N |-> Score(query, vectors[i].indices)]
    OBVIOUS
  <2>1. n \in Nat /\ query \in [1 .. n -> Int] /\ limit \in Nat /\ limit > 0
    BY <1>2
  <2>2. /\ N \in Nat /\ active \subseteq 1 .. N
        /\ \A i \in 1 .. N : call.indices[i] \in [1 .. n -> 0 .. Len(Centroids) - 1]
    BY <1>2
  <2>3. vectors = [i \in 1 .. N |-> [id |-> i, norm |-> 1, indices |-> call.indices[i]]]
    BY <1>2 DEF Vectors
  <2>4. \A i \in 1 .. N : vectors[i].id = i /\ vectors[i].indices = call.indices[i]
    BY <2>3
  <2>5. AreCodes(vectors, N, n)
    BY SMTT(20), <2>2, <2>4 DEF AreCodes, IsCode
  <2>6. Len(vectors) = N
    <3>1. vectors = [i \in 1 .. N |-> vectors[i]]
      BY <2>3
    <3> QED
      BY <2>2, <3>1, LenIs
  <2> PICK r : r = Found
    OBVIOUS
  <2>7. r = Search(query, vectors, active, limit)
    BY DEF Found
  <2>8. (\E E : r \in Seq(E)) /\ IsListOf(r, active, T, limit, n)
    BY ONLY <2>1, <2>2, <2>5, <2>6, <2>7, SearchIs,
            T = [i \in 1 .. N |-> Score(query, vectors[i].indices)]
  <2> PICK p : p = Len(r)
    OBVIOUS
  <2>9. p \in Nat /\ DOMAIN r = 1 .. p /\ Last(r) = r[p]
    BY <2>8 DEF Last
  <2>10. IsFiniteSet(active) /\ Cardinality(active) \in Nat
    <3>0. 1 \in Int /\ N \in Int
      BY <2>2
    <3>1. IsFiniteSet(1 .. N)
      BY ONLY <3>0, FS_Interval
    <3>2. IsFiniteSet(active)
      BY <2>2, <3>1, FS_Subset
    <3> QED
      BY <3>2, FS_CardinalityType
  <2>11. p = Min({limit, Cardinality(active)})
    <3>1. p = Least(limit, Cardinality(active))
      BY <2>8 DEF IsListOf
    <3> QED
      BY <2>1, <2>10, <3>1, MinIs DEF Least
  <2>12. IsRanked(r, p, active, T)
    BY <2>8 DEF IsListOf
  <2>13. \A i \in 1 .. N : T[i] = Score(call.query, call.indices[i])
    BY <2>4
  <2>14. ASSUME NEW i \in DOMAIN r
         PROVE  r[i].id \in active /\ r[i].similarity = Score(call.query, call.indices[r[i].id])
    <3>1. i \in 1 .. p
      BY ONLY <2>9, i \in DOMAIN r
    <3>2. r[i].id \in active /\ r[i].similarity = T[r[i].id]
      BY ONLY <2>12, <3>1 DEF IsRanked
    <3>3. r[i].id \in 1 .. N
      BY ONLY <2>2, <3>2
    <3>4. T[r[i].id] = Score(call.query, call.indices[r[i].id])
      BY ONLY <2>13, <3>3
    <3> QED
      BY ONLY <3>2, <3>4
  <2>15. ASSUME NEW i \in DOMAIN r, NEW j \in DOMAIN r, i < j
         PROVE  r[i].id # r[j].id /\ ~ Greater(r[j].similarity, r[i].similarity)
    BY <2>9, <2>12, <2>15 DEF IsRanked
  <2>16. SearchWellFormed
    BY ONLY <2>11, <2>14, <2>15, r = Found, p = Len(r), active = call.active, limit = call.limit
       DEF SearchWellFormed
  <2>17. ASSUME Len(call.query) <= FirstCheck
         PROVE  NothingBetterLeftOut
    <3>1. IsBest(r, p, active, T, limit)
      BY <2>8, <2>17 DEF IsListOf
    <3>2. ASSUME NEW id \in active, id \notin {r[i].id : i \in DOMAIN r}
          PROVE  ~ Greater(Score(call.query, call.indices[id]), Last(r).similarity)
      <4>1. ~ \E i \in 1 .. p : r[i].id = id
        BY <2>9, <3>2
      <4>2. ~ Greater(T[id], r[p].similarity)
        BY <3>1, <4>1 DEF IsBest
      <4> QED
        BY <2>2, <2>9, <2>13, <4>2
    <3> QED
      BY ONLY <3>2, r = Found, active = call.active DEF NothingBetterLeftOut
  <2> QED
    BY <2>16, <2>17 DEF ShortSearchIsTopK
<1>3. call.op # "search" => SearchWellFormed /\ ShortSearchIsTopK
  BY DEF SearchWellFormed, ShortSearchIsTopK
<1> QED
  BY <1>1, <1>2, <1>3 DEF VectorSearchExact

-----------------------------------------------------------------------------
(***************************************************************************)
(* Reciprocal rank fusion.                                                 *)
(***************************************************************************)
\* What either search returns: a list of distinct ids.
Ranked(list) == \E n \in Nat : DOMAIN list = 1 .. n /\ Len(list) = n /\ IsInjective(list)

LEMMA RankIs ==
  ASSUME NEW list, Ranked(list), NEW id
  PROVE  /\ RankIn(list, id) \in Nat /\ RankIn(list, id) >= 1
         /\ id \in ToSet(list) => /\ RankIn(list, id) <= Len(list) /\ list[RankIn(list, id)] = id
                                  /\ Contribution(list, id) = [num |-> 1, den |-> RankConstant + RankIn(list, id)]
         /\ id \notin ToSet(list) => /\ RankIn(list, id) = Len(list) + 1
                                     /\ Contribution(list, id) = [num |-> 0, den |-> 1]
<1> PICK n \in Nat : DOMAIN list = 1 .. n /\ Len(list) = n
  BY DEF Ranked
<1>1. CASE id \in ToSet(list)
  <2>1. \E i \in DOMAIN list : list[i] = id
    BY <1>1 DEF ToSet
  <2> PICK r : r = CHOOSE i \in DOMAIN list : list[i] = id
    OBVIOUS
  <2>2. r \in DOMAIN list /\ list[r] = id
    BY <2>1
  <2>3. RankIn(list, id) = r /\ Contribution(list, id) = [num |-> 1, den |-> RankConstant + r]
    BY <1>1 DEF RankIn, Contribution
  <2> QED
    BY <1>1, <2>2, <2>3
<1>2. CASE id \notin ToSet(list)
  BY <1>2 DEF RankIn, Contribution
<1> QED
  BY <1>1, <1>2

\* In one list, the id of the smaller rank contributes more.
LEMMA BetterRankCounts ==
  ASSUME NEW list, Ranked(list), NEW x, NEW y, x # y, RankIn(list, x) <= RankIn(list, y),
         NEW s, s = Contribution(list, x), NEW t, t = Contribution(list, y)
  PROVE  /\ s.num \in Nat /\ s.den \in Nat /\ s.den > 0
         /\ t.num \in Nat /\ t.den \in Nat /\ t.den > 0
         /\ s.num * t.den >= t.num * s.den
         /\ x \in ToSet(list) \/ y \in ToSet(list) => s.num * t.den > t.num * s.den
<1>1. RankConstant \in Nat /\ RankConstant > 0
  BY HybridAssumption
<1> PICK a : a = RankIn(list, x)
  OBVIOUS
<1> PICK b : b = RankIn(list, y)
  OBVIOUS
<1>2. a \in Nat /\ b \in Nat /\ a >= 1 /\ b >= 1 /\ a <= b /\ Len(list) \in Nat
  BY RankIs DEF Ranked
<1>3. CASE x \in ToSet(list) /\ y \in ToSet(list)
  <2>1. s = [num |-> 1, den |-> RankConstant + a] /\ t = [num |-> 1, den |-> RankConstant + b]
    BY <1>3, RankIs
  <2>2. a # b
    BY <1>3, RankIs
  <2> QED
    BY <1>1, <1>2, <2>1, <2>2
<1>4. CASE x \in ToSet(list) /\ y \notin ToSet(list)
  <2>1. s = [num |-> 1, den |-> RankConstant + a] /\ t = [num |-> 0, den |-> 1]
    BY <1>4, RankIs
  <2> QED
    BY <1>1, <1>2, <2>1
<1>5. CASE x \notin ToSet(list) /\ y \in ToSet(list)
  <2>1. a = Len(list) + 1 /\ b <= Len(list)
    BY <1>5, RankIs
  <2> QED
    BY <1>2, <2>1
<1>6. CASE x \notin ToSet(list) /\ y \notin ToSet(list)
  <2>1. s = [num |-> 0, den |-> 1] /\ t = [num |-> 0, den |-> 1]
    BY <1>6, RankIs
  <2> QED
    BY <1>6, <2>1
<1> QED
  BY <1>3, <1>4, <1>5, <1>6

\* Sums of fractions compare as their parts do.
LEMMA SumsCompare ==
  ASSUME NEW a \in Nat, NEW b \in Nat, NEW c \in Nat, NEW d \in Nat,
         NEW a1 \in Nat, NEW b1 \in Nat, NEW c1_ \in Nat, NEW d1 \in Nat,
         b > 0, d > 0, b1 > 0, d1 > 0,
         a * b1 >= a1 * b, c * d1 >= c1_ * d, a * b1 > a1 * b \/ c * d1 > c1_ * d
  PROVE  ((a * d) + (c * b)) * (b1 * d1) > ((a1 * d1) + (c1_ * b1)) * (b * d)
<1> PICK p : p = a * b1
  OBVIOUS
<1> PICK q : q = a1 * b
  OBVIOUS
<1> PICK r : r = c * d1
  OBVIOUS
<1> PICK s : s = c1_ * d
  OBVIOUS
<1> PICK m : m = d * d1
  OBVIOUS
<1> PICK n : n = b * b1
  OBVIOUS
<1>1. p \in Nat /\ q \in Nat /\ r \in Nat /\ s \in Nat /\ m \in Nat /\ n \in Nat /\ m > 0 /\ n > 0
  <2>1. \A x, y \in Nat : x * y \in Nat /\ (x > 0 /\ y > 0 => x * y > 0)
    OBVIOUS
  <2> QED
    BY <2>1
<1>2. ((a * d) + (c * b)) * (b1 * d1) = (p * m) + (r * n)
  OBVIOUS
<1>3. ((a1 * d1) + (c1_ * b1)) * (b * d) = (q * m) + (s * n)
  OBVIOUS
<1>4. \A x, y, z \in Nat : z > 0 => /\ x >= y => x * z >= y * z
                                    /\ x > y => x * z > y * z
  OBVIOUS
<1>5. /\ p * m >= q * m /\ r * n >= s * n
      /\ p * m > q * m \/ r * n > s * n
  BY ONLY <1>1, <1>4, p >= q, r >= s, p > q \/ r > s
<1>6. p * m \in Nat /\ q * m \in Nat /\ r * n \in Nat /\ s * n \in Nat
  BY ONLY <1>1
<1>7. (p * m) + (r * n) > (q * m) + (s * n)
  BY ONLY <1>5, <1>6
<1> QED
  BY ONLY <1>2, <1>3, <1>7

LEMMA BetterInBothIsHigher ==
  ASSUME NEW sem, Ranked(sem), NEW lex, Ranked(lex), NEW x, NEW y, x # y,
         x \in ToSet(sem) \cup ToSet(lex),
         RankIn(sem, x) <= RankIn(sem, y), RankIn(lex, x) <= RankIn(lex, y)
  PROVE  Higher(RrfScore(sem, lex, x), RrfScore(sem, lex, y))
<1> PICK s : s = Contribution(sem, x)
  OBVIOUS
<1> PICK t : t = Contribution(lex, x)
  OBVIOUS
<1> PICK s1 : s1 = Contribution(sem, y)
  OBVIOUS
<1> PICK t1 : t1 = Contribution(lex, y)
  OBVIOUS
<1>1. /\ s.num \in Nat /\ s.den \in Nat /\ s.den > 0 /\ s1.num \in Nat /\ s1.den \in Nat /\ s1.den > 0
      /\ s.num * s1.den >= s1.num * s.den
      /\ x \in ToSet(sem) => s.num * s1.den > s1.num * s.den
  BY BetterRankCounts
<1>2. /\ t.num \in Nat /\ t.den \in Nat /\ t.den > 0 /\ t1.num \in Nat /\ t1.den \in Nat /\ t1.den > 0
      /\ t.num * t1.den >= t1.num * t.den
      /\ x \in ToSet(lex) => t.num * t1.den > t1.num * t.den
  BY BetterRankCounts
<1>3. s.num * s1.den > s1.num * s.den \/ t.num * t1.den > t1.num * t.den
  BY <1>1, <1>2
<1>4. ((s.num * t.den) + (t.num * s.den)) * (s1.den * t1.den)
        > ((s1.num * t1.den) + (t1.num * s1.den)) * (s.den * t.den)
  BY ONLY <1>1, <1>2, <1>3, SumsCompare
<1>5. /\ RrfScore(sem, lex, x) = [num |-> (s.num * t.den) + (t.num * s.den), den |-> s.den * t.den]
      /\ RrfScore(sem, lex, y) = [num |-> (s1.num * t1.den) + (t1.num * s1.den), den |-> s1.den * t1.den]
  BY DEF RrfScore
<1> QED
  BY <1>4, <1>5 DEF Higher

\* A sequence SetToSeqs gives lists every member once.
LEMMA ListsEverything ==
  ASSUME NEW S, NEW s, IsFiniteSet(S), s \in SetToSeqs(S)
  PROVE  /\ Cardinality(S) \in Nat /\ s \in [1 .. Cardinality(S) -> S] /\ IsInjective(s)
         /\ \A x \in S : \E i \in 1 .. Cardinality(S) : s[i] = x
<1> PICK n : n = Cardinality(S)
  OBVIOUS
<1>1. n \in Nat
  BY FS_CardinalityType
<1>2. s \in [1 .. n -> S] /\ \A i, j \in 1 .. n : i # j => s[i] # s[j]
  BY DEF SetToSeqs
<1>3. s \in Injection(1 .. n, S) /\ IsInjective(s)
  BY <1>2 DEF Injection, IsInjective
<1>4. Cardinality(1 .. n) = n
  BY <1>1, FS_Interval
<1>5. s \in Surjection(1 .. n, S)
  BY <1>3, <1>4, FS_Injection
<1>6. \A x \in S : \E i \in 1 .. n : s[i] = x
  BY <1>5 DEF Surjection
<1> QED
  BY <1>1, <1>2, <1>3, <1>6

LEMMA ListIsFinite ==
  ASSUME NEW list, Ranked(list)
  PROVE  IsFiniteSet(ToSet(list))
<1> PICK n \in Nat : DOMAIN list = 1 .. n /\ Len(list) = n /\ IsInjective(list)
  BY DEF Ranked
<1> PICK f : f = [i \in 1 .. n |-> list[i]]
  OBVIOUS
<1>1. f \in Surjection(1 .. n, ToSet(list))
  BY DEF Surjection, ToSet
<1>2. IsFiniteSet(1 .. n)
  BY FS_Interval
<1> QED
  BY <1>1, <1>2, FS_Surjection

\* The first entries of a list.
FirstOf(s, limit) == SubSeq(s, 1, Min({limit, Len(s)}))

Lists(s, S, n) == s \in [1 .. n -> S]

Starts(best, s, n, m) ==
    m \in 0 .. n /\ Len(best) = m /\ DOMAIN best = 1 .. m /\ \A i \in 1 .. m : best[i] = s[i]

LEMMA PrefixIs ==
  ASSUME NEW S, NEW n \in Nat, NEW s, NEW limit \in Nat, NEW m, NEW best,
         Lists(s, S, n), m = Min({limit, n}), best = FirstOf(s, limit)
  PROVE  Starts(best, s, n, m)
<1>1. Len(s) = n /\ s \in Seq(S)
  BY DEF Lists
<1>2. m = IF limit <= n THEN limit ELSE n
  BY MinIs
<1>3. m \in 0 .. n
  BY <1>2
<1>4. best = SubSeq(s, 1, m)
  BY Zenon, <1>1 DEF FirstOf
<1>5. best \in Seq(S) /\ Len(best) = m /\ \A i \in 1 .. m : best[i] = s[i]
  <2>1. /\ SubSeq(s, 1, m) \in Seq(S) /\ Len(SubSeq(s, 1, m)) = m
        /\ \A i \in 1 .. m : SubSeq(s, 1, m)[i] = s[i]
    BY ONLY <1>1, <1>3, n \in Nat, SubSeqProperties
  <2> QED
    BY ONLY Zenon, <1>4, <2>1
<1>6. DOMAIN best = 1 .. m
  <2>1. m \in Nat
    BY ONLY <1>3
  <2> QED
    BY ONLY <1>5, <2>1
<1> QED
  BY ONLY <1>3, <1>5, <1>6 DEF Starts

\* The ids of a list in the order of their scores, cut at a limit: one that is no worse
\* in both lists comes first.
LEMMA BestComeFirst ==
  ASSUME NEW sem, Ranked(sem), NEW lex, Ranked(lex), NEW n \in Nat, NEW s, NEW m \in Nat, m <= n,
         NEW best, DOMAIN best = 1 .. m, \A i \in 1 .. m : best[i] = s[i], Ranked(best),
         \A i, j \in 1 .. n : i < j => ~ Higher(RrfScore(sem, lex, s[j]), RrfScore(sem, lex, s[i])),
         NEW x \in ToSet(sem) \cup ToSet(lex), \E i \in 1 .. n : s[i] = x,
         NEW y \in ToSet(best), x # y,
         RankIn(sem, x) <= RankIn(sem, y), RankIn(lex, x) <= RankIn(lex, y)
  PROVE  x \in ToSet(best) /\ RankIn(best, x) < RankIn(best, y)
<1>1. PICK j \in 1 .. m : y = s[j] /\ y = best[j]
  BY DEF ToSet
<1>2. PICK i \in 1 .. n : x = s[i]
  OBVIOUS
<1>3. Higher(RrfScore(sem, lex, x), RrfScore(sem, lex, y))
  BY BetterInBothIsHigher
<1>4. i < j
  <2>1. ~ j < i
    BY <1>1, <1>2, <1>3
  <2>2. i # j
    BY <1>1, <1>2
  <2> QED
    BY <2>1, <2>2
<1>5. i \in 1 .. m /\ best[i] = x
  BY <1>2, <1>4
<1>6. x \in ToSet(best)
  BY <1>5 DEF ToSet
<1>7. /\ RankIn(best, x) \in DOMAIN best /\ best[RankIn(best, x)] = x
      /\ RankIn(best, y) \in DOMAIN best /\ best[RankIn(best, y)] = y
  <2>1. PICK k \in Nat : DOMAIN best = 1 .. k /\ Len(best) = k
    BY DEF Ranked
  <2>2. \A id \in ToSet(best) : RankIn(best, id) \in Nat /\ 1 <= RankIn(best, id)
                                /\ RankIn(best, id) <= Len(best) /\ best[RankIn(best, id)] = id
    BY RankIs
  <2> QED
    BY <1>6, <2>1, <2>2
<1>8. IsInjective(best)
  BY DEF Ranked
<1>9. RankIn(best, x) = i /\ RankIn(best, y) = j
  BY <1>1, <1>5, <1>7, <1>8 DEF IsInjective
<1> QED
  BY <1>4, <1>6, <1>9

\* What computeRRF may return.
LEMMA FusedLists ==
  ASSUME NEW sem, Ranked(sem), NEW lex, Ranked(lex), NEW limit \in Nat,
         NEW best \in ComputeRRF(sem, lex, limit)
  PROVE  LET ids == ToSet(sem) \cup ToSet(lex)
         IN  /\ IsInjective(best) /\ Len(best) = Min({limit, Cardinality(ids)})
             /\ \A x \in ids, y \in ToSet(best) :
                  (RankIn(sem, x) <= RankIn(sem, y) /\ RankIn(lex, x) <= RankIn(lex, y) /\ x # y) =>
                     x \in ToSet(best) /\ RankIn(best, x) < RankIn(best, y)
<1> PICK ids : ids = ToSet(sem) \cup ToSet(lex)
  OBVIOUS
<1>1. IsFiniteSet(ids)
  BY ListIsFinite, FS_Union
<1>2. PICK n : n = Cardinality(ids)
  OBVIOUS
<1>3. PICK s : /\ s \in SetToSeqs(ids) /\ best = FirstOf(s, limit)
               /\ \A i, j \in DOMAIN s :
                    i < j => ~ Higher(RrfScore(sem, lex, s[j]), RrfScore(sem, lex, s[i]))
  BY DEF ComputeRRF, FirstOf
<1>4. n \in Nat /\ s \in [1 .. n -> ids] /\ IsInjective(s) /\ \A x \in ids : \E i \in 1 .. n : s[i] = x
  <2>1. IsFiniteSet(ids) /\ s \in SetToSeqs(ids)
    BY <1>1, <1>3
  <2>2. Cardinality(ids) \in Nat
    BY <2>1, FS_CardinalityType
  <2>3. s \in [1 .. Cardinality(ids) -> ids] /\ IsInjective(s)
    BY <2>1, ListsEverything
  <2>4. \A x \in ids : \E i \in 1 .. Cardinality(ids) : s[i] = x
    BY <2>1, ListsEverything
  <2> QED
    BY <1>2, <2>2, <2>3, <2>4
<1>5. PICK m : m = Min({limit, n})
  OBVIOUS
<1>6. /\ m \in 0 .. n /\ Len(best) = m /\ DOMAIN best = 1 .. m /\ \A i \in 1 .. m : best[i] = s[i]
  <2>1. n \in Nat /\ Lists(s, ids, n)
    BY <1>4 DEF Lists
  <2>2. best = FirstOf(s, limit)
    BY <1>3
  <2>3. Starts(best, s, n, m)
    BY Zenon, <1>5, <2>1, <2>2, PrefixIs
  <2> QED
    BY <2>3 DEF Starts
<1>7. DOMAIN s = 1 .. n
  BY <1>4
<1>8. IsInjective(best)
  BY <1>4, <1>6, <1>7 DEF IsInjective
<1>9. Ranked(best)
  BY <1>6, <1>8 DEF Ranked
<1>10. ASSUME NEW x \in ids, NEW y \in ToSet(best), RankIn(sem, x) <= RankIn(sem, y),
              RankIn(lex, x) <= RankIn(lex, y), x # y
       PROVE  x \in ToSet(best) /\ RankIn(best, x) < RankIn(best, y)
  <2>1. m \in Nat /\ m <= n
    BY <1>4, <1>6
  <2>2. \A i, j \in 1 .. n : i < j => ~ Higher(RrfScore(sem, lex, s[j]), RrfScore(sem, lex, s[i]))
    BY <1>3, <1>7
  <2>3. x \in ToSet(sem) \cup ToSet(lex) /\ \E i \in 1 .. n : s[i] = x
    BY <1>4
  <2>4. DOMAIN best = 1 .. m /\ \A i \in 1 .. m : best[i] = s[i]
    BY <1>6
  <2>5. n \in Nat /\ m \in Nat
    BY <1>4, <2>1
  <2> QED
    BY ONLY Ranked(sem), Ranked(lex), <1>9, <1>10, <2>1, <2>2, <2>3, <2>4, <2>5, BestComeFirst
<1> QED
  BY <1>2, <1>5, <1>6, <1>8, <1>10

(***************************************************************************)
(* computeRRF (db.go 496-534), for two lists of any ids and any lengths:   *)
(* a chunk no worse than another in both lists is not ranked behind it,    *)
(* and no limit cuts it off before the other.                              *)
(***************************************************************************)
THEOREM FusionIsFair ==
  ASSUME call.op = "fuse" => Ranked(call.sem) /\ Ranked(call.lex) /\ call.limit \in Nat
  PROVE  FusionRespectsBoth
  BY FusedLists DEF FusionRespectsBoth

-----------------------------------------------------------------------------
(***************************************************************************)
(* Lists and the sets of their entries.                                    *)
(***************************************************************************)
LEMMA AppendIs ==
  ASSUME NEW E, NEW r \in Seq(E), NEW e \in E
  PROVE  /\ Append(r, e) \in Seq(E) /\ ToSet(Append(r, e)) = ToSet(r) \cup {e}
         /\ IsInjective(r) /\ e \notin ToSet(r) => IsInjective(Append(r, e))
<1> PICK n : n = Len(r)
  OBVIOUS
<1> PICK u : u = Append(r, e)
  OBVIOUS
<1>1. /\ n \in Nat /\ DOMAIN r = 1 .. n /\ u \in Seq(E) /\ Len(u) = n + 1 /\ DOMAIN u = 1 .. n + 1
      /\ u[n + 1] = e /\ \A i \in 1 .. n : u[i] = r[i]
  OBVIOUS
<1>2. \A i \in 1 .. n + 1 : i \in 1 .. n \/ i = n + 1
  BY <1>1
<1>3. (\A i \in 1 .. n : i \in 1 .. n + 1 /\ i # n + 1) /\ n + 1 \in 1 .. n + 1
  BY <1>1
<1>4. ToSet(u) = ToSet(r) \cup {e}
  BY ONLY <1>1, <1>2, <1>3 DEF ToSet
<1>5. ASSUME IsInjective(r), e \notin ToSet(r) PROVE IsInjective(u)
  <2>1. \A i \in 1 .. n : r[i] # e
    BY ONLY <1>1, <1>5 DEF ToSet
  <2> QED
    BY ONLY <1>1, <1>2, <1>3, <1>5, <2>1 DEF IsInjective
<1> QED
  BY <1>1, <1>4, <1>5

LEMMA ConcatIs ==
  ASSUME NEW E, NEW s \in Seq(E), NEW t \in Seq(E)
  PROVE  s \o t \in Seq(E) /\ ToSet(s \o t) = ToSet(s) \cup ToSet(t)
<1> PICK m : m = Len(s)
  OBVIOUS
<1> PICK n : n = Len(t)
  OBVIOUS
<1> PICK u : u = s \o t
  OBVIOUS
<1>1. /\ m \in Nat /\ n \in Nat /\ DOMAIN s = 1 .. m /\ DOMAIN t = 1 .. n
      /\ u \in Seq(E) /\ Len(u) = m + n /\ DOMAIN u = 1 .. m + n
  OBVIOUS
<1>2. \A i \in 1 .. m + n : u[i] = IF i <= m THEN s[i] ELSE t[i - m]
  OBVIOUS
<1>3. ToSet(u) \subseteq ToSet(s) \cup ToSet(t)
  <2>1. ASSUME NEW i \in 1 .. m + n PROVE u[i] \in ToSet(s) \cup ToSet(t)
    <3>1. (i <= m => i \in 1 .. m) /\ (~ (i <= m) => i - m \in 1 .. n)
      BY ONLY <1>1, i \in 1 .. m + n
    <3>2. u[i] = IF i <= m THEN s[i] ELSE t[i - m]
      BY ONLY <1>2, i \in 1 .. m + n
    <3> QED
      BY ONLY <1>1, <3>1, <3>2 DEF ToSet
  <2> QED
    BY ONLY <1>1, <2>1 DEF ToSet
<1>4. ToSet(s) \subseteq ToSet(u)
  <2>1. ASSUME NEW i \in 1 .. m PROVE i \in 1 .. m + n /\ u[i] = s[i]
    <3>1. i \in 1 .. m + n /\ i <= m
      BY ONLY <1>1, i \in 1 .. m
    <3> QED
      BY ONLY <1>2, <3>1
  <2> QED
    BY ONLY <1>1, <2>1 DEF ToSet
<1>5. ToSet(t) \subseteq ToSet(u)
  <2>1. ASSUME NEW i \in 1 .. n PROVE i + m \in 1 .. m + n /\ u[i + m] = t[i]
    <3>1. i + m \in 1 .. m + n /\ ~ (i + m <= m) /\ (i + m) - m = i
      BY ONLY <1>1, i \in 1 .. n
    <3> QED
      BY ONLY <1>2, <3>1
  <2> QED
    BY ONLY <1>1, <2>1 DEF ToSet
<1> QED
  BY <1>1, <1>3, <1>4, <1>5

\* The set of the first i entries.
FirstSet(s, i) == {s[k] : k \in 1 .. i}

LEMMA FirstSetIs ==
  ASSUME NEW E, NEW s \in Seq(E)
  PROVE  /\ Len(s) \in Nat /\ FirstSet(s, 0) = {} /\ FirstSet(s, Len(s)) = ToSet(s)
         /\ \A i \in 1 .. Len(s) : s[i] \in E /\ FirstSet(s, i) = FirstSet(s, i - 1) \cup {s[i]}
<1>1. DOMAIN s = 1 .. Len(s) /\ Len(s) \in Nat /\ 1 .. 0 = {} /\ \A i \in 1 .. Len(s) : s[i] \in E
  OBVIOUS
<1>2. \A i \in 1 .. Len(s) : 1 .. i = (1 .. i - 1) \cup {i}
  BY <1>1
<1> QED
  BY ONLY <1>1, <1>2 DEF FirstSet, ToSet

(***************************************************************************)
(* Only, FirstOnly and the rows that are found for the matches.            *)
(***************************************************************************)
Selects(f, s, S) ==
    f = [i \in 0 .. Len(s) |->
            IF i = 0 THEN <<>> ELSE IF s[i] \in S THEN Append(f[i - 1], s[i]) ELSE f[i - 1]]

LEMMA SelectsExists == ASSUME NEW E, NEW s \in Seq(E), NEW S PROVE \E f : Selects(f, s, S)
<1> PICK n : n = Len(s)
  OBVIOUS
<1> PICK Q : Q = Seq(E)
  OBVIOUS
<1> PICK g : g = [i \in 1 .. n |-> [r \in Q |-> IF s[i] \in S THEN Append(r, s[i]) ELSE r]]
  OBVIOUS
<1>1. n \in Nat /\ <<>> \in Q /\ \A i \in 1 .. n : s[i] \in E
  OBVIOUS
<1>2. \A i \in 1 .. n, r \in Q : Append(r, s[i]) \in Q
  BY <1>1
<1>3. Rounds(g, n, Q)
  BY ONLY <1>2, g = [i \in 1 .. n |-> [r \in Q |-> IF s[i] \in S THEN Append(r, s[i]) ELSE r]]
     DEF Rounds
<1>4. PICK f : IsLoop(f, n, Q, <<>>, g)
  BY ONLY <1>1, <1>3, LoopExists
<1>5. ASSUME NEW i \in 0 .. n
      PROVE  f[i] = IF i = 0 THEN <<>> ELSE IF s[i] \in S THEN Append(f[i - 1], s[i]) ELSE f[i - 1]
  <2>1. i # 0 => i \in 1 .. n /\ i - 1 \in 0 .. n
    BY <1>1
  <2>2. i # 0 => f[i - 1] \in Q
    BY ONLY <1>4, <2>1 DEF IsLoop
  <2>3. i # 0 => g[i][f[i - 1]] = IF s[i] \in S THEN Append(f[i - 1], s[i]) ELSE f[i - 1]
    BY ONLY <2>1, <2>2, g = [x \in 1 .. n |-> [r \in Q |-> IF s[x] \in S THEN Append(r, s[x]) ELSE r]]
  <2>4. f[i] = IF i = 0 THEN <<>> ELSE g[i][f[i - 1]]
    BY ONLY <1>4, i \in 0 .. n DEF IsLoop
  <2> QED
    BY ONLY <2>3, <2>4
<1>6. f = [i \in 0 .. n |-> f[i]]
  BY ONLY <1>4 DEF IsLoop
<1>7. f = [i \in 0 .. n |->
             IF i = 0 THEN <<>> ELSE IF s[i] \in S THEN Append(f[i - 1], s[i]) ELSE f[i - 1]]
  BY ONLY <1>5, <1>6
<1> QED
  BY ONLY <1>7, n = Len(s) DEF Selects

LEMMA OnlyIs ==
  ASSUME NEW E, NEW s \in Seq(E), NEW S
  PROVE  Only(s, S) \in Seq(E) /\ ToSet(Only(s, S)) = ToSet(s) \cap S
<1> PICK n : n = Len(s)
  OBVIOUS
<1> DEFINE f == CHOOSE f : f = [i \in 0 .. Len(s) |->
             IF i = 0 THEN <<>> ELSE IF s[i] \in S THEN Append(f[i - 1], s[i]) ELSE f[i - 1]]
<1>0. \E e : Selects(e, s, S)
  BY SelectsExists
<1>1. Selects(f, s, S)
  BY <1>0 DEF Selects
<1>2. Only(s, S) = f[Len(s)]
  BY DEF Only
<1> HIDE DEF f
<1>3. n \in Nat /\ FirstSet(s, 0) = {} /\ FirstSet(s, n) = ToSet(s)
      /\ \A i \in 1 .. n : s[i] \in E /\ FirstSet(s, i) = FirstSet(s, i - 1) \cup {s[i]}
  BY FirstSetIs
<1>4. \A i \in 0 .. n : f[i] = IF i = 0 THEN <<>>
             ELSE IF s[i] \in S THEN Append(f[i - 1], s[i]) ELSE f[i - 1]
  BY ONLY <1>1, n = Len(s) DEF Selects
<1> PICK G : G = {i \in 0 .. n : f[i] \in Seq(E) /\ ToSet(f[i]) = FirstSet(s, i) \cap S}
  OBVIOUS
<1>5. 0 \in G
  <2>1. f[0] = <<>>
    BY <1>3, <1>4
  <2>2. ToSet(<<>>) = {} /\ <<>> \in Seq(E)
    BY DEF ToSet
  <2>3. f[0] \in Seq(E) /\ ToSet(f[0]) = FirstSet(s, 0) \cap S
    BY ONLY <1>3, <2>1, <2>2
  <2>4. 0 \in 0 .. n
    BY ONLY <1>3
  <2> QED
    BY <2>3, <2>4
<1>6. \A i \in 0 .. n - 1 : i \in G => i + 1 \in G
  <2> SUFFICES ASSUME NEW i \in 0 .. n - 1, i \in G PROVE i + 1 \in G
    OBVIOUS
  <2> PICK j : j = i + 1
    OBVIOUS
  <2>1. j \in 1 .. n /\ j \in 0 .. n /\ j # 0 /\ j - 1 = i
    BY <1>3
  <2>2. f[j] = IF s[j] \in S THEN Append(f[i], s[j]) ELSE f[i]
    BY ONLY <1>4, <2>1
  <2>3. s[j] \in E /\ FirstSet(s, j) = FirstSet(s, i) \cup {s[j]}
    BY ONLY <1>3, <2>1
  <2>4. f[i] \in Seq(E) /\ ToSet(f[i]) = FirstSet(s, i) \cap S
    OBVIOUS
  <2>5. Append(f[i], s[j]) \in Seq(E) /\ ToSet(Append(f[i], s[j])) = ToSet(f[i]) \cup {s[j]}
    BY ONLY <2>3, <2>4, AppendIs
  <2>6. f[j] \in Seq(E) /\ ToSet(f[j]) = FirstSet(s, j) \cap S
    BY ONLY <2>2, <2>3, <2>4, <2>5
  <2> QED
    BY <2>1, <2>6
<1>7. n \in G
  <2>1. \A i \in 0 .. n : i \in G
    BY ONLY <1>3, <1>5, <1>6, UpTo
  <2> QED
    BY ONLY <1>3, <2>1
<1> QED
  BY <1>2, <1>3, <1>7

FirstOnes(f, ids) ==
    f = [i \in 0 .. Len(ids) |->
            IF i = 0 THEN <<>>
            ELSE IF ids[i] \in ToSet(f[i - 1]) THEN f[i - 1] ELSE Append(f[i - 1], ids[i])]

LEMMA FirstOnesExist == ASSUME NEW E, NEW ids \in Seq(E) PROVE \E f : FirstOnes(f, ids)
<1> PICK n : n = Len(ids)
  OBVIOUS
<1> PICK Q : Q = Seq(E)
  OBVIOUS
<1> PICK g : g = [i \in 1 .. n |-> [r \in Q |-> IF ids[i] \in ToSet(r) THEN r ELSE Append(r, ids[i])]]
  OBVIOUS
<1>1. n \in Nat /\ <<>> \in Q /\ \A i \in 1 .. n : ids[i] \in E
  OBVIOUS
<1>2. \A i \in 1 .. n, r \in Q : Append(r, ids[i]) \in Q
  BY <1>1
<1>3. Rounds(g, n, Q)
  BY ONLY <1>2, g = [i \in 1 .. n |-> [r \in Q |-> IF ids[i] \in ToSet(r) THEN r ELSE Append(r, ids[i])]]
     DEF Rounds
<1>4. PICK f : IsLoop(f, n, Q, <<>>, g)
  BY ONLY <1>1, <1>3, LoopExists
<1>5. ASSUME NEW i \in 0 .. n
      PROVE  f[i] = IF i = 0 THEN <<>>
                    ELSE IF ids[i] \in ToSet(f[i - 1]) THEN f[i - 1] ELSE Append(f[i - 1], ids[i])
  <2>1. i # 0 => i \in 1 .. n /\ i - 1 \in 0 .. n
    BY <1>1
  <2>2. i # 0 => f[i - 1] \in Q
    BY ONLY <1>4, <2>1 DEF IsLoop
  <2>3. i # 0 => g[i][f[i - 1]] = IF ids[i] \in ToSet(f[i - 1]) THEN f[i - 1] ELSE Append(f[i - 1], ids[i])
    BY ONLY <2>1, <2>2,
       g = [x \in 1 .. n |-> [r \in Q |-> IF ids[x] \in ToSet(r) THEN r ELSE Append(r, ids[x])]]
  <2>4. f[i] = IF i = 0 THEN <<>> ELSE g[i][f[i - 1]]
    BY ONLY <1>4, i \in 0 .. n DEF IsLoop
  <2> QED
    BY ONLY <2>3, <2>4
<1>6. f = [i \in 0 .. n |-> f[i]]
  BY ONLY <1>4 DEF IsLoop
<1>7. f = [i \in 0 .. n |->
             IF i = 0 THEN <<>>
             ELSE IF ids[i] \in ToSet(f[i - 1]) THEN f[i - 1] ELSE Append(f[i - 1], ids[i])]
  BY ONLY <1>5, <1>6
<1> QED
  BY ONLY <1>7, n = Len(ids) DEF FirstOnes

\* Each id once, and every id.
LEMMA FirstOnlyIs ==
  ASSUME NEW E, NEW ids \in Seq(E)
  PROVE  FirstOnly(ids) \in Seq(E) /\ IsInjective(FirstOnly(ids)) /\ ToSet(FirstOnly(ids)) = ToSet(ids)
<1> PICK n : n = Len(ids)
  OBVIOUS
<1> DEFINE f == CHOOSE f : f = [i \in 0 .. Len(ids) |->
             IF i = 0 THEN <<>>
             ELSE IF ids[i] \in ToSet(f[i - 1]) THEN f[i - 1] ELSE Append(f[i - 1], ids[i])]
<1>0. \E e : FirstOnes(e, ids)
  BY FirstOnesExist
<1>1. FirstOnes(f, ids)
  BY <1>0 DEF FirstOnes
<1>2. FirstOnly(ids) = f[Len(ids)]
  BY DEF FirstOnly
<1> HIDE DEF f
<1>3. n \in Nat /\ FirstSet(ids, 0) = {} /\ FirstSet(ids, n) = ToSet(ids)
      /\ \A i \in 1 .. n : ids[i] \in E /\ FirstSet(ids, i) = FirstSet(ids, i - 1) \cup {ids[i]}
  BY FirstSetIs
<1>4. \A i \in 0 .. n : f[i] = IF i = 0 THEN <<>>
             ELSE IF ids[i] \in ToSet(f[i - 1]) THEN f[i - 1] ELSE Append(f[i - 1], ids[i])
  BY ONLY <1>1, n = Len(ids) DEF FirstOnes
<1> PICK G : G = {i \in 0 .. n : f[i] \in Seq(E) /\ IsInjective(f[i]) /\ ToSet(f[i]) = FirstSet(ids, i)}
  OBVIOUS
<1>5. 0 \in G
  <2>1. f[0] = <<>>
    BY <1>3, <1>4
  <2>2. ToSet(<<>>) = {} /\ <<>> \in Seq(E) /\ IsInjective(<<>>)
    BY DEF ToSet, IsInjective
  <2>3. f[0] \in Seq(E) /\ IsInjective(f[0]) /\ ToSet(f[0]) = FirstSet(ids, 0)
    BY ONLY <1>3, <2>1, <2>2
  <2>4. 0 \in 0 .. n
    BY ONLY <1>3
  <2> QED
    BY <2>3, <2>4
<1>6. \A i \in 0 .. n - 1 : i \in G => i + 1 \in G
  <2> SUFFICES ASSUME NEW i \in 0 .. n - 1, i \in G PROVE i + 1 \in G
    OBVIOUS
  <2> PICK j : j = i + 1
    OBVIOUS
  <2>1. j \in 1 .. n /\ j \in 0 .. n /\ j # 0 /\ j - 1 = i
    BY <1>3
  <2>2. f[j] = IF ids[j] \in ToSet(f[i]) THEN f[i] ELSE Append(f[i], ids[j])
    BY ONLY <1>4, <2>1
  <2>3. ids[j] \in E /\ FirstSet(ids, j) = FirstSet(ids, i) \cup {ids[j]}
    BY ONLY <1>3, <2>1
  <2>4. f[i] \in Seq(E) /\ IsInjective(f[i]) /\ ToSet(f[i]) = FirstSet(ids, i)
    OBVIOUS
  <2>5. /\ Append(f[i], ids[j]) \in Seq(E) /\ ToSet(Append(f[i], ids[j])) = ToSet(f[i]) \cup {ids[j]}
        /\ ids[j] \notin ToSet(f[i]) => IsInjective(Append(f[i], ids[j]))
    BY ONLY <2>3, <2>4, AppendIs
  <2>6. f[j] \in Seq(E) /\ IsInjective(f[j]) /\ ToSet(f[j]) = FirstSet(ids, j)
    BY ONLY <2>2, <2>3, <2>4, <2>5
  <2> QED
    BY <2>1, <2>6
<1>7. n \in G
  <2>1. \A i \in 0 .. n : i \in G
    BY ONLY <1>3, <1>5, <1>6, UpTo
  <2> QED
    BY ONLY <1>3, <2>1
<1> QED
  BY <1>2, <1>3, <1>7

\* The ids of the rows that hold one of the first i matches.
IdsUpTo(rows, matches, i) ==
    {r.id : r \in {r \in rows : \E k \in 1 .. i : HoldsMatch(r, matches[k])}}

\* The matches of the first k chunks.
ChunkEnd(matches, k) == IF k * GrepChunk <= Len(matches) THEN k * GrepChunk ELSE Len(matches)

LEMMA ChunksAre ==
  ASSUME NEW M, NEW matches \in Seq(M)
  PROVE  \E n \in Nat :
           /\ Len(MatchChunks(matches)) = n
           /\ ChunkEnd(matches, 0) = 0 /\ ChunkEnd(matches, n) = Len(matches)
           /\ \A k \in 1 .. n :
                MatchChunks(matches)[k]
                  = SubSeq(matches, ChunkEnd(matches, k - 1) + 1, ChunkEnd(matches, k))
<1> PICK m : m = Len(matches)
  OBVIOUS
<1> PICK c : c = GrepChunk
  OBVIOUS
<1> PICK n : n = (m + c - 1) \div c
  OBVIOUS
<1>1. m \in Nat /\ c \in Nat /\ c > 0
  BY HybridAssumption
<1>2. n \in Nat /\ n * c >= m /\ n * c <= m + c - 1
  <2>1. \A a \in Nat, b \in Nat : b > 0 =>
          /\ a \div b \in Nat /\ b * (a \div b) <= a /\ a <= b * (a \div b) + (b - 1)
    OBVIOUS
  <2> PICK a : a = m + c - 1
    OBVIOUS
  <2>2. a \in Nat
    BY <1>1
  <2>3. n \in Nat /\ c * n <= a /\ a <= c * n + (c - 1)
    BY ONLY <1>1, <2>1, <2>2, n = (m + c - 1) \div c, a = m + c - 1
  <2>4. c * n = n * c /\ n * c \in Nat
    BY ONLY <1>1, <2>3
  <2> QED
    BY ONLY <1>1, <2>3, <2>4, a = m + c - 1
<1> PICK ch : ch = MatchChunks(matches)
  OBVIOUS
<1>3. ch = [k \in 1 .. n |-> SubSeq(matches, (k - 1) * c + 1, Min({k * c, m}))]
  BY DEF MatchChunks
<1>4. Len(ch) = n
  <2> PICK S : S = {SubSeq(matches, (k - 1) * c + 1, Min({k * c, m})) : k \in 1 .. n}
    OBVIOUS
  <2>1. ch \in [1 .. n -> S]
    BY ONLY <1>3, S = {SubSeq(matches, (k - 1) * c + 1, Min({k * c, m})) : k \in 1 .. n}
  <2> QED
    BY ONLY <1>2, <2>1
<1>5. ChunkEnd(matches, 0) = 0
  <2>1. 0 * c = 0
    BY ONLY <1>1
  <2> QED
    BY ONLY <1>1, <2>1, m = Len(matches), c = GrepChunk DEF ChunkEnd
<1>6. ChunkEnd(matches, n) = m
  <2>1. n * c \in Int
    BY ONLY <1>1, <1>2
  <2> QED
    BY ONLY <1>1, <1>2, <2>1, m = Len(matches), c = GrepChunk DEF ChunkEnd
<1>7. ASSUME NEW k \in 1 .. n
      PROVE  ch[k] = SubSeq(matches, ChunkEnd(matches, k - 1) + 1, ChunkEnd(matches, k))
  <2>1. (k - 1) * c \in Nat /\ k * c \in Int /\ k * c = (k - 1) * c + c /\ (k - 1) * c <= n * c - c
    <3>1. \A a, b, d \in Nat : a <= b => a * d <= b * d
      OBVIOUS
    <3>2. k - 1 \in Nat /\ n - 1 \in Nat /\ k - 1 <= n - 1
      BY <1>2
    <3>3. (k - 1) * c <= (n - 1) * c
      BY ONLY <1>1, <3>1, <3>2
    <3>4. (n - 1) * c = n * c - c /\ k * c = (k - 1) * c + c /\ (k - 1) * c \in Nat /\ n * c \in Int
      BY ONLY <1>1, <1>2, <3>2, k \in 1 .. n
    <3> QED
      BY ONLY <1>1, <3>3, <3>4
  <2>2. (k - 1) * c <= m
    BY ONLY <1>1, <1>2, <2>1
  <2>3. ChunkEnd(matches, k - 1) = (k - 1) * c
    BY ONLY <2>2, m = Len(matches), c = GrepChunk DEF ChunkEnd
  <2>4. Min({k * c, m}) = IF k * c <= m THEN k * c ELSE m
    BY ONLY <1>1, <2>1, MinIs
  <2>5. ChunkEnd(matches, k) = Min({k * c, m})
    BY ONLY <2>4, m = Len(matches), c = GrepChunk DEF ChunkEnd
  <2> QED
    BY ONLY <1>3, <2>3, <2>5, k \in 1 .. n
<1> QED
  BY ONLY <1>2, <1>4, <1>5, <1>6, <1>7, m = Len(matches), ch = MatchChunks(matches)

RowIds(rows) == {r.id : r \in rows}

IdsIn(rows, chunk) ==
    {r.id : r \in {r \in rows : \E i \in DOMAIN chunk : HoldsMatch(r, chunk[i])}}

\* What one SELECT returns: the ids of the rows that hold a match of the chunk, in some order.
LEMMA SelectIdsAre ==
  ASSUME NEW rows, IsFiniteSet(rows), NEW chunk, NEW t \in SelectIds(rows, chunk)
  PROVE  /\ t \in Seq(RowIds(rows))
         /\ ToSet(t) = IdsIn(rows, chunk)
<1> PICK R : R = {r \in rows : \E i \in DOMAIN chunk : HoldsMatch(r, chunk[i])}
  OBVIOUS
<1> PICK S : S = {r.id : r \in R}
  OBVIOUS
<1>1. IsFiniteSet(S)
  <2>1. IsFiniteSet(R)
    BY FS_Subset
  <2> PICK f : f = [r \in R |-> r.id]
    OBVIOUS
  <2>2. f \in Surjection(R, S)
    BY DEF Surjection
  <2> QED
    BY ONLY <2>1, <2>2, FS_Surjection
<1>2. t \in SetToSeqs(S)
  BY DEF SelectIds, IdsIn
<1> PICK n : n = Cardinality(S)
  OBVIOUS
<1>3. n \in Nat /\ t \in [1 .. n -> S] /\ \A x \in S : \E i \in 1 .. n : t[i] = x
  BY ONLY <1>1, <1>2, ListsEverything, n = Cardinality(S)
<1>4. S \subseteq RowIds(rows)
  BY DEF RowIds
<1>5. t \in Seq(RowIds(rows)) /\ DOMAIN t = 1 .. n
  <2>1. t \in [1 .. n -> RowIds(rows)]
    BY ONLY <1>3, <1>4
  <2> QED
    BY ONLY <1>3, <2>1
<1>6. ToSet(t) = S
  BY ONLY <1>3, <1>5 DEF ToSet
<1> QED
  BY ONLY <1>5, <1>6, S = {r.id : r \in R},
          R = {r \in rows : \E i \in DOMAIN chunk : HoldsMatch(r, chunk[i])} DEF IdsIn

IsChunk(chunk, matches, a, b) == chunk = SubSeq(matches, a + 1, b)

LEMMA ChunkAdds ==
  ASSUME NEW M, NEW matches \in Seq(M), NEW a \in Nat, NEW b \in Nat, a <= b, b <= Len(matches),
         NEW rows, NEW chunk, IsChunk(chunk, matches, a, b)
  PROVE  IdsUpTo(rows, matches, b)
           = IdsUpTo(rows, matches, a)
               \cup IdsIn(rows, chunk)
<1>1. DOMAIN chunk = 1 .. b - a /\ \A i \in 1 .. b - a : chunk[i] = matches[a + i]
  <2>1. /\ Len(SubSeq(matches, a + 1, b)) = b - a
        /\ \A i \in 1 .. b - a : SubSeq(matches, a + 1, b)[i] = matches[a + i]
        /\ SubSeq(matches, a + 1, b) \in Seq(M)
    OBVIOUS
  <2> QED
    BY ONLY <2>1, IsChunk(chunk, matches, a, b) DEF IsChunk
<1>2. ASSUME NEW r
      PROVE  (\E k \in 1 .. b : HoldsMatch(r, matches[k]))
               <=> \/ \E k \in 1 .. a : HoldsMatch(r, matches[k])
                   \/ \E i \in DOMAIN chunk : HoldsMatch(r, chunk[i])
  <2>1. ASSUME NEW k \in 1 .. b PROVE k \in 1 .. a \/ (k - a \in 1 .. b - a /\ a + (k - a) = k)
    OBVIOUS
  <2>2. ASSUME NEW i \in 1 .. b - a PROVE a + i \in 1 .. b
    OBVIOUS
  <2>3. 1 .. a \subseteq 1 .. b
    OBVIOUS
  <2> QED
    BY ONLY <1>1, <2>1, <2>2, <2>3
<1> QED
  BY ONLY <1>2 DEF IdsUpTo, IdsIn

LEMMA ChunkEndIs ==
  ASSUME NEW M, NEW matches \in Seq(M), NEW k \in Nat
  PROVE  /\ ChunkEnd(matches, k) \in Nat /\ ChunkEnd(matches, k) <= Len(matches)
         /\ ChunkEnd(matches, k) <= ChunkEnd(matches, k + 1)
<1> PICK m : m = Len(matches)
  OBVIOUS
<1> PICK c : c = GrepChunk
  OBVIOUS
<1>1. m \in Nat /\ c \in Nat
  BY HybridAssumption
<1>2. k * c \in Nat /\ (k + 1) * c = k * c + c
  BY ONLY <1>1, k \in Nat
<1> QED
  BY ONLY <1>1, <1>2, m = Len(matches), c = GrepChunk DEF ChunkEnd

\* A list that joins one of F and one of T.
Joins(q, F, T) == \E s \in F, t \in T : q = s \o t

LEMMA AppendIdsIs == ASSUME NEW F, NEW T, NEW q \in AppendIds(F, T) PROVE Joins(q, F, T)
<1>1. PICK s \in F : q \in {s \o t : t \in T}
  BY DEF AppendIds
<1>2. PICK t \in T : q = s \o t
  BY ONLY <1>1
<1> QED
  BY ONLY <1>2, s \in F, t \in T DEF Joins

\* The loop over the chunks: what may have been found so far.
Queries(f, rows, matches) ==
    f = [k \in 0 .. Len(MatchChunks(matches)) |->
            IF k = 0 THEN {<<>>} ELSE AppendIds(f[k - 1], SelectIds(rows, MatchChunks(matches)[k]))]

LEMMA QueriesExist ==
  ASSUME NEW M, NEW matches \in Seq(M), NEW rows, IsFiniteSet(rows)
  PROVE  \E f : Queries(f, rows, matches)
<1> PICK n \in Nat : Len(MatchChunks(matches)) = n
  BY ChunksAre
<1> PICK ch : ch = MatchChunks(matches)
  OBVIOUS
<1> PICK I : I = RowIds(rows)
  OBVIOUS
<1> PICK Q : Q = SUBSET Seq(I)
  OBVIOUS
<1> DEFINE Longer(F, k) == AppendIds(F, SelectIds(rows, ch[k]))
<1>1. ASSUME NEW k \in 1 .. n, NEW F \in Q PROVE Longer(F, k) \in Q
  <2>1. ASSUME NEW s \in F, NEW t \in SelectIds(rows, ch[k]) PROVE s \o t \in Seq(I)
    <3>1. t \in Seq(I) /\ s \in Seq(I)
      BY SelectIdsAre
    <3> QED
      BY ONLY <3>1
  <2>2. ASSUME NEW q \in AppendIds(F, SelectIds(rows, ch[k])) PROVE q \in Seq(I)
    <3>1. Joins(q, F, SelectIds(rows, ch[k]))
      BY ONLY q \in AppendIds(F, SelectIds(rows, ch[k])), AppendIdsIs
    <3>2. PICK s \in F, t \in SelectIds(rows, ch[k]) : q = s \o t
      BY ONLY <3>1 DEF Joins
    <3> QED
      BY <2>1, <3>2
  <2> QED
    BY ONLY <2>2, Q = SUBSET Seq(I)
<1> PICK g : g = [k \in 1 .. n |-> [F \in Q |-> Longer(F, k)]]
  OBVIOUS
<1>2. {<<>>} \in Q
  BY DEF RowIds
<1>3. Rounds(g, n, Q)
  <2> HIDE DEF Longer
  <2> QED
    BY ONLY <1>1, g = [k \in 1 .. n |-> [F \in Q |-> Longer(F, k)]] DEF Rounds
<1>4. PICK f : IsLoop(f, n, Q, {<<>>}, g)
  BY ONLY <1>2, <1>3, LoopExists, n \in Nat
<1>5. ASSUME NEW k \in 0 .. n PROVE f[k] = IF k = 0 THEN {<<>>} ELSE Longer(f[k - 1], k)
  <2> HIDE DEF Longer
  <2>1. k # 0 => k \in 1 .. n /\ k - 1 \in 0 .. n
    OBVIOUS
  <2>2. k # 0 => f[k - 1] \in Q
    BY ONLY <1>4, <2>1 DEF IsLoop
  <2>3. k # 0 => g[k][f[k - 1]] = Longer(f[k - 1], k)
    BY ONLY <2>1, <2>2, g = [x \in 1 .. n |-> [F \in Q |-> Longer(F, x)]]
  <2>4. f[k] = IF k = 0 THEN {<<>>} ELSE g[k][f[k - 1]]
    BY ONLY <1>4, k \in 0 .. n DEF IsLoop
  <2> QED
    BY ONLY <2>3, <2>4
<1>6. f = [k \in 0 .. n |-> f[k]]
  BY ONLY <1>4 DEF IsLoop
<1>7. f = [k \in 0 .. n |-> IF k = 0 THEN {<<>>} ELSE Longer(f[k - 1], k)]
  <2> HIDE DEF Longer
  <2> QED
    BY ONLY <1>5, <1>6
<1> QED
  BY ONLY <1>7, Len(MatchChunks(matches)) = n, ch = MatchChunks(matches) DEF Queries

LEMMA QueryIs ==
  ASSUME NEW M, NEW matches \in Seq(M), NEW rows, IsFiniteSet(rows),
         NEW q \in QueryExactGrepMatches(rows, matches)
  PROVE  q \in Seq(RowIds(rows)) /\ ToSet(q) = IdsUpTo(rows, matches, Len(matches))
<1> PICK n \in Nat : /\ Len(MatchChunks(matches)) = n
                     /\ ChunkEnd(matches, 0) = 0 /\ ChunkEnd(matches, n) = Len(matches)
                     /\ \A k \in 1 .. n :
                          MatchChunks(matches)[k]
                            = SubSeq(matches, ChunkEnd(matches, k - 1) + 1, ChunkEnd(matches, k))
  BY ChunksAre
<1> PICK ch : ch = MatchChunks(matches)
  OBVIOUS
<1> PICK I : I = RowIds(rows)
  OBVIOUS
<1> DEFINE f == CHOOSE f : f = [k \in 0 .. Len(MatchChunks(matches)) |->
            IF k = 0 THEN {<<>>} ELSE AppendIds(f[k - 1], SelectIds(rows, MatchChunks(matches)[k]))]
<1>0. \E e : Queries(e, rows, matches)
  BY QueriesExist
<1>1. Queries(f, rows, matches)
  BY <1>0 DEF Queries
<1>2. QueryExactGrepMatches(rows, matches) = f[Len(MatchChunks(matches))]
  BY DEF QueryExactGrepMatches
<1> HIDE DEF f
<1>3. \A k \in 0 .. n : f[k] = IF k = 0 THEN {<<>>}
                               ELSE AppendIds(f[k - 1], SelectIds(rows, ch[k]))
  BY ONLY <1>1, Len(MatchChunks(matches)) = n, ch = MatchChunks(matches) DEF Queries
<1> DEFINE Right(s, k) == s \in Seq(I) /\ ToSet(s) = IdsUpTo(rows, matches, ChunkEnd(matches, k))
<1> PICK G : G = {k \in 0 .. n : \A s \in f[k] : Right(s, k)}
  OBVIOUS
<1>4. 0 \in G
  <2>1. f[0] = {<<>>}
    BY <1>3
  <2>2. ToSet(<<>>) = {} /\ <<>> \in Seq(I)
    BY DEF ToSet
  <2>3. IdsUpTo(rows, matches, 0) = {}
    BY DEF IdsUpTo
  <2>4. ChunkEnd(matches, 0) = 0
    OBVIOUS
  <2>5. \A s \in f[0] : Right(s, 0)
    BY ONLY <2>1, <2>2, <2>3, <2>4
  <2>6. 0 \in 0 .. n
    OBVIOUS
  <2> QED
    BY <2>5, <2>6
<1>5. \A i \in 0 .. n - 1 : i \in G => i + 1 \in G
  <2> SUFFICES ASSUME NEW i \in 0 .. n - 1, i \in G PROVE i + 1 \in G
    OBVIOUS
  <2> PICK k : k = i + 1
    OBVIOUS
  <2>1. k \in 1 .. n /\ k \in 0 .. n /\ k # 0 /\ k - 1 = i /\ i \in Nat
    OBVIOUS
  <2> PICK a : a = ChunkEnd(matches, i)
    OBVIOUS
  <2> PICK b : b = ChunkEnd(matches, k)
    OBVIOUS
  <2>2. f[k] = AppendIds(f[i], SelectIds(rows, ch[k]))
    BY ONLY <1>3, <2>1
  <2>3. IsChunk(ch[k], matches, a, b)
    BY <2>1 DEF IsChunk
  <2>4. a \in Nat /\ b \in Nat /\ a <= b /\ b <= Len(matches)
    BY <2>1, ChunkEndIs
  <2>5. IdsUpTo(rows, matches, b)
          = IdsUpTo(rows, matches, a)
              \cup IdsIn(rows, ch[k])
    BY ONLY <2>3, <2>4, ChunkAdds, matches \in Seq(M)
  <2>6. ASSUME NEW s \in f[i], NEW t \in SelectIds(rows, ch[k])
        PROVE  s \o t \in Seq(I) /\ ToSet(s \o t) = IdsUpTo(rows, matches, b)
    <3>1. s \in Seq(I) /\ ToSet(s) = IdsUpTo(rows, matches, a)
      OBVIOUS
    <3>2. /\ t \in Seq(I)
          /\ ToSet(t) = IdsIn(rows, ch[k])
      BY ONLY SelectIdsAre, IsFiniteSet(rows), t \in SelectIds(rows, ch[k]), I = RowIds(rows)
    <3>3. s \o t \in Seq(I) /\ ToSet(s \o t) = ToSet(s) \cup ToSet(t)
      BY ONLY <3>1, <3>2, ConcatIs
    <3> QED
      BY ONLY <2>5, <3>1, <3>2, <3>3
  <2>7. ASSUME NEW x \in f[k] PROVE Right(x, k)
    <3>1. x \in AppendIds(f[i], SelectIds(rows, ch[k]))
      BY ONLY <2>2, x \in f[k]
    <3>2. Joins(x, f[i], SelectIds(rows, ch[k]))
      BY ONLY <3>1, AppendIdsIs
    <3>3. PICK s \in f[i], t \in SelectIds(rows, ch[k]) : x = s \o t
      BY ONLY <3>2 DEF Joins
    <3>4. s \o t \in Seq(I) /\ ToSet(s \o t) = IdsUpTo(rows, matches, b)
      BY <2>6
    <3> QED
      BY ONLY <3>3, <3>4, b = ChunkEnd(matches, k)
  <2> QED
    BY <2>1, <2>7
<1>6. n \in G
  <2>1. \A k \in 0 .. n : k \in G
    <3> HIDE DEF Right
    <3> QED
      BY ONLY <1>4, <1>5, UpTo, n \in Nat
  <2>2. n \in 0 .. n
    OBVIOUS
  <2> QED
    BY ONLY <2>1, <2>2
<1> QED
  BY <1>2, <1>6

LEMMA LexicalIs ==
  ASSUME NEW M, NEW matches \in Seq(M), NEW rows, IsFiniteSet(rows),
         NEW ids \in SearchLexicalSparse(rows, matches)
  PROVE  /\ ids \in Seq(RowIds(rows)) /\ IsInjective(ids)
         /\ ToSet(ids) = IdsUpTo(rows, matches, Len(matches))
<1>1. PICK q \in QueryExactGrepMatches(rows, matches) : ids = FirstOnly(q)
  BY DEF SearchLexicalSparse
<1>2. q \in Seq(RowIds(rows)) /\ ToSet(q) = IdsUpTo(rows, matches, Len(matches))
  BY QueryIs
<1>3. FirstOnly(q) \in Seq(RowIds(rows)) /\ IsInjective(FirstOnly(q)) /\ ToSet(FirstOnly(q)) = ToSet(q)
  BY ONLY <1>2, FirstOnlyIs
<1> QED
  BY <1>1, <1>2, <1>3

-----------------------------------------------------------------------------
(***************************************************************************)
(* prepareGrepSearchOpt: the words of a query.                             *)
(***************************************************************************)
\* A word of the text from a to b.
IsField(text, a, b) ==
    /\ a \in 1 .. Len(text) /\ b \in 1 .. Len(text) /\ a <= b
    /\ \A k \in a .. b : text[k] # Space
    /\ a = 1 \/ text[a - 1] = Space
    /\ b = Len(text) \/ text[b + 1] = Space

LEMMA WordsAre ==
  ASSUME NEW E, NEW text \in Seq(E)
  PROVE  \A w : w \in WordsOf(text) <=> \E a, b \in 1 .. Len(text) : IsField(text, a, b) /\ w = SubSeq(text, a, b)
<1>1. DOMAIN text = 1 .. Len(text)
  OBVIOUS
<1> SUFFICES ASSUME NEW w
             PROVE  w \in WordsOf(text)
                      <=> \E a, b \in 1 .. Len(text) : IsField(text, a, b) /\ w = SubSeq(text, a, b)
  OBVIOUS
<1>2. w \in WordsOf(text) <=> \E f \in Fields(text) : w = SubSeq(text, f[1], f[2])
  BY DEF WordsOf
<1>3. ASSUME NEW a \in 1 .. Len(text), NEW b \in 1 .. Len(text)
      PROVE  <<a, b>> \in Fields(text) <=> IsField(text, a, b)
  BY ONLY <1>1, a \in 1 .. Len(text), b \in 1 .. Len(text) DEF Fields, IsField
<1>4. \A f \in Fields(text) : \E a, b \in 1 .. Len(text) : f = <<a, b>> /\ f[1] = a /\ f[2] = b
  BY ONLY <1>1 DEF Fields
<1>5. ASSUME w \in WordsOf(text)
      PROVE  \E a, b \in 1 .. Len(text) : IsField(text, a, b) /\ w = SubSeq(text, a, b)
  <2>1. PICK f \in Fields(text) : w = SubSeq(text, f[1], f[2])
    BY ONLY <1>2, <1>5
  <2>2. PICK a \in 1 .. Len(text), b \in 1 .. Len(text) : f = <<a, b>> /\ f[1] = a /\ f[2] = b
    BY ONLY <1>4, <2>1
  <2>3. IsField(text, a, b)
    BY ONLY <1>3, <2>1, <2>2
  <2> QED
    BY ONLY <2>1, <2>2, <2>3
<1>6. ASSUME NEW a \in 1 .. Len(text), NEW b \in 1 .. Len(text), IsField(text, a, b), w = SubSeq(text, a, b)
      PROVE  w \in WordsOf(text)
  <2>1. <<a, b>> \in Fields(text)
    BY ONLY <1>3, <1>6
  <2>2. w = SubSeq(text, <<a, b>>[1], <<a, b>>[2])
    BY ONLY <1>6
  <2> QED
    BY ONLY <1>2, <2>1, <2>2
<1> QED
  BY Zenon, <1>5, <1>6

\* Every place that is no white space is in a word.
LEMMA FieldStart ==
  ASSUME NEW E, NEW text \in Seq(E), NEW k \in 1 .. Len(text), text[k] # Space
  PROVE  \E a \in 1 .. k : /\ \A i \in a .. k : text[i] # Space
                           /\ a = 1 \/ text[a - 1] = Space
<1> PICK S : S = {a \in 1 .. k : \A i \in a .. k : text[i] # Space}
  OBVIOUS
<1>0. k \in 1 .. k /\ 1 .. k \subseteq Nat /\ \A i \in k .. k : i = k
  OBVIOUS
<1>1. k \in S /\ S \subseteq Nat /\ S # {}
  BY <1>0
<1>2. PICK a \in S : \A b \in S : a <= b
  BY <1>1, LeastIn
<1>3. a \in 1 .. k /\ \A i \in a .. k : text[i] # Space
  OBVIOUS
<1>4. ASSUME a # 1, text[a - 1] # Space PROVE FALSE
  <2>1. a - 1 \in 1 .. k /\ ~ (a <= a - 1)
    BY <1>3, <1>4
  <2>2. \A i \in a - 1 .. k : i = a - 1 \/ i \in a .. k
    BY <1>3
  <2>3. a - 1 \in S
    BY <1>3, <1>4, <2>1, <2>2
  <2> QED
    BY <1>2, <2>1, <2>3
<1> QED
  BY <1>3, <1>4

LEMMA FieldEnd ==
  ASSUME NEW E, NEW text \in Seq(E), NEW k \in 1 .. Len(text), text[k] # Space
  PROVE  \E b \in k .. Len(text) : /\ \A i \in k .. b : text[i] # Space
                                   /\ b = Len(text) \/ text[b + 1] = Space
<1> PICK n : n = Len(text)
  OBVIOUS
<1> PICK S : S = {c \in Nat : c <= n - k /\ \A i \in k .. n - c : text[i] # Space}
  OBVIOUS
<1>0. n \in Nat /\ k \in 1 .. n
  OBVIOUS
<1>1. n - k \in S /\ S \subseteq Nat /\ S # {}
  <2>1. n - k \in Nat /\ n - k <= n - k /\ n - (n - k) = k /\ \A i \in k .. k : i = k
    BY ONLY <1>0
  <2> QED
    BY <2>1
<1>2. PICK c \in S : \A d \in S : c <= d
  BY <1>1, LeastIn
<1> PICK b : b = n - c
  OBVIOUS
<1>3. b \in k .. n /\ \A i \in k .. b : text[i] # Space
  BY <1>0
<1>4. ASSUME b # n, text[b + 1] # Space PROVE FALSE
  <2>0. c \in Nat /\ c <= n - k /\ c # 0
    BY <1>0, <1>4
  <2>1. c - 1 \in Nat /\ c - 1 <= n - k /\ n - (c - 1) = b + 1 /\ ~ (c <= c - 1)
    <3>1. n \in Nat /\ k \in Nat /\ k <= n
      BY ONLY <1>0
    <3>2. c >= 1
      BY ONLY <2>0
    <3>3. c - 1 \in Nat /\ ~ (c <= c - 1)
      BY ONLY <2>0, <3>2
    <3>4. c - 1 <= n - k
      BY ONLY <2>0, <3>1
    <3>5. n - (c - 1) = b + 1
      BY ONLY <2>0, <3>1, b = n - c
    <3> QED
      BY ONLY <3>3, <3>4, <3>5
  <2>2. ASSUME NEW i \in k .. b + 1 PROVE i = b + 1 \/ i \in k .. b
    <3>1. b \in Int /\ k \in Int
      BY ONLY <1>0, <1>3
    <3> QED
      BY ONLY <3>1, i \in k .. b + 1
  <2>3. \A i \in k .. n - (c - 1) : text[i] # Space
    BY <1>3, <1>4, <2>1, <2>2
  <2>4. c - 1 \in S
    BY <2>1, <2>3
  <2> QED
    BY <1>2, <2>1, <2>4
<1> QED
  BY <1>3, <1>4

\* The text from p to r of a query that is white space elsewhere.
IsTrimmed(text, query, p, r) ==
    /\ p \in 1 .. Len(query) /\ r \in 1 .. Len(query) /\ p <= r
    /\ query[p] # Space /\ query[r] # Space
    /\ \A k \in 1 .. Len(query) : query[k] # Space => p <= k /\ k <= r
    /\ text = SubSeq(query, p, r)

LEMMA TrimIs ==
  ASSUME NEW E, NEW query \in Seq(E)
  PROVE  \/ TrimSpace(query) = <<>> /\ \A k \in 1 .. Len(query) : query[k] = Space
         \/ \E p, r : IsTrimmed(TrimSpace(query), query, p, r)
<1> PICK inner : inner = {i \in DOMAIN query : query[i] # Space}
  OBVIOUS
<1> PICK n : n = Len(query)
  OBVIOUS
<1>1. n \in Nat /\ DOMAIN query = 1 .. n /\ inner \subseteq 1 .. n /\ inner \subseteq Nat
  OBVIOUS
<1>2. CASE inner = {}
  BY <1>1, <1>2 DEF TrimSpace
<1>3. CASE inner # {}
  <2>1. Min(inner) \in inner /\ \A y \in inner : Min(inner) <= y
    BY <1>1, <1>3, MinIsLeast
  <2>2. Max(inner) \in inner /\ \A y \in inner : Max(inner) >= y
    <3> PICK S : S = {n - i : i \in inner}
      OBVIOUS
    <3>1. S \subseteq Nat /\ S # {}
      BY <1>1, <1>3
    <3>2. PICK x \in S : \A y \in S : x <= y
      BY <3>1, LeastIn
    <3>3. PICK m \in inner : x = n - m
      OBVIOUS
    <3>4. ASSUME NEW y \in inner PROVE m >= y
      <4>1. n - m <= n - y
        BY <3>2, <3>3
      <4>2. m \in Int /\ y \in Int
        BY <1>1
      <4> QED
        BY ONLY <1>1, <4>1, <4>2
    <3> QED
      BY ONLY <3>4, m \in inner DEF Max
  <2> PICK p : p = Min(inner)
    OBVIOUS
  <2> PICK r : r = Max(inner)
    OBVIOUS
  <2>3. TrimSpace(query) = SubSeq(query, p, r)
    BY <1>3 DEF TrimSpace
  <2>4. p \in inner /\ r \in inner /\ \A k \in inner : p <= k /\ r >= k
    BY <2>1, <2>2
  <2>5. \A k \in inner : k \in 1 .. n /\ query[k] # Space
    BY <1>1
  <2>6. \A k \in 1 .. n : query[k] # Space => k \in inner
    BY <1>1
  <2>7. p \in Int /\ r \in Int /\ p <= r
    BY <1>1, <2>4
  <2>8. IsTrimmed(TrimSpace(query), query, p, r)
    <3>1. \A k \in 1 .. n : query[k] # Space => p <= k /\ k <= r
      BY ONLY <1>1, <2>4, <2>6, <2>7
    <3> QED
      BY ONLY <2>3, <2>4, <2>5, <2>7, <3>1, n = Len(query) DEF IsTrimmed
  <2> QED
    BY <2>8
<1> QED
  BY <1>2, <1>3

\* The pieces of the text are pieces of the query.
SameSlices(text, query, p, m) ==
    \A a, b \in 1 .. m : SubSeq(text, a, b) = SubSeq(query, (a + p) - 1, (b + p) - 1)

LEMMA TrimmedIs ==
  ASSUME NEW E, NEW query \in Seq(E), NEW text, NEW p, NEW r, IsTrimmed(text, query, p, r)
  PROVE  /\ text \in Seq(E) /\ Len(text) = (r - p) + 1
         /\ \A i \in 1 .. (r - p) + 1 : text[i] = query[(p + i) - 1]
         /\ SameSlices(text, query, p, (r - p) + 1)
<1>1. p \in 1 .. Len(query) /\ r \in 1 .. Len(query) /\ p <= r /\ Len(query) \in Nat
  BY DEF IsTrimmed
<1> PICK m : m = (r - p) + 1
  OBVIOUS
<1>2. m \in Nat /\ p \in Int /\ r \in Int
  BY <1>1
<1>3. text \in Seq(E) /\ Len(text) = m /\ \A i \in 1 .. m : text[i] = query[(p + i) - 1]
  <2>1. text = SubSeq(query, p, r)
    BY DEF IsTrimmed
  <2>2. /\ SubSeq(query, p, r) \in Seq(E) /\ Len(SubSeq(query, p, r)) = (r - p) + 1
        /\ \A i \in 1 .. (r - p) + 1 : SubSeq(query, p, r)[i] = query[(p + i) - 1]
    BY ONLY <1>1, query \in Seq(E)
  <2> QED
    BY ONLY <2>1, <2>2, m = (r - p) + 1
<1>4. ASSUME NEW a \in 1 .. m, NEW b \in 1 .. m
      PROVE  SubSeq(text, a, b) = SubSeq(query, (a + p) - 1, (b + p) - 1)
  <2> PICK u : u = SubSeq(text, a, b)
    OBVIOUS
  <2> PICK v : v = SubSeq(query, (a + p) - 1, (b + p) - 1)
    OBVIOUS
  <2>1. (a + p) - 1 \in 1 .. Len(query) /\ (b + p) - 1 \in 1 .. Len(query)
    BY ONLY <1>1, <1>2, a \in 1 .. m, b \in 1 .. m, m = (r - p) + 1
  <2>2. u \in Seq(E) /\ Len(u) = IF a <= b THEN b - a + 1 ELSE 0
    BY ONLY <1>2, <1>3, a \in 1 .. m, b \in 1 .. m, u = SubSeq(text, a, b)
  <2>3. v \in Seq(E) /\ Len(v) = IF (a + p) - 1 <= (b + p) - 1 THEN ((b + p) - 1) - ((a + p) - 1) + 1 ELSE 0
    BY ONLY <2>1, query \in Seq(E), v = SubSeq(query, (a + p) - 1, (b + p) - 1)
  <2>4. Len(u) = Len(v)
    BY ONLY <1>2, <2>2, <2>3, a \in 1 .. m, b \in 1 .. m
  <2>5. ASSUME NEW i \in 1 .. Len(u) PROVE u[i] = v[i]
    <3>1. a <= b /\ i \in 1 .. b - a + 1
      BY ONLY <2>2, i \in 1 .. Len(u), a \in 1 .. m, b \in 1 .. m
    <3>2. u[i] = text[a + i - 1]
      <4>1. text \in Seq(E) /\ a \in 1 .. Len(text) /\ b \in 1 .. Len(text)
        BY ONLY <1>3, a \in 1 .. m, b \in 1 .. m
      <4> QED
        BY ONLY <3>1, <4>1, u = SubSeq(text, a, b)
    <3>3. v[i] = query[((a + p) - 1) + i - 1]
      BY ONLY <1>2, <2>1, <3>1, a \in 1 .. m, b \in 1 .. m, query \in Seq(E),
              v = SubSeq(query, (a + p) - 1, (b + p) - 1)
    <3>4. a + i - 1 \in 1 .. m /\ (p + (a + i - 1)) - 1 = ((a + p) - 1) + i - 1
      BY ONLY <1>2, <3>1, a \in 1 .. m, b \in 1 .. m
    <3> QED
      BY ONLY <1>3, <3>2, <3>3, <3>4
  <2>6. u = v
    BY ONLY <2>2, <2>3, <2>4, <2>5
  <2> QED
    BY <2>6
<1>5. SameSlices(text, query, p, m)
  BY ONLY <1>4 DEF SameSlices
<1> QED
  BY ONLY <1>3, <1>5, m = (r - p) + 1

\* The words of a query are those of its trimmed text.
LEMMA SameFields ==
  ASSUME NEW E, NEW query \in Seq(E), NEW text, NEW p, NEW r, IsTrimmed(text, query, p, r)
  PROVE  /\ \A a, b \in 1 .. Len(text) :
              IsField(text, a, b) => IsField(query, (a + p) - 1, (b + p) - 1)
         /\ \A c, d \in 1 .. Len(query) :
              IsField(query, c, d) => /\ (c - p) + 1 \in 1 .. Len(text) /\ (d - p) + 1 \in 1 .. Len(text)
                                      /\ IsField(text, (c - p) + 1, (d - p) + 1)
<1> PICK m : m = (r - p) + 1
  OBVIOUS
<1> PICK n : n = Len(query)
  OBVIOUS
<1>1. /\ n \in Nat /\ p \in 1 .. n /\ r \in 1 .. n /\ p <= r /\ query[p] # Space /\ query[r] # Space
      /\ \A k \in 1 .. n : query[k] # Space => p <= k /\ k <= r
  BY DEF IsTrimmed
<1>2. text \in Seq(E) /\ Len(text) = m /\ \A i \in 1 .. m : text[i] = query[(p + i) - 1]
  BY TrimmedIs
<1>3. m \in Nat /\ m >= 1 /\ p \in Int /\ r \in Int
  BY ONLY <1>1, m = (r - p) + 1
<1>4. ASSUME NEW a \in 1 .. m, NEW b \in 1 .. m, IsField(text, a, b)
      PROVE  IsField(query, (a + p) - 1, (b + p) - 1)
  <2> PICK c : c = (a + p) - 1
    OBVIOUS
  <2> PICK d : d = (b + p) - 1
    OBVIOUS
  <2>1. a <= b /\ (\A k \in a .. b : text[k] # Space) /\ (a = 1 \/ text[a - 1] = Space)
        /\ (b = m \/ text[b + 1] = Space)
    BY ONLY <1>2, <1>4 DEF IsField
  <2>2. c \in 1 .. n /\ d \in 1 .. n /\ c <= d
    <3>1. a \in Int /\ b \in Int /\ 1 <= a /\ a <= b /\ b <= m /\ 1 <= p /\ r <= n
      BY ONLY <1>1, <1>3, <2>1, a \in 1 .. m, b \in 1 .. m
    <3>2. c \in Int /\ d \in Int /\ c <= d
      BY ONLY <1>3, <3>1, c = (a + p) - 1, d = (b + p) - 1
    <3>3. 1 <= c
      BY ONLY <1>3, <3>1, c = (a + p) - 1
    <3>4. d <= n
      BY ONLY <1>1, <1>3, <3>1, d = (b + p) - 1, m = (r - p) + 1
    <3>5. c <= n /\ 1 <= d
      BY ONLY <1>1, <3>2, <3>3, <3>4
    <3> QED
      BY ONLY <1>1, <3>2, <3>3, <3>4, <3>5
  <2>3. ASSUME NEW k \in c .. d PROVE query[k] # Space
    <3>1. (k - p) + 1 \in a .. b /\ (k - p) + 1 \in 1 .. m /\ (p + ((k - p) + 1)) - 1 = k
      BY ONLY <1>3, k \in c .. d, a \in 1 .. m, b \in 1 .. m, c = (a + p) - 1, d = (b + p) - 1
    <3>2. text[(k - p) + 1] = query[(p + ((k - p) + 1)) - 1]
      BY ONLY <1>2, <3>1
    <3> QED
      BY ONLY <2>1, <3>1, <3>2
  <2>4. c = 1 \/ query[c - 1] = Space
    <3>1. CASE a = 1
      <4>1. c = p
        BY ONLY <1>3, <3>1, c = (a + p) - 1
      <4>2. p # 1 => p - 1 \in 1 .. n /\ ~ (p <= p - 1)
        BY ONLY <1>1
      <4> QED
        BY ONLY <1>1, <4>1, <4>2
    <3>2. CASE a # 1
      <4>1. a - 1 \in 1 .. m /\ (p + (a - 1)) - 1 = c - 1
        BY ONLY <1>3, <3>2, a \in 1 .. m, c = (a + p) - 1
      <4>2. text[a - 1] = query[(p + (a - 1)) - 1]
        BY ONLY <1>2, <4>1
      <4> QED
        BY ONLY <2>1, <3>2, <4>1, <4>2
    <3> QED
      BY <3>1, <3>2
  <2>5. d = n \/ query[d + 1] = Space
    <3>1. CASE b = m
      <4>1. d = r
        BY ONLY <1>3, <3>1, d = (b + p) - 1, m = (r - p) + 1
      <4>2. r # n => r + 1 \in 1 .. n /\ ~ (r + 1 <= r)
        BY ONLY <1>1
      <4> QED
        BY ONLY <1>1, <4>1, <4>2
    <3>2. CASE b # m
      <4>1. b + 1 \in 1 .. m /\ (p + (b + 1)) - 1 = d + 1
        BY ONLY <1>3, <3>2, b \in 1 .. m, d = (b + p) - 1
      <4>2. text[b + 1] = query[(p + (b + 1)) - 1]
        BY ONLY <1>2, <4>1
      <4> QED
        BY ONLY <2>1, <3>2, <4>1, <4>2
    <3> QED
      BY <3>1, <3>2
  <2> QED
    BY ONLY <2>2, <2>3, <2>4, <2>5, n = Len(query), c = (a + p) - 1, d = (b + p) - 1 DEF IsField
<1>5. ASSUME NEW c \in 1 .. n, NEW d \in 1 .. n, IsField(query, c, d)
      PROVE  /\ (c - p) + 1 \in 1 .. m /\ (d - p) + 1 \in 1 .. m
             /\ IsField(text, (c - p) + 1, (d - p) + 1)
  <2> PICK a : a = (c - p) + 1
    OBVIOUS
  <2> PICK b : b = (d - p) + 1
    OBVIOUS
  <2>1. c <= d /\ (\A k \in c .. d : query[k] # Space) /\ (c = 1 \/ query[c - 1] = Space)
        /\ (d = n \/ query[d + 1] = Space)
    BY ONLY <1>5, n = Len(query) DEF IsField
  <2>2. c \in c .. d /\ d \in c .. d
    BY ONLY <2>1, c \in 1 .. n, d \in 1 .. n
  <2>3. p <= c /\ d <= r
    BY ONLY <1>1, <2>1, <2>2, c \in 1 .. n, d \in 1 .. n
  <2>4. a \in 1 .. m /\ b \in 1 .. m /\ a <= b
    BY ONLY <1>1, <1>3, <2>1, <2>3, c \in 1 .. n, d \in 1 .. n, a = (c - p) + 1, b = (d - p) + 1, m = (r - p) + 1
  <2>5. ASSUME NEW k \in a .. b PROVE text[k] # Space
    <3>1. (p + k) - 1 \in c .. d /\ k \in 1 .. m
      BY ONLY <1>3, <2>4, k \in a .. b, c \in 1 .. n, d \in 1 .. n, a = (c - p) + 1, b = (d - p) + 1
    <3> QED
      BY ONLY <1>2, <2>1, <3>1
  <2>6. a = 1 \/ text[a - 1] = Space
    <3>1. SUFFICES ASSUME a # 1 PROVE text[a - 1] = Space
      OBVIOUS
    <3>2. a - 1 \in 1 .. m /\ (p + (a - 1)) - 1 = c - 1 /\ c # 1
      BY ONLY <1>1, <1>3, <2>4, <3>1, c \in 1 .. n, a = (c - p) + 1
    <3> QED
      BY ONLY <1>2, <2>1, <3>2
  <2>7. b = m \/ text[b + 1] = Space
    <3>1. SUFFICES ASSUME b # m PROVE text[b + 1] = Space
      OBVIOUS
    <3>2. b + 1 \in 1 .. m /\ (p + (b + 1)) - 1 = d + 1 /\ d # n
      BY ONLY <1>1, <1>3, <2>4, <3>1, d \in 1 .. n, b = (d - p) + 1, m = (r - p) + 1
    <3> QED
      BY ONLY <1>2, <2>1, <3>2
  <2> QED
    BY ONLY <1>2, <2>4, <2>5, <2>6, <2>7, a = (c - p) + 1, b = (d - p) + 1 DEF IsField
<1> QED
  BY ONLY <1>2, <1>4, <1>5, n = Len(query)

LEMMA TrimKeepsWords ==
  ASSUME NEW E, NEW query \in Seq(E), NEW text, NEW p, NEW r, IsTrimmed(text, query, p, r)
  PROVE  WordsOf(text) = WordsOf(query)
<1> PICK m : m = (r - p) + 1
  OBVIOUS
<1> PICK n : n = Len(query)
  OBVIOUS
<1>1. text \in Seq(E) /\ Len(text) = m
  BY TrimmedIs
<1>2. \A a, b \in 1 .. m : SubSeq(text, a, b) = SubSeq(query, (a + p) - 1, (b + p) - 1)
  <2>1. SameSlices(text, query, p, m)
    BY TrimmedIs
  <2> QED
    BY ONLY <2>1 DEF SameSlices
<1>3. p \in Int /\ n \in Nat
  BY DEF IsTrimmed
<1>4. /\ \A a, b \in 1 .. m : IsField(text, a, b) => IsField(query, (a + p) - 1, (b + p) - 1)
      /\ \A c, d \in 1 .. n :
           IsField(query, c, d) => /\ (c - p) + 1 \in 1 .. m /\ (d - p) + 1 \in 1 .. m
                                   /\ IsField(text, (c - p) + 1, (d - p) + 1)
  BY <1>1, SameFields
<1>5. /\ \A w : w \in WordsOf(text) <=> \E a, b \in 1 .. m : IsField(text, a, b) /\ w = SubSeq(text, a, b)
      /\ \A w : w \in WordsOf(query) <=> \E a, b \in 1 .. n : IsField(query, a, b) /\ w = SubSeq(query, a, b)
  <2>1. \A w : w \in WordsOf(text) <=> \E a, b \in 1 .. Len(text) : IsField(text, a, b) /\ w = SubSeq(text, a, b)
    BY <1>1, WordsAre
  <2>2. \A w : w \in WordsOf(query) <=> \E a, b \in 1 .. Len(query) : IsField(query, a, b) /\ w = SubSeq(query, a, b)
    BY WordsAre
  <2> QED
    BY ONLY <1>1, <2>1, <2>2, n = Len(query)
<1>6. ASSUME NEW w \in WordsOf(text) PROVE w \in WordsOf(query)
  <2>1. PICK a \in 1 .. m, b \in 1 .. m : IsField(text, a, b) /\ w = SubSeq(text, a, b)
    BY ONLY <1>5, w \in WordsOf(text)
  <2>2. IsField(query, (a + p) - 1, (b + p) - 1)
    BY ONLY <1>4, <2>1
  <2>3. (a + p) - 1 \in 1 .. n /\ (b + p) - 1 \in 1 .. n
    BY ONLY <2>2, n = Len(query) DEF IsField
  <2>4. w = SubSeq(query, (a + p) - 1, (b + p) - 1)
    BY ONLY <1>2, <2>1
  <2> QED
    BY ONLY <1>5, <2>2, <2>3, <2>4
<1>7. ASSUME NEW w \in WordsOf(query) PROVE w \in WordsOf(text)
  <2>1. PICK c \in 1 .. n, d \in 1 .. n : IsField(query, c, d) /\ w = SubSeq(query, c, d)
    BY ONLY <1>5, w \in WordsOf(query)
  <2> PICK a : a = (c - p) + 1
    OBVIOUS
  <2> PICK b : b = (d - p) + 1
    OBVIOUS
  <2>2. a \in 1 .. m /\ b \in 1 .. m /\ IsField(text, a, b)
    BY ONLY <1>4, <2>1, a = (c - p) + 1, b = (d - p) + 1
  <2>3. (a + p) - 1 = c /\ (b + p) - 1 = d
    BY ONLY <1>3, a = (c - p) + 1, b = (d - p) + 1, c \in 1 .. n, d \in 1 .. n
  <2>4. w = SubSeq(text, a, b)
    BY ONLY <1>2, <2>1, <2>2, <2>3
  <2> QED
    BY ONLY <1>5, <2>2, <2>4
<1> QED
  BY <1>6, <1>7

\* One field that starts and ends with the text is the text.
LEMMA OneWord ==
  ASSUME NEW E, NEW text \in Seq(E), Len(text) >= 1, text[1] # Space, text[Len(text)] # Space,
         ~ (Cardinality(Fields(text)) > 1)
  PROVE  WordsOf(text) = {text}
<1> PICK m : m = Len(text)
  OBVIOUS
<1>1. m \in Nat /\ m >= 1 /\ 1 \in 1 .. m /\ m \in 1 .. m /\ DOMAIN text = 1 .. m
  OBVIOUS
<1> PICK F : F = Fields(text)
  OBVIOUS
<1>2. ASSUME NEW a \in 1 .. m, NEW b \in 1 .. m PROVE <<a, b>> \in F <=> IsField(text, a, b)
  BY ONLY <1>1, a \in 1 .. m, b \in 1 .. m, m = Len(text), F = Fields(text) DEF Fields, IsField
<1>3. \A f \in F : \E a, b \in 1 .. m : f = <<a, b>>
  BY ONLY <1>1, F = Fields(text) DEF Fields
<1>4. IsFiniteSet(F)
  <2>1. IsFiniteSet((1 .. m) \X (1 .. m))
    <3>1. IsFiniteSet(1 .. m)
      BY ONLY <1>1, 1 \in Int, m \in Int, FS_Interval
    <3> QED
      BY ONLY <3>1, FS_Product
  <2>2. F \subseteq (1 .. m) \X (1 .. m)
    BY ONLY <1>3
  <2> QED
    BY ONLY <2>1, <2>2, FS_Subset
<1>5. ASSUME NEW x \in F, NEW y \in F PROVE x = y
  <2>1. SUFFICES ASSUME x # y PROVE FALSE
    OBVIOUS
  <2>2. IsFiniteSet({x}) /\ Cardinality({x}) = 1
    BY FS_Singleton
  <2>3. IsFiniteSet({x} \cup {y}) /\ Cardinality({x} \cup {y}) = 2
    <3>1. y \notin {x}
      BY <2>1
    <3>2. Cardinality({x} \cup {y}) = Cardinality({x}) + 1 /\ IsFiniteSet({x} \cup {y})
      BY ONLY <2>2, <3>1, FS_AddElement
    <3>3. 1 + 1 = 2
      OBVIOUS
    <3> QED
      BY <2>2, <3>2, <3>3
  <2>4. {x} \cup {y} \subseteq F
    OBVIOUS
  <2>5. Cardinality({x} \cup {y}) <= Cardinality(F) /\ Cardinality(F) \in Nat
    BY ONLY <1>4, <2>4, FS_Subset, FS_CardinalityType
  <2>6. ~ (Cardinality(F) > 1)
    OBVIOUS
  <2> PICK c : c = Cardinality({x} \cup {y})
    OBVIOUS
  <2> PICK d : d = Cardinality(F)
    OBVIOUS
  <2>7. c = 2 /\ c <= d /\ d \in Nat /\ ~ (d > 1)
    BY <2>3, <2>5, <2>6
  <2> QED
    BY ONLY <2>7
<1>6. PICK b \in 1 .. m : IsField(text, 1, b)
  <2>1. PICK b \in 1 .. m : (\A i \in 1 .. b : text[i] # Space) /\ (b = m \/ text[b + 1] = Space)
    BY <1>1, FieldEnd
  <2>2. 1 <= b
    BY ONLY b \in 1 .. m
  <2>3. IsField(text, 1, b)
    BY ONLY <1>1, <2>1, <2>2, m = Len(text) DEF IsField
  <2> QED
    BY <2>3
<1>7. PICK a \in 1 .. m : IsField(text, a, m)
  <2>1. PICK a \in 1 .. m : (\A i \in a .. m : text[i] # Space) /\ (a = 1 \/ text[a - 1] = Space)
    BY <1>1, FieldStart
  <2>2. a <= m
    BY ONLY a \in 1 .. m
  <2>3. IsField(text, a, m)
    BY ONLY <1>1, <2>1, <2>2, m = Len(text) DEF IsField
  <2> QED
    BY <2>3
<1>8. <<1, b>> \in F /\ <<a, m>> \in F
  BY <1>1, <1>2, <1>6, <1>7
<1>9. <<1, b>> = <<a, m>>
  BY <1>5, <1>8
<1>10. b = m /\ IsField(text, 1, m)
  BY <1>6, <1>9
<1>11. \A w : w \in WordsOf(text) <=> \E c, d \in 1 .. m : IsField(text, c, d) /\ w = SubSeq(text, c, d)
  BY WordsAre
<1>12. SubSeq(text, 1, m) = text
  BY ONLY text \in Seq(E), m = Len(text)
<1>13. ASSUME NEW c \in 1 .. m, NEW d \in 1 .. m, IsField(text, c, d) PROVE c = 1 /\ d = m
  <2>1. <<c, d>> \in F /\ <<1, m>> \in F
    BY <1>1, <1>2, <1>10, <1>13
  <2>2. <<c, d>> = <<1, m>>
    BY <1>5, <2>1
  <2> QED
    BY <2>2
<1>14. text \in WordsOf(text)
  BY ONLY <1>1, <1>10, <1>11, <1>12
<1>15. ASSUME NEW w \in WordsOf(text) PROVE w = text
  BY ONLY <1>11, <1>12, <1>13, w \in WordsOf(text)
<1> QED
  BY <1>14, <1>15

LEMMA WordsAreFound ==
  ASSUME NEW E, NEW query \in Seq(E), NEW line, ToSet(query) \cap Operators = {}
  PROVE  OptionFinds(GrepOption(query), line) <=> \E w \in WordsOf(query) : Occurs(w, line)
<1> PICK text : text = TrimSpace(query)
  OBVIOUS
<1>1. CASE text = <<>> /\ \A k \in 1 .. Len(query) : query[k] = Space
  <2>1. GrepOption(query) = NoSearch
    BY <1>1 DEF GrepOption
  <2>2. ~ OptionFinds(GrepOption(query), line)
    <3>1. NoSearch.kind = "none"
      BY DEF NoSearch
    <3> QED
      BY <2>1, <3>1 DEF OptionFinds
  <2>3. ASSUME NEW w \in WordsOf(query) PROVE FALSE
    <3>1. PICK a, b \in 1 .. Len(query) : IsField(query, a, b)
      BY WordsAre
    <3>2. a \in a .. b /\ \A k \in a .. b : query[k] # Space
      BY <3>1 DEF IsField
    <3> QED
      BY <1>1, <3>2
  <2> QED
    BY <2>2, <2>3
<1>2. ASSUME NEW p, NEW r, IsTrimmed(text, query, p, r)
      PROVE  OptionFinds(GrepOption(query), line) <=> \E w \in WordsOf(query) : Occurs(w, line)
  <2> PICK m : m = (r - p) + 1
    OBVIOUS
  <2>1. text \in Seq(E) /\ Len(text) = m /\ \A i \in 1 .. m : text[i] = query[(p + i) - 1]
    BY <1>2, TrimmedIs
  <2>2. /\ p \in 1 .. Len(query) /\ r \in 1 .. Len(query) /\ p <= r
        /\ query[p] # Space /\ query[r] # Space /\ Len(query) \in Nat
    BY <1>2 DEF IsTrimmed
  <2>3. m \in Nat /\ m >= 1 /\ 1 \in 1 .. m /\ m \in 1 .. m /\ (p + 1) - 1 = p /\ (p + m) - 1 = r
    BY ONLY <2>2, m = (r - p) + 1
  <2>4. text # <<>> /\ text[1] # Space /\ text[Len(text)] # Space /\ Len(text) >= 1
    BY ONLY <2>1, <2>2, <2>3
  <2>5. WordsOf(text) = WordsOf(query)
    BY <1>2, TrimKeepsWords
  <2>6. ToSet(text) \cap Operators = {}
    <3>1. ASSUME NEW i \in 1 .. m PROVE text[i] \in ToSet(query)
      <4>1. (p + i) - 1 \in 1 .. Len(query)
        BY ONLY <2>2, i \in 1 .. m, m = (r - p) + 1
      <4>2. text[i] = query[(p + i) - 1]
        BY ONLY <2>1, i \in 1 .. m
      <4>3. DOMAIN query = 1 .. Len(query)
        OBVIOUS
      <4> QED
        BY ONLY <4>1, <4>2, <4>3 DEF ToSet
    <3>2. DOMAIN text = 1 .. m
      BY ONLY <2>1
    <3> QED
      BY <3>1, <3>2 DEF ToSet
  <2>7. CASE Cardinality(Fields(text)) > 1
    <3>1. GrepOption(query) = [kind |-> "anyOf", words |-> WordsOf(text)]
      BY ONLY <2>4, <2>6, <2>7, text = TrimSpace(query) DEF GrepOption
    <3> QED
      BY ONLY <2>5, <3>1 DEF OptionFinds
  <2>8. CASE ~ (Cardinality(Fields(text)) > 1)
    <3>1. GrepOption(query) = [kind |-> "literal", word |-> text]
      BY ONLY <2>4, <2>6, <2>8, text = TrimSpace(query) DEF GrepOption
    <3>2. WordsOf(text) = {text}
      BY ONLY <2>1, <2>4, <2>8, OneWord
    <3> QED
      BY ONLY <2>5, <3>1, <3>2 DEF OptionFinds
  <2> QED
    BY <2>7, <2>8
<1> QED
  BY <1>1, <1>2, TrimIs

-----------------------------------------------------------------------------
(***************************************************************************)
(* queryParentCodebaseCWD and the end of SearchMemories: whose rows a      *)
(* search returns.                                                         *)
(***************************************************************************)
LEMMA PrefixMeans ==
  ASSUME NEW A, NEW s \in Seq(A), NEW t \in Seq(A)
  PROVE  IsPrefix(s, t) <=> Len(s) <= Len(t) /\ \A i \in 1 .. Len(s) : s[i] = t[i]
<1> PICK m : m = Len(s)
  OBVIOUS
<1> PICK n : n = Len(t)
  OBVIOUS
<1>1. m \in Nat /\ n \in Nat /\ SubSeq(s, 1, m) = s
  OBVIOUS
<1>2. CASE m <= n
  <2> PICK u : u = SubSeq(t, 1, m)
    OBVIOUS
  <2>1. u \in Seq(A) /\ Len(u) = m /\ \A i \in 1 .. m : u[i] = t[i]
    BY ONLY <1>1, <1>2, t \in Seq(A), n = Len(t), u = SubSeq(t, 1, m)
  <2>2. s = u <=> \A i \in 1 .. m : s[i] = t[i]
    <3>1. ASSUME \A i \in 1 .. m : s[i] = t[i] PROVE s = u
      BY ONLY <2>1, <3>1, s \in Seq(A), m = Len(s)
    <3> QED
      BY <2>1, <3>1
  <2> QED
    BY ONLY <1>1, <1>2, <2>2, m = Len(s), n = Len(t), u = SubSeq(t, 1, m) DEF IsPrefix
<1>3. CASE ~ (m <= n)
  BY <1>3 DEF IsPrefix
<1> QED
  BY <1>2, <1>3

\* What lies below a root goes on where the root ends.
LEMMA TreeMeans ==
  ASSUME NEW A, Slash \in A, NEW s \in Seq(A), NEW t \in Seq(A)
  PROVE  InTree(t, s) <=> /\ Len(s) < Len(t) /\ \A i \in 1 .. Len(s) : s[i] = t[i]
                          /\ t[Len(s) + 1] = Slash
<1> PICK m : m = Len(s)
  OBVIOUS
<1> PICK u : u = Append(s, Slash)
  OBVIOUS
<1>1. /\ m \in Nat /\ u \in Seq(A) /\ Len(u) = m + 1 /\ u[m + 1] = Slash
      /\ \A i \in 1 .. m : u[i] = s[i]
  OBVIOUS
<1>2. 1 .. m + 1 = (1 .. m) \cup {m + 1}
  BY ONLY <1>1
<1>3. IsPrefix(u, t) <=> Len(u) <= Len(t) /\ \A i \in 1 .. Len(u) : u[i] = t[i]
  BY ONLY <1>1, t \in Seq(A), PrefixMeans
<1>4. Len(t) \in Nat /\ (m + 1 <= Len(t) <=> m < Len(t))
  BY ONLY <1>1, t \in Seq(A)
<1> QED
  BY ONLY <1>1, <1>2, <1>3, <1>4, u = Append(s, Slash), m = Len(s) DEF InTree

\* The roots at or above a directory.
IsAbove(r, cwd) == r = cwd \/ InTree(cwd, r)

LEMMA AboveMeans ==
  ASSUME NEW A, Slash \in A, NEW r \in Seq(A), NEW cwd \in Seq(A), IsAbove(r, cwd)
  PROVE  /\ Len(r) \in Nat /\ Len(cwd) \in Nat /\ Len(r) <= Len(cwd)
         /\ \A i \in 1 .. Len(r) : r[i] = cwd[i]
         /\ Len(r) < Len(cwd) => cwd[Len(r) + 1] = Slash
<1>1. Len(r) \in Nat /\ Len(cwd) \in Nat
  OBVIOUS
<1>2. CASE r = cwd
  BY <1>1, <1>2
<1>3. CASE InTree(cwd, r)
  BY <1>1, <1>3, TreeMeans
<1> QED
  BY <1>2, <1>3 DEF IsAbove

LEMMA AboveIsChain ==
  ASSUME NEW A, Slash \in A, NEW cwd \in Seq(A), NEW r \in Seq(A), NEW s \in Seq(A),
         IsAbove(r, cwd), IsAbove(s, cwd)
  PROVE  Len(s) <= Len(r) <=> s = r \/ InTree(r, s)
<1> PICK m : m = Len(r)
  OBVIOUS
<1> PICK n : n = Len(s)
  OBVIOUS
<1> PICK l : l = Len(cwd)
  OBVIOUS
<1>1. m \in Nat /\ n \in Nat /\ l \in Nat /\ m <= l /\ n <= l
  BY AboveMeans
<1>2. /\ \A i \in 1 .. m : r[i] = cwd[i]
      /\ \A i \in 1 .. n : s[i] = cwd[i]
      /\ n < l => cwd[n + 1] = Slash
  BY AboveMeans
<1>3. ASSUME n <= m PROVE s = r \/ InTree(r, s)
  <2>1. \A i \in 1 .. n : i \in 1 .. m
    BY ONLY <1>1, <1>3
  <2>2. \A i \in 1 .. n : s[i] = r[i]
    BY ONLY <1>2, <2>1
  <2>3. CASE n = m
    <3>1. s = r
      BY ONLY <2>2, <2>3, r \in Seq(A), s \in Seq(A), m = Len(r), n = Len(s)
    <3> QED
      BY <3>1
  <2>4. CASE n < m
    <3>1. n + 1 \in 1 .. m /\ n < l
      BY ONLY <1>1, <2>4
    <3>2. r[n + 1] = Slash
      BY ONLY <1>2, <3>1
    <3> QED
      BY <2>2, <2>4, <3>2, TreeMeans
  <2> QED
    BY ONLY <1>1, <1>3, <2>3, <2>4
<1>4. InTree(r, s) => n < m
  BY TreeMeans
<1> QED
  BY ONLY <1>1, <1>3, <1>4, m = Len(r), n = Len(s)

\* The codebase a directory belongs to: of the roots at or above it the one below all others.
Owner(codebases, cwd) ==
    LET above == {r \in codebases : r = cwd \/ InTree(cwd, r)}
    IN  IF above = {} THEN cwd
        ELSE CHOOSE r \in above : \A s \in above : s = r \/ InTree(r, s)

LEMMA OwnerIs ==
  ASSUME NEW A, Slash \in A, NEW cwd \in Seq(A), NEW codebases \in SUBSET Seq(A)
  PROVE  /\ ParentCodebase(codebases, cwd) = Owner(codebases, cwd)
         /\ Owner(codebases, cwd) \in Seq(A)
         /\ cwd = <<>> => Owner(codebases, cwd) = <<>>
<1> PICK above : above = {r \in codebases : r = cwd \/ InTree(cwd, r)}
  OBVIOUS
<1>1. /\ above = {r \in codebases : cwd = r \/ IsPrefix(Append(r, Slash), cwd)}
      /\ above \subseteq Seq(A) /\ \A r \in above : IsAbove(r, cwd)
  BY DEF InTree, IsAbove
<1>2. CASE above = {}
  BY <1>1, <1>2 DEF ParentCodebase, Owner
<1>3. CASE above # {}
  <2> PICK S : S = {Len(cwd) - Len(r) : r \in above}
    OBVIOUS
  <2>1. \A r \in above : Len(r) \in Nat /\ Len(cwd) \in Nat /\ Len(r) <= Len(cwd)
    BY <1>1, AboveMeans
  <2>2. S \subseteq Nat /\ S # {}
    BY <1>3, <2>1
  <2>3. PICK x \in S : \A y \in S : x <= y
    BY <2>2, LeastIn
  <2>4. PICK o \in above : x = Len(cwd) - Len(o)
    OBVIOUS
  <2>5. ASSUME NEW s \in above PROVE Len(s) <= Len(o)
    <3>1. Len(cwd) - Len(o) <= Len(cwd) - Len(s)
      BY <2>3, <2>4
    <3> QED
      BY ONLY <2>1, <3>1, o \in above, s \in above
  <2>6. \A r, s \in above : Len(s) <= Len(r) <=> s = r \/ InTree(r, s)
    BY <1>1, AboveIsChain
  <2>7. ASSUME NEW r \in above, \A s \in above : s = r \/ InTree(r, s) PROVE r = o
    <3>1. o = r \/ InTree(r, o)
      BY <2>7
    <3>2. r = o \/ InTree(o, r)
      BY <2>5, <2>6
    <3>3. InTree(r, o) /\ InTree(o, r) => FALSE
      <4>1. InTree(r, o) => Len(o) < Len(r)
        BY <1>1, TreeMeans
      <4>2. InTree(o, r) => Len(r) < Len(o)
        BY <1>1, TreeMeans
      <4> QED
        BY <2>1, <4>1, <4>2
    <3> QED
      BY <3>1, <3>2, <3>3
  <2>8. \A s \in above : s = o \/ InTree(o, s)
    BY <2>5, <2>6
  <2>9. Owner(codebases, cwd) = o
    <3>1. (CHOOSE r \in above : \A s \in above : s = r \/ InTree(r, s)) = o
      BY ONLY <2>7, <2>8, o \in above
    <3> QED
      BY ONLY <1>3, <3>1, above = {r \in codebases : r = cwd \/ InTree(cwd, r)} DEF Owner
  <2>10. (CHOOSE r \in above : \A s \in above : Len(s) <= Len(r)) = o
    <3>1. \A r \in above : (\A s \in above : Len(s) <= Len(r)) => r = o
      BY ONLY <2>6, <2>7
    <3> QED
      BY ONLY <2>5, <3>1, o \in above
  <2>11. cwd = <<>> => o = <<>>
    <3>1. SUFFICES ASSUME cwd = <<>> PROVE o = <<>>
      OBVIOUS
    <3>2. Len(o) <= 0 /\ Len(o) \in Nat
      BY <2>1, <3>1
    <3> QED
      BY <1>1, <3>2
  <2>12. ParentCodebase(codebases, cwd) = o
    <3>1. CASE cwd = <<>>
      BY <2>11, <3>1 DEF ParentCodebase
    <3>2. CASE cwd # <<>>
      BY ONLY <1>1, <1>3, <2>10, <3>2 DEF ParentCodebase
    <3> QED
      BY <3>1, <3>2
  <2> QED
    BY <1>1, <2>9, <2>11, <2>12
<1> QED
  BY <1>2, <1>3

LEMMA ListedIsFinite ==
  ASSUME NEW E, NEW s \in Seq(E)
  PROVE  IsFiniteSet(ToSet(s))
<1>1. Len(s) \in Nat /\ DOMAIN s = 1 .. Len(s) /\ s \in [1 .. Len(s) -> ToSet(s)]
  BY DEF ToSet
<1>2. s \in Surjection(1 .. Len(s), ToSet(s))
  BY <1>1 DEF Surjection, ToSet
<1>3. IsFiniteSet(1 .. Len(s))
  BY <1>1, FS_Interval
<1> QED
  BY <1>2, <1>3, FS_Surjection

\* What computeRRF returns is a list.
LEMMA FusedIsSeq ==
  ASSUME NEW sem, NEW lex, IsFiniteSet(ToSet(sem)), IsFiniteSet(ToSet(lex)), NEW limit \in Nat,
         NEW best \in ComputeRRF(sem, lex, limit)
  PROVE  \E I : best \in Seq(I)
<1> PICK ids : ids = ToSet(sem) \cup ToSet(lex)
  OBVIOUS
<1>1. IsFiniteSet(ids)
  BY FS_Union
<1>2. PICK n : n = Cardinality(ids)
  OBVIOUS
<1>3. PICK s : s \in SetToSeqs(ids) /\ best = FirstOf(s, limit)
  BY DEF ComputeRRF, FirstOf
<1>4. n \in Nat /\ s \in [1 .. n -> ids]
  BY <1>1, <1>2, <1>3, ListsEverything
<1>5. Lists(s, ids, n)
  BY <1>4 DEF Lists
<1>6. PICK m : m = Min({limit, n})
  OBVIOUS
<1>7. Starts(best, s, n, m)
  BY Zenon, <1>3, <1>4, <1>5, <1>6, PrefixIs
<1>8. s \in Seq(ids) /\ Len(s) = n
  BY <1>4
<1>9. best = SubSeq(s, 1, Min({limit, n}))
  BY <1>3, <1>8 DEF FirstOf
<1>10. m \in 0 .. n
  BY <1>7 DEF Starts
<1>11. SubSeq(s, 1, m) \in Seq(ids)
  BY ONLY <1>4, <1>8, <1>10
<1> QED
  BY <1>6, <1>9, <1>11

\* The ids of rows, and of those whose slice of their file was loaded.
LoadedIds(rows, cwd, readable) == {r.id : r \in {r \in rows : Loads(r, cwd, readable)}}

LEMMA ScopeIs ==
  ASSUME NEW I, NEW candidates \in Seq(I), NEW rows, NEW cwd, NEW readable, NEW found,
         found = ScopeResults(candidates, rows, cwd, readable)
  PROVE  /\ ToSet(found) \subseteq RowIds(rows)
         /\ ToSet(found) \cap LoadedIds(rows, cwd, readable) # {}
              => ToSet(found) \subseteq LoadedIds(rows, cwd, readable)
<1> PICK all : all = RowIds(rows)
  OBVIOUS
<1> PICK loaded : loaded = LoadedIds(rows, cwd, readable)
  OBVIOUS
<1> PICK u : u = Only(candidates, all)
  OBVIOUS
<1>1. u \in Seq(I) /\ ToSet(u) = ToSet(candidates) \cap all
  BY OnlyIs
<1>2. Only(u, loaded) \in Seq(I) /\ ToSet(Only(u, loaded)) = ToSet(u) \cap loaded
  BY <1>1, OnlyIs
<1>3. found = IF ToSet(u) \cap loaded # {} THEN Only(u, loaded) ELSE u
  BY DEF ScopeResults, RowIds, LoadedIds
<1> QED
  BY ONLY <1>1, <1>2, <1>3, all = RowIds(rows), loaded = LoadedIds(rows, cwd, readable)

\* What the arguments of a search are.
IsSearch(in, A) ==
    /\ Slash \in A /\ in.cwd \in Seq(A) /\ in.codebases \subseteq Seq(A)
    /\ \E D : in.dense \in Seq(D)
    /\ \E M : in.matches \in Seq(M)
    /\ IsFiniteSet(in.seen) /\ in.limit \in Nat
    /\ \A r \in in.rows : r.path \in Seq(A)

\* Every result of a search is a list of candidates, cut down to one codebase.
LEMMA SearchIsScoped ==
  ASSUME NEW in, NEW A, IsSearch(in, A), NEW found \in SearchMemories(in)
  PROVE  \E I : \E c \in Seq(I) :
           found = ScopeResults(c, in.rows, ParentCodebase(in.codebases, in.cwd), in.readable)
<1> DEFINE cwd   == ParentCodebase(in.codebases, in.cwd)
           limit == Min({MaxCandidates, in.limit * CandidateMultiplier})
           near  == SubSeq(in.dense, 1, Min({limit, Len(in.dense)}))
           kept  == Only(near, {d \in ToSet(near) : in.zero \/ d.similarity >= MinSimilarity})
           sem   == [i \in DOMAIN kept |-> kept[i].id]
           below == Only(in.matches, {m \in ToSet(in.matches) : IsPrefix(Append(cwd, Slash), m.path)})
           lexes == IF cwd = <<>> THEN {<<>>} ELSE SearchLexicalSparse(in.seen, below)
<1>1. PICK lex \in lexes : \E c \in ComputeRRF(sem, lex, in.limit) :
             found = ScopeResults(c, in.rows, cwd, in.readable)
  BY DEF SearchMemories
<1>2. in.limit \in Nat /\ IsFiniteSet(in.seen)
  BY DEF IsSearch
<1>3. IsFiniteSet(ToSet(sem))
  <2>1. PICK D : in.dense \in Seq(D)
    BY DEF IsSearch
  <2>2. PICK k : k = Min({limit, Len(in.dense)})
    OBVIOUS
  <2>3. MaxCandidates \in Nat /\ in.limit * CandidateMultiplier \in Nat /\ Len(in.dense) \in Nat
    <3>1. MaxCandidates \in Nat /\ CandidateMultiplier \in Nat
      BY HybridAssumption
    <3>2. \A a, b \in Nat : a * b \in Nat
      OBVIOUS
    <3> QED
      BY ONLY <1>2, <2>1, <3>1, <3>2
  <2>4. limit \in Nat
    <3>1. limit = IF MaxCandidates <= in.limit * CandidateMultiplier
                  THEN MaxCandidates ELSE in.limit * CandidateMultiplier
      BY <2>3, MinIs
    <3> QED
      BY ONLY <2>3, <3>1
  <2>5. k \in 0 .. Len(in.dense)
    <3> HIDE DEF limit
    <3>1. k = IF limit <= Len(in.dense) THEN limit ELSE Len(in.dense)
      BY <2>2, <2>3, <2>4, MinIs
    <3> QED
      BY ONLY <2>3, <2>4, <3>1
  <2>6. near \in Seq(D)
    <3>1. SubSeq(in.dense, 1, k) \in Seq(D)
      BY ONLY <2>1, <2>5
    <3> QED
      BY <2>2, <3>1
  <2> HIDE DEF near
  <2>7. kept \in Seq(D)
    BY <2>6, OnlyIs
  <2> HIDE DEF kept
  <2>8. PICK n \in Nat : DOMAIN kept = 1 .. n
    BY <2>7
  <2> PICK E : E = {kept[i].id : i \in 1 .. n}
    OBVIOUS
  <2>9. sem \in Seq(E)
    <3>1. sem \in [1 .. n -> E]
      BY <2>8
    <3> QED
      BY ONLY <3>1, n \in Nat
  <2> QED
    BY <2>9, ListedIsFinite
<1>4. IsFiniteSet(ToSet(lex))
  <2>1. CASE cwd = <<>>
    <3>1. lex = <<>>
      BY <2>1
    <3>2. ToSet(lex) = {}
      BY <3>1 DEF ToSet
    <3> QED
      BY <3>2, FS_EmptySet
  <2>2. CASE cwd # <<>>
    <3>1. PICK M : in.matches \in Seq(M)
      BY DEF IsSearch
    <3>2. below \in Seq(M)
      BY <3>1, OnlyIs
    <3>3. lex \in SearchLexicalSparse(in.seen, below)
      BY <2>2
    <3> HIDE DEF below
    <3>4. lex \in Seq(RowIds(in.seen))
      BY ONLY <1>2, <3>2, <3>3, LexicalIs
    <3> QED
      BY <3>4, ListedIsFinite
  <2> QED
    BY <2>1, <2>2
<1> HIDE DEF sem, lexes, cwd
<1>5. PICK c \in ComputeRRF(sem, lex, in.limit) : found = ScopeResults(c, in.rows, cwd, in.readable)
  BY <1>1
<1>6. \E I : c \in Seq(I)
  BY ONLY <1>2, <1>3, <1>4, c \in ComputeRRF(sem, lex, in.limit), FusedIsSeq
<1> QED
  BY ONLY <1>5, <1>6 DEF cwd

(***************************************************************************)
(* A query without operators finds the lines that hold one of its words,   *)
(* and the matches of any search turn into the ids of exactly the rows     *)
(* that hold one, each once (db.go 329-494), for queries, lines, tables    *)
(* and lists of matches of any size.                                       *)
(***************************************************************************)
THEOREM LexicalIsExact ==
  ASSUME call.op = "option" => \E E : call.query \in Seq(E),
         call.op = "lexical" => IsFiniteSet(call.rows) /\ \E M : call.matches \in Seq(M)
  PROVE  LexicalSearchExact
<1>1. WordsFind
  BY WordsAreFound DEF WordsFind
<1>2. LexicalExact
  <2> SUFFICES ASSUME call.op = "lexical", NEW ids \in SearchLexicalSparse(call.rows, call.matches)
               PROVE  /\ IsInjective(ids)
                      /\ ToSet(ids) = {r.id : r \in {r \in call.rows :
                                          \E i \in DOMAIN call.matches : HoldsMatch(r, call.matches[i])}}
    BY DEF LexicalExact
  <2>1. PICK M : call.matches \in Seq(M)
    OBVIOUS
  <2>2. IsInjective(ids) /\ ToSet(ids) = IdsUpTo(call.rows, call.matches, Len(call.matches))
    BY <2>1, LexicalIs
  <2>3. DOMAIN call.matches = 1 .. Len(call.matches)
    BY <2>1
  <2> QED
    BY ONLY <2>2, <2>3 DEF IdsUpTo
<1> QED
  BY <1>1, <1>2 DEF LexicalSearchExact

(***************************************************************************)
(* A search from a directory returns rows of the codebase that owns it and *)
(* of no other as long as it finds a readable one of its own (db.go        *)
(* 875-978), for any roots, paths, tables and candidates.                  *)
(***************************************************************************)
THEOREM ResultsAreScoped ==
  ASSUME call.op = "hybrid" => \E A : IsSearch(call, A)
  PROVE  SearchScoped
<1> DEFINE owner   == Owner(call.codebases, call.cwd)
           sibling == {r \in call.rows : IsPrefix(owner, r.path) /\ ~ InTree(r.path, owner)}
           own     == {r.id : r \in {r \in call.rows : InTree(r.path, owner)}}
           loaded  == LoadedIds(call.rows, owner, call.readable)
<1> SUFFICES ASSUME call.op = "hybrid", owner # <<>>, sibling = {}, NEW found \in SearchMemories(call)
             PROVE  /\ ToSet(found) \cap own \cap call.readable # {} => ToSet(found) \subseteq own
                    /\ ToSet(found) \subseteq {r.id : r \in call.rows}
  BY DEF SearchScoped, Owner
<1>1. PICK A : IsSearch(call, A)
  OBVIOUS
<1>2. ParentCodebase(call.codebases, call.cwd) = owner /\ owner \in Seq(A) /\ Slash \in A
  BY <1>1, OwnerIs DEF IsSearch
<1>3. PICK I : \E c \in Seq(I) : found = ScopeResults(c, call.rows, owner, call.readable)
  BY <1>1, <1>2, SearchIsScoped
<1>4. PICK c \in Seq(I) : found = ScopeResults(c, call.rows, owner, call.readable)
  BY <1>3
<1>5. /\ ToSet(found) \subseteq RowIds(call.rows)
      /\ ToSet(found) \cap loaded # {} => ToSet(found) \subseteq loaded
  <2> HIDE DEF owner
  <2> QED
    BY <1>4, ScopeIs
<1>6. \A r \in call.rows : InTree(r.path, owner) => IsPrefix(owner, r.path)
  <2> SUFFICES ASSUME NEW r \in call.rows, InTree(r.path, owner) PROVE IsPrefix(owner, r.path)
    OBVIOUS
  <2>1. r.path \in Seq(A)
    BY <1>1 DEF IsSearch
  <2> HIDE DEF owner
  <2>2. Len(owner) \in Nat /\ Len(r.path) \in Nat
    BY ONLY <1>2, <2>1
  <2>3. Len(owner) < Len(r.path) /\ \A i \in 1 .. Len(owner) : owner[i] = r.path[i]
    BY ONLY <1>2, <2>1, InTree(r.path, owner), TreeMeans
  <2>4. Len(owner) <= Len(r.path)
    BY ONLY <2>2, <2>3
  <2> QED
    BY ONLY <1>2, <2>1, <2>3, <2>4, PrefixMeans
<1>7. own \cap call.readable \subseteq loaded
  BY <1>6 DEF LoadedIds, Loads
<1>8. loaded \subseteq own
  BY DEF LoadedIds, Loads
<1> QED
  BY <1>5, <1>7, <1>8 DEF RowIds
=============================================================================
