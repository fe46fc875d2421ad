----------------------------- MODULE BufferProofs -----------------------------
(***************************************************************************)
(* Proofs about Buffer, for any bytes, sizes and bounds, and callers that  *)
(* stay within the readable size: the indices stay inside the vector, and  *)
(* the buffer is a stream of bytes (ByteQueue).  That callers stay within  *)
(* the readable size is Overread = 0, a hypothesis of the theorems.        *)
(***************************************************************************)
EXTENDS Buffer, SequenceTheorems, WellFoundedInduction, TLAPS

Cell == Byte \cup {Nul}

(***************************************************************************)
(* IndexOrder alone is not inductive: a readable size counted modulo Word  *)
(* is the number of unread bytes only as long as the indices are bounded,  *)
(* and it takes IndexOrder to keep the write index a natural number.       *)
(***************************************************************************)
IInv == TypeOK /\ IndexOrder /\ writeIndex <= MaxSize

LEMMA ModuloWord ==
  ASSUME NEW n \in Nat, n < Word
  PROVE  n % Word = n
  BY SizeAssumption

LEMMA ReadableSize ==
  ASSUME IInv
  PROVE  GetReadableSize = writeIndex - readIndex /\ GetReadableSize \in Nat
<1>1. writeIndex - readIndex \in Nat /\ writeIndex - readIndex < Word
  BY SizeAssumption DEF IInv, TypeOK, IndexOrder
<1> QED
  BY <1>1, ModuloWord DEF GetReadableSize

LEMMA DataIsSeq ==
  ASSUME NEW data \in Data
  PROVE  data \in Seq(Byte) /\ data \in Seq(Cell)
<1>1. PICK m \in 0 .. MaxWrite : data \in [1 .. m -> Byte]
  BY DEF Data, SeqOf
<1>2. m \in Nat
  BY SizeAssumption
<1> QED
  BY <1>1, <1>2, SeqDef DEF Cell

-----------------------------------------------------------------------------
(* Vectors *)

(* std::copy inside a vector changes the bytes it covers. *)
LEMMA OverlayProperties ==
  ASSUME NEW s \in Seq(Cell), NEW i \in Nat, NEW data \in Seq(Cell),
         i + Len(data) <= Len(s)
  PROVE  /\ Overlay(s, i, data) \in Seq(Cell)
         /\ Len(Overlay(s, i, data)) = Len(s)
         /\ \A k \in 1 .. Len(s) :
              Overlay(s, i, data)[k] = IF k \in i + 1 .. i + Len(data) THEN data[k - i] ELSE s[k]
<1> DEFINE o == Overlay(s, i, data)
<1>1. Len(s) \in Nat /\ Len(data) \in Nat
  BY LenProperties
<1>2. \A k \in 1 .. Len(s) : s[k] \in Cell
  BY ElementOfSeq
<1>3. \A k \in 1 .. Len(data) : data[k] \in Cell
  BY ElementOfSeq
<1>4. o \in [1 .. Len(s) -> Cell]
  BY <1>1, <1>2, <1>3 DEF Overlay
<1>5. o \in Seq(Cell)
  BY <1>1, <1>4, SeqDef
<1>6. Len(o) = Len(s)
  BY <1>1, <1>4, <1>5, LenProperties
<1> QED
  BY <1>5, <1>6 DEF Overlay

LEMMA NulsAreCells ==
  ASSUME NEW n \in Nat
  PROVE  [k \in 1 .. n |-> Nul] \in Seq(Cell) /\ Len([k \in 1 .. n |-> Nul]) = n
<1>1. [k \in 1 .. n |-> Nul] \in [1 .. n -> Cell]
  BY DEF Cell
<1>2. [k \in 1 .. n |-> Nul] \in Seq(Cell)
  BY <1>1, SeqDef
<1> QED
  BY <1>1, <1>2, LenProperties

(* The first n unread bytes. *)
LEMMA UnreadProperties ==
  ASSUME IInv, NEW n \in 0 .. writeIndex - readIndex
  PROVE  /\ Unread(n) \in Seq(Cell)
         /\ Len(Unread(n)) = n
         /\ \A k \in 1 .. n : Unread(n)[k] = buffer[readIndex + k]
<1>1. /\ buffer \in Seq(Cell) /\ Len(buffer) \in Nat
      /\ readIndex \in Nat /\ writeIndex \in Nat /\ writeIndex <= Len(buffer)
  BY LenProperties DEF IInv, TypeOK, IndexOrder, Cell
<1>2. readIndex + 1 \in Int /\ readIndex + n \in Int /\ n \in Nat
  BY <1>1
<1>3. \A k \in readIndex + 1 .. readIndex + n : buffer[k] \in Cell
  BY <1>1, ElementOfSeq
<1>4. /\ SubSeq(buffer, readIndex + 1, readIndex + n) \in Seq(Cell)
      /\ Len(SubSeq(buffer, readIndex + 1, readIndex + n)) =
           IF readIndex + 1 <= readIndex + n THEN (readIndex + n) - (readIndex + 1) + 1 ELSE 0
      /\ \A k \in 1 .. (readIndex + n) - (readIndex + 1) + 1 :
           SubSeq(buffer, readIndex + 1, readIndex + n)[k] = buffer[(readIndex + 1) + k - 1]
  BY <1>2, <1>3, SubSeqProperties
<1> QED
  BY <1>1, <1>2, <1>4 DEF Unread

(* The abstract queue's content is what is unread. *)
Content == SubSeq(buffer, readIndex + 1, writeIndex)

LEMMA ContentProperties ==
  ASSUME IInv
  PROVE  /\ Content \in Seq(Cell)
         /\ Len(Content) = writeIndex - readIndex
         /\ \A k \in 1 .. writeIndex - readIndex : Content[k] = buffer[readIndex + k]
<1>1. writeIndex - readIndex \in 0 .. writeIndex - readIndex
  BY DEF IInv, TypeOK, IndexOrder
<1>2. readIndex + (writeIndex - readIndex) = writeIndex
  BY DEF IInv, TypeOK
<1> QED
  BY <1>1, <1>2, UnreadProperties DEF Content, Unread

(* The same in the next state. *)
LEMMA ContentAfter ==
  ASSUME IInv'
  PROVE  /\ Content' \in Seq(Cell)
         /\ Len(Content') = writeIndex' - readIndex'
         /\ \A k \in 1 .. writeIndex' - readIndex' : Content'[k] = buffer'[readIndex' + k]
<1>1. IInv' => (/\ Content \in Seq(Cell)
                /\ Len(Content) = writeIndex - readIndex
                /\ \A k \in 1 .. writeIndex - readIndex : Content[k] = buffer[readIndex + k])'
  BY ContentProperties, PTL
<1> QED
  BY <1>1

-----------------------------------------------------------------------------
(***************************************************************************)
(* ExpansionWriteSize makes room for len bytes behind the write index,     *)
(* inside the vector, and moves the unread bytes with the indices.         *)
(***************************************************************************)
LEMMA ExpansionMakesRoom ==
  ASSUME IInv, NEW len \in Nat
  PROVE  LET room == ExpansionWriteSize(len)
         IN  /\ room.bytes \in Seq(Cell)
             /\ room.read \in Nat /\ room.write \in Nat
             /\ room.write - room.read = writeIndex - readIndex
             /\ room.write <= writeIndex
             /\ room.write + len <= Len(room.bytes)
             /\ \A k \in 1 .. writeIndex - readIndex :
                  room.bytes[room.read + k] = buffer[readIndex + k]
<1> DEFINE unread == writeIndex - readIndex
<1>1. /\ buffer \in Seq(Cell) /\ Len(buffer) \in Nat
      /\ readIndex \in Nat /\ writeIndex \in Nat
      /\ readIndex <= writeIndex /\ writeIndex <= Len(buffer)
  BY LenProperties DEF IInv, TypeOK, IndexOrder, Cell
<1>2. CASE len <= GetTailRestSize
  BY <1>1, <1>2 DEF ExpansionWriteSize, GetTailRestSize
<1>3. CASE len > GetTailRestSize /\ len <= GetHeadRestSize + GetTailRestSize
  <2>1. GetReadableSize = unread /\ unread \in 0 .. unread
    BY <1>1, ReadableSize
  <2>2. /\ Unread(unread) \in Seq(Cell) /\ Len(Unread(unread)) = unread
        /\ \A k \in 1 .. unread : Unread(unread)[k] = buffer[readIndex + k]
    BY <2>1, UnreadProperties
  <2> DEFINE o == Overlay(buffer, 0, Unread(unread))
  <2>3. /\ o \in Seq(Cell) /\ Len(o) = Len(buffer)
        /\ \A k \in 1 .. Len(buffer) :
             o[k] = IF k \in 0 + 1 .. 0 + unread THEN Unread(unread)[k - 0] ELSE buffer[k]
    BY <1>1, <2>1, <2>2, OverlayProperties
  <2>4. \A k \in 1 .. unread : o[0 + k] = buffer[readIndex + k]
    BY <1>1, <2>2, <2>3
  <2>5. ExpansionWriteSize(len) = [bytes |-> o, read |-> 0, write |-> unread]
    BY <1>1, <1>3, <2>1 DEF ExpansionWriteSize, GetTailRestSize, GetHeadRestSize
  <2>6. unread + len <= Len(buffer)
    BY <1>1, <1>3 DEF GetTailRestSize, GetHeadRestSize
  <2> HIDE DEF o
  <2> QED
    BY <1>1, <2>3, <2>4, <2>5, <2>6
<1>4. CASE ~(len <= GetTailRestSize)
           /\ ~(len > GetTailRestSize /\ len <= GetHeadRestSize + GetTailRestSize)
  <2> DEFINE n == writeIndex + len - Len(buffer)
             nuls == [k \in 1 .. n |-> Nul]
             b == buffer \o nuls
  <2>1. n \in Nat
    BY <1>1, <1>4 DEF GetTailRestSize, GetHeadRestSize
  <2>2. nuls \in Seq(Cell) /\ Len(nuls) = n
    BY <2>1, NulsAreCells
  <2>3. ExpansionWriteSize(len) = [bytes |-> b, read |-> readIndex, write |-> writeIndex]
    BY <1>4 DEF ExpansionWriteSize
  <2> HIDE DEF nuls
  <2>4. /\ b \in Seq(Cell) /\ Len(b) = Len(buffer) + n
        /\ \A k \in 1 .. Len(buffer) + n :
             b[k] = IF k <= Len(buffer) THEN buffer[k] ELSE nuls[k - Len(buffer)]
    BY <1>1, <2>2, ConcatProperties
  <2> HIDE DEF b
  <2>5. /\ ExpansionWriteSize(len).bytes = b
        /\ ExpansionWriteSize(len).read = readIndex /\ ExpansionWriteSize(len).write = writeIndex
    BY <2>3
  <2>6. \A k \in 1 .. writeIndex - readIndex : b[readIndex + k] = buffer[readIndex + k]
    BY <1>1, <2>1, <2>4
  <2>7. writeIndex + len <= Len(b)
    BY <1>1, <2>1, <2>4
  <2> QED
    BY <1>1, <2>4, <2>5, <2>6, <2>7
<1> QED
  BY <1>2, <1>3, <1>4

-----------------------------------------------------------------------------
(* The steps: a write, a step that removes k unread bytes, and the others. *)

(* Where the indices come to lie, the unread bytes are what they were, and *)
(* the bytes that were written follow them.                                *)
LEMMA WriteStep ==
  ASSUME IInv, NEW data \in Data, NEW push \in BOOLEAN, WriteAnd(data, push)
  PROVE  /\ IInv'
         /\ writeIndex' - readIndex' = writeIndex - readIndex + IF push THEN Len(data) ELSE 0
         /\ \A k \in 1 .. writeIndex - readIndex : buffer'[readIndex' + k] = buffer[readIndex + k]
         /\ push => \A k \in 1 .. Len(data) :
                      buffer'[readIndex' + (writeIndex - readIndex) + k] = data[k]
<1> DEFINE unread == writeIndex - readIndex
           pushed == IF push THEN Len(data) ELSE 0
<1>1. data \in Seq(Cell) /\ Len(data) \in Nat
  BY DataIsSeq, LenProperties
<1>2. readIndex \in Nat /\ writeIndex \in Nat /\ unread \in Nat /\ MaxSize \in Nat
  BY SizeAssumption DEF IInv, TypeOK, IndexOrder
<1>3. PICK b \in Seq(Cell), r \in Nat, w \in Nat :
        /\ w - r = unread
        /\ w <= writeIndex
        /\ w + Len(data) <= Len(b)
        /\ \A k \in 1 .. unread : b[r + k] = buffer[readIndex + k]
        /\ buffer' = Overlay(b, w, data)
        /\ readIndex' = r
        /\ writeIndex' = IF push THEN w + Len(data) ELSE w
  BY <1>1, ExpansionMakesRoom DEF WriteAnd
<1>4. /\ writeIndex + Len(data) <= MaxSize
      /\ moved' = (IF push THEN data ELSE <<>>) /\ op' \in {"put", "draft"}
  BY DEF WriteAnd, Is
<1>5. /\ buffer' \in Seq(Cell) /\ Len(buffer') = Len(b)
      /\ \A k \in 1 .. Len(b) :
           buffer'[k] = IF k \in w + 1 .. w + Len(data) THEN data[k - w] ELSE b[k]
  BY <1>1, <1>3, OverlayProperties
<1>6. Len(b) \in Nat
  BY LenProperties
<1>7. pushed \in 0 .. Len(data) /\ writeIndex' = w + pushed
  <2>1. CASE push
    BY <1>1, <1>3, <2>1
  <2>2. CASE ~push
    BY <1>1, <1>3, <2>2
  <2> QED
    BY <2>1, <2>2
<1>8. IInv'
  <2>1. moved' \in Seq(Cell)
    BY <1>1, <1>4, EmptySeq
  <2> HIDE DEF pushed
  <2>2. readIndex' \in Nat /\ writeIndex' \in Nat /\ readIndex' <= writeIndex'
    BY <1>1, <1>2, <1>3, <1>7
  <2>3. writeIndex' <= Len(buffer') /\ writeIndex' <= MaxSize
    BY <1>1, <1>2, <1>3, <1>4, <1>5, <1>6, <1>7
  <2> QED
    BY <1>4, <1>5, <2>1, <2>2, <2>3 DEF IInv, TypeOK, IndexOrder, Cell
<1>9. ASSUME NEW k \in 1 .. unread
      PROVE  buffer'[readIndex' + k] = buffer[readIndex + k]
  <2>1. r + k \in 1 .. Len(b) /\ r + k \notin w + 1 .. w + Len(data)
    BY <1>1, <1>2, <1>3, <1>6
  <2> QED
    BY <1>3, <1>5, <2>1
<1>10. ASSUME NEW k \in 1 .. Len(data)
       PROVE  buffer'[readIndex' + unread + k] = data[k]
  <2>1. w + k \in 1 .. Len(b) /\ w + k \in w + 1 .. w + Len(data) /\ (w + k) - w = k
    BY <1>1, <1>3, <1>6
  <2>2. readIndex' + unread + k = w + k
    BY <1>1, <1>2, <1>3
  <2> QED
    BY <1>5, <2>1, <2>2
<1>11. writeIndex' - readIndex' = unread + pushed
  <2> HIDE DEF pushed
  <2> QED
    BY <1>1, <1>2, <1>3, <1>7
<1> QED
  BY <1>8, <1>9, <1>10, <1>11

(* Read, ReadPop, UpdateReadIndex, GetLine and GetLinePop return the first *)
(* n unread bytes and remove k: the stream loses the same.                 *)
TakeUnread(n, k) ==
  /\ op' \in {"peek", "pop", "skip", "line", "half"}
  /\ moved' = Unread(n)
  /\ readIndex' = readIndex + k
  /\ UNCHANGED <<buffer, writeIndex>>

Taken(n, k) == moved' = BQ!First(n) /\ BQ!Remove(k)

LEMMA TakeStep ==
  ASSUME IInv, NEW n \in 0 .. writeIndex - readIndex, NEW k \in 0 .. writeIndex - readIndex,
         TakeUnread(n, k)
  PROVE  IInv' /\ Taken(n, k)
<1>1. /\ readIndex \in Nat /\ writeIndex \in Nat /\ readIndex <= writeIndex
      /\ n \in Nat /\ k \in Nat /\ readIndex' = readIndex + k
  BY DEF IInv, TypeOK, IndexOrder, TakeUnread
<1>2. IInv'
  BY <1>1, UnreadProperties DEF IInv, TypeOK, IndexOrder, TakeUnread, Cell
<1>3. /\ Content \in Seq(Cell) /\ Len(Content) = writeIndex - readIndex
      /\ \A j \in 1 .. writeIndex - readIndex : Content[j] = buffer[readIndex + j]
  BY ContentProperties
<1>4. moved' = SubSeq(Content, 1, n)
  <2>1. /\ Unread(n) \in Seq(Cell) /\ Len(Unread(n)) = n
        /\ \A j \in 1 .. n : Unread(n)[j] = buffer[readIndex + j]
    BY UnreadProperties
  <2>2. \A j \in 1 .. n : Content[j] \in Cell
    BY <1>1, <1>3, ElementOfSeq
  <2>3. /\ SubSeq(Content, 1, n) \in Seq(Cell)
        /\ Len(SubSeq(Content, 1, n)) = IF 1 <= n THEN n - 1 + 1 ELSE 0
        /\ \A j \in 1 .. n - 1 + 1 : SubSeq(Content, 1, n)[j] = Content[1 + j - 1]
    BY <1>1, <2>2, SubSeqProperties
  <2>4. ASSUME NEW j \in 1 .. n
        PROVE  SubSeq(Content, 1, n)[j] = Unread(n)[j]
    <3>1. j \in 1 .. n - 1 + 1 /\ 1 + j - 1 = j /\ j \in 1 .. writeIndex - readIndex
      BY <1>1
    <3>2. SubSeq(Content, 1, n)[j] = Content[j]
      BY <2>3, <3>1
    <3> QED
      BY <1>3, <2>1, <3>1, <3>2
  <2>5. SubSeq(Content, 1, n) = Unread(n)
    BY <1>1, <2>1, <2>3, <2>4, SeqEqual
  <2> QED
    BY <2>5 DEF TakeUnread
<1>5. Content' = SubSeq(Content, k + 1, Len(Content))
  <2> DEFINE rest == SubSeq(Content, k + 1, Len(Content))
             unread == writeIndex - readIndex
  <2>1. /\ Content' \in Seq(Cell) /\ Len(Content') = unread - k
        /\ \A j \in 1 .. unread - k : Content'[j] = buffer[readIndex + k + j]
    <3>1. /\ Content' \in Seq(Cell) /\ Len(Content') = writeIndex' - readIndex'
          /\ \A j \in 1 .. writeIndex' - readIndex' : Content'[j] = buffer'[readIndex' + j]
      BY <1>2, ContentAfter
    <3>2. /\ buffer' = buffer /\ writeIndex' = writeIndex
          /\ writeIndex' - readIndex' = unread - k
      BY <1>1 DEF TakeUnread
    <3> QED
      BY <1>1, <3>1, <3>2
  <2> HIDE DEF Content
  <2>2. \A j \in k + 1 .. Len(Content) : Content[j] \in Cell
    BY <1>1, <1>3, ElementOfSeq
  <2>3. /\ rest \in Seq(Cell)
        /\ Len(rest) = IF k + 1 <= Len(Content) THEN Len(Content) - (k + 1) + 1 ELSE 0
        /\ \A j \in 1 .. Len(Content) - (k + 1) + 1 : rest[j] = Content[(k + 1) + j - 1]
    BY <1>1, <1>3, <2>2, SubSeqProperties
  <2> HIDE DEF rest
  <2>4. Len(rest) = Len(Content')
    <3>1. CASE k + 1 <= Len(Content)
      BY <1>1, <1>3, <2>1, <2>3, <3>1
    <3>2. CASE ~(k + 1 <= Len(Content))
      BY <1>1, <1>3, <2>1, <2>3, <3>2
    <3> QED
      BY <3>1, <3>2
  <2>5. ASSUME NEW j \in 1 .. Len(rest)
        PROVE  rest[j] = Content'[j]
    <3>1. /\ j \in 1 .. unread - k /\ (k + 1) + j - 1 = k + j
          /\ j \in 1 .. Len(Content) - (k + 1) + 1 /\ k + j \in 1 .. unread
      BY <1>1, <1>3, <2>1, <2>4
    <3>2. rest[j] = Content[k + j]
      BY <2>3, <3>1
    <3>3. Content[k + j] = buffer[readIndex + (k + j)]
      BY <1>3, <3>1
    <3>4. readIndex + (k + j) = readIndex + k + j
      BY <1>1
    <3> QED
      BY <2>1, <3>1, <3>2, <3>3, <3>4
  <2>6. rest = Content'
    BY <2>1, <2>3, <2>4, <2>5, SeqEqual
  <2> QED
    BY <2>6 DEF rest
<1> QED
  BY <1>2, <1>4, <1>5 DEF Taken, BQ!First, BQ!Remove, Content

(* What a write does to the queue: a pushed one appends, and another one   *)
(* changes nothing.                                                        *)
LEMMA WriteImplements ==
  ASSUME IInv, NEW data \in Data, NEW push \in BOOLEAN, WriteAnd(data, push)
  PROVE  IF push THEN BQ!Put(data) ELSE BQ!Draft
<1> DEFINE unread == writeIndex - readIndex
<1>1. /\ IInv'
      /\ writeIndex' - readIndex' = unread + IF push THEN Len(data) ELSE 0
      /\ \A k \in 1 .. unread : buffer'[readIndex' + k] = buffer[readIndex + k]
      /\ push => \A k \in 1 .. Len(data) : buffer'[readIndex' + unread + k] = data[k]
  BY WriteStep
<1>2. /\ Content \in Seq(Cell) /\ Len(Content) = unread /\ unread \in Nat
      /\ \A k \in 1 .. unread : Content[k] = buffer[readIndex + k]
  BY ContentProperties DEF IInv, TypeOK, IndexOrder
<1>3. /\ Content' \in Seq(Cell) /\ Len(Content') = writeIndex' - readIndex'
      /\ \A k \in 1 .. writeIndex' - readIndex' : Content'[k] = buffer'[readIndex' + k]
      /\ readIndex' \in Nat
  BY <1>1, ContentAfter DEF IInv, TypeOK
<1>4. data \in Seq(Cell) /\ Len(data) \in Nat
  BY DataIsSeq, LenProperties
<1> HIDE DEF unread, Content
<1>5. CASE push
  <2>1. /\ Content \o data \in Seq(Cell) /\ Len(Content \o data) = unread + Len(data)
        /\ \A k \in 1 .. unread + Len(data) :
             (Content \o data)[k] = IF k <= unread THEN Content[k] ELSE data[k - unread]
    BY <1>2, <1>4, ConcatProperties
  <2>2. Len(Content') = unread + Len(data)
    BY <1>1, <1>3, <1>5
  <2>3. ASSUME NEW k \in 1 .. Len(Content')
        PROVE  Content'[k] = (Content \o data)[k]
    <3>1. k \in 1 .. unread + Len(data) /\ k \in 1 .. writeIndex' - readIndex'
      BY <1>3, <2>2
    <3>2. CASE k <= unread
      <4>1. k \in 1 .. unread
        BY <1>2, <3>1, <3>2
      <4>2. Content'[k] = buffer'[readIndex' + k]
        BY <1>3, <3>1
      <4>3. buffer'[readIndex' + k] = buffer[readIndex + k] /\ buffer[readIndex + k] = Content[k]
        BY <1>1, <1>2, <4>1
      <4>4. (Content \o data)[k] = Content[k]
        BY <2>1, <3>1, <3>2
      <4> QED
        BY <4>2, <4>3, <4>4
    <3>3. CASE ~(k <= unread)
      <4>1. k - unread \in 1 .. Len(data) /\ readIndex' + unread + (k - unread) = readIndex' + k
        BY <1>2, <1>3, <1>4, <3>1, <3>3
      <4>2. buffer'[readIndex' + unread + (k - unread)] = data[k - unread]
        BY <1>1, <1>5, <4>1
      <4> QED
        BY <1>3, <2>1, <3>1, <3>3, <4>1, <4>2
    <3> QED
      BY <3>2, <3>3
  <2>4. Content' = Content \o data
    BY <1>3, <2>1, <2>2, <2>3, SeqEqual
  <2>5. moved' = data /\ op' = "put"
    BY <1>5 DEF WriteAnd, Is
  <2> QED
    BY <1>5, <2>4, <2>5 DEF BQ!Put, BQ!Is, Content
<1>6. CASE ~push
  <2>1. Len(Content') = unread
    BY <1>1, <1>2, <1>3, <1>6
  <2>2. ASSUME NEW k \in 1 .. Len(Content')
        PROVE  Content'[k] = Content[k]
    BY <1>1, <1>2, <1>3, <2>1
  <2>3. Content' = Content
    BY <1>2, <1>3, <2>1, <2>2, SeqEqual
  <2>4. moved' = <<>> /\ op' = "draft"
    BY <1>6 DEF WriteAnd, Is
  <2> QED
    BY <1>6, <2>3, <2>4 DEF BQ!Draft, BQ!Is, Content
<1> QED
  BY <1>5, <1>6

LEMMA NaturalsHaveALeast ==
  ASSUME NEW S \in SUBSET Nat, S # {}
  PROVE  \E m \in S : \A n \in S : m <= n
<1> DEFINE R == OpToRel(<, Nat)
<1>1. IsWellFoundedOn(R, Nat)
  BY NatLessThanWellFounded, Zenon
<1>2. \A m, n \in Nat : <<m, n>> \in R <=> m < n
  BY DEF OpToRel
<1> HIDE DEF R
<1>3. PICK m \in S : \A n \in S : ~(<<n, m>> \in R)
  BY <1>1, WFMin
<1>4. \A n \in S : ~(n < m)
  BY <1>2, <1>3
<1> QED
  BY <1>4

(* The search of FindCRLF stops at the first line end there is. *)
LEMMA FirstLineEnd ==
  ASSUME IInv, LineEnds # {}
  PROVE  /\ FindCRLF \in LineEnds
         /\ \A j \in LineEnds : FindCRLF <= j
         /\ FindCRLF - readIndex \in Nat
         /\ FindCRLF - readIndex + 2 <= writeIndex - readIndex
<1>1. LineEnds \in SUBSET Nat
  BY DEF LineEnds, IInv, TypeOK
<1>2. \E i \in LineEnds : \A j \in LineEnds : i <= j
  BY <1>1, NaturalsHaveALeast
<1>3. FindCRLF \in LineEnds /\ \A j \in LineEnds : FindCRLF <= j
  BY <1>2 DEF FindCRLF
<1> QED
  BY <1>3 DEF LineEnds, IInv, TypeOK

(* The line ends of the queue are those of the vector, counted from 1. *)
LEMMA SameLineEnds ==
  ASSUME IInv
  PROVE  /\ \A i \in LineEnds : i - readIndex + 1 \in BQ!LineEnds
         /\ \A i \in BQ!LineEnds : i - 1 + readIndex \in LineEnds /\ i \in Nat
<1>1. /\ Len(Content) = writeIndex - readIndex /\ readIndex \in Nat /\ writeIndex \in Nat
      /\ \A k \in 1 .. writeIndex - readIndex : Content[k] = buffer[readIndex + k]
  BY ContentProperties DEF IInv, TypeOK
<1>2. BQ!LineEnds = {i \in 1 .. Len(Content) - 1 : Content[i] = CR /\ Content[i + 1] = LF}
  BY DEF BQ!LineEnds, Content
<1>3. ASSUME NEW i \in LineEnds
      PROVE  i - readIndex + 1 \in BQ!LineEnds
  <2> DEFINE k == i - readIndex + 1
  <2>1. /\ i \in readIndex .. writeIndex - 2 /\ buffer[i + 1] = CR /\ buffer[i + 2] = LF
    BY DEF LineEnds
  <2>2. /\ k \in 1 .. Len(Content) - 1 /\ k \in 1 .. writeIndex - readIndex
        /\ k + 1 \in 1 .. writeIndex - readIndex
        /\ readIndex + k = i + 1 /\ readIndex + (k + 1) = i + 2
    BY <1>1, <2>1
  <2>3. Content[k] = buffer[readIndex + k] /\ Content[k + 1] = buffer[readIndex + (k + 1)]
    BY <1>1, <2>2
  <2> QED
    BY <1>2, <2>1, <2>2, <2>3
<1>4. ASSUME NEW k \in BQ!LineEnds
      PROVE  k - 1 + readIndex \in LineEnds /\ k \in Nat
  <2> DEFINE i == k - 1 + readIndex
  <2>1. k \in 1 .. Len(Content) - 1 /\ Content[k] = CR /\ Content[k + 1] = LF
    BY <1>2
  <2>2. /\ i \in readIndex .. writeIndex - 2 /\ k \in 1 .. writeIndex - readIndex
        /\ k + 1 \in 1 .. writeIndex - readIndex
        /\ readIndex + k = i + 1 /\ readIndex + (k + 1) = i + 2 /\ k \in Nat
    BY <1>1, <2>1
  <2>3. Content[k] = buffer[readIndex + k] /\ Content[k + 1] = buffer[readIndex + (k + 1)]
    BY <1>1, <2>2
  <2> QED
    BY <2>1, <2>2, <2>3 DEF LineEnds
<1> QED
  BY <1>3, <1>4

(* What GetLine and GetLinePop return is unread, and its end is too. *)
LEMMA LineIsUnread ==
  ASSUME IInv
  PROVE  \E n \in 0 .. writeIndex - readIndex :
           /\ Line = Unread(n) /\ Len(Line) = n
           /\ LineEnds = {} => n = 0
           /\ LineEnds # {} => /\ n = FindCRLF - readIndex
                               /\ n + 2 \in 0 .. writeIndex - readIndex
<1>1. writeIndex - readIndex \in Nat
  BY DEF IInv, TypeOK, IndexOrder
<1>2. CASE LineEnds = {}
  <2>1. Unread(0) = <<>>
    BY <1>1, UnreadProperties, EmptySeq
  <2> QED
    BY <1>1, <1>2, <2>1, EmptySeq DEF Line
<1>3. CASE LineEnds # {}
  <2> DEFINE n == FindCRLF - readIndex
  <2>1. n \in Nat /\ n + 2 <= writeIndex - readIndex
    BY <1>3, FirstLineEnd
  <2>2. Line = Unread(n)
    BY <1>3 DEF Line
  <2> HIDE DEF n
  <2>3. n \in 0 .. writeIndex - readIndex /\ n + 2 \in 0 .. writeIndex - readIndex
    BY <1>1, <2>1
  <2>4. Len(Line) = n
    BY <2>2, <2>3, UnreadProperties
  <2> QED
    BY <1>3, <2>2, <2>3, <2>4 DEF n
<1> QED
  BY <1>2, <1>3

(* GetLine stays inside the unread bytes, whatever it leaves of them. *)
LEMMA HalfLineStep ==
  ASSUME IInv, GetLine
  PROVE  IInv'
<1>1. PICK n \in 0 .. writeIndex - readIndex :
        /\ Line = Unread(n)
        /\ LineEnds # {} => n + 2 \in 0 .. writeIndex - readIndex
  BY LineIsUnread
<1> DEFINE k == IF LineEnds = {} THEN 0 ELSE 2
<1>2. k \in 0 .. writeIndex - readIndex /\ readIndex \in Nat
  BY <1>1 DEF IInv, TypeOK, IndexOrder
<1>3. TakeUnread(n, k)
  BY <1>1, <1>2 DEF GetLine, Is, TakeUnread
<1> HIDE DEF k
<1> QED
  BY <1>2, <1>3, TakeStep

(* GetLinePop takes the first line and its end, which together are what    *)
(* GetLine and the second move of the read index leave out.                *)
LEMMA LineStep ==
  ASSUME IInv, GetLinePop
  PROVE  IInv' /\ BQ!TakeLine
<1>1. PICK n \in 0 .. writeIndex - readIndex :
        /\ Line = Unread(n) /\ Len(Line) = n
        /\ LineEnds = {} => n = 0
        /\ LineEnds # {} => n = FindCRLF - readIndex /\ n + 2 \in 0 .. writeIndex - readIndex
  BY LineIsUnread
<1>2. readIndex \in Nat /\ writeIndex \in Nat /\ n \in Nat /\ op' = "line" /\ moved' = Line
  BY DEF IInv, TypeOK, GetLinePop, Is
<1>3. CASE LineEnds = {}
  <2>1. TakeUnread(0, 0) /\ 0 \in 0 .. writeIndex - readIndex
    BY <1>1, <1>2, <1>3 DEF GetLinePop, TakeUnread
  <2>2. IInv'
    BY <2>1, TakeStep
  <2>3. BQ!LineEnds = {}
    BY <1>3, SameLineEnds
  <2>4. moved' = <<>>
    BY <1>2, <1>3 DEF Line
  <2>5. UNCHANGED Content
    BY <1>3 DEF GetLinePop, Content
  <2> QED
    BY <1>2, <2>2, <2>3, <2>4, <2>5 DEF BQ!TakeLine, BQ!Is, Content
<1>4. CASE LineEnds # {}
  <2>1. TakeUnread(n, n + 2)
    BY <1>1, <1>2, <1>4 DEF GetLinePop, TakeUnread
  <2>2. IInv' /\ Taken(n, n + 2)
    BY <1>1, <1>4, <2>1, TakeStep
  <2>3. FindCRLF \in LineEnds /\ \A j \in LineEnds : FindCRLF <= j
    BY <1>4, FirstLineEnd
  <2>4. n + 1 \in BQ!LineEnds
    BY <1>1, <1>4, <2>3, SameLineEnds
  <2>5. FindCRLF \in Nat
    BY <2>3 DEF IInv, TypeOK, LineEnds
  <2>6. ASSUME NEW j \in BQ!LineEnds
        PROVE  n + 1 <= j
    <3>1. j \in Nat /\ j - 1 + readIndex \in LineEnds
      BY SameLineEnds
    <3>2. FindCRLF <= j - 1 + readIndex
      BY <2>3, <3>1
    <3> QED
      BY <1>1, <1>2, <1>4, <2>5, <3>1, <3>2
  <2>7. (n + 1) - 1 = n /\ (n + 1) + 1 = n + 2
    BY <1>2
  <2>8. BQ!Remove((n + 1) + 1) /\ BQ!Is("line", BQ!First((n + 1) - 1))
    BY <1>2, <2>2, <2>7 DEF Taken, BQ!Is
  <2> QED
    BY <2>2, <2>4, <2>6, <2>8 DEF BQ!TakeLine
<1> QED
  BY <1>3, <1>4

-----------------------------------------------------------------------------
(* The theorems *)

LEMMA InitIInv == Init => IInv /\ BQ!Init
<1>1. ASSUME Init
      PROVE  IInv
  <2>1. buffer \in Seq(Cell) /\ Len(buffer) \in Nat
    <3>1. buffer = [k \in 1 .. InitialSize |-> Nul] /\ InitialSize \in Nat
      BY <1>1, SizeAssumption DEF Init
    <3> QED
      BY <3>1, NulsAreCells
  <2>2. <<>> \in Seq(Cell)
    BY EmptySeq
  <2> QED
    BY <1>1, <2>1, <2>2, SizeAssumption DEF Init, IInv, TypeOK, IndexOrder, Cell
<1>2. ASSUME Init
      PROVE  BQ!Init
  BY <1>2, SubSeqEmpty DEF Init, BQ!Init
<1> QED
  BY <1>1, <1>2

(* The operations that read or skip bytes, each as the stream has it. *)
LEMMA ReadStep ==
  ASSUME IInv, NEW len \in 0 .. GetReadableSize
  PROVE  /\ Read(len) => IInv' /\ BQ!Peek(len)
         /\ ReadPop(len) => IInv' /\ BQ!Pop(len)
         /\ UpdateReadIndex(len) => IInv' /\ BQ!Skip(len)
<1>1. GetReadableSize = writeIndex - readIndex /\ GetReadableSize \in Nat
  BY ReadableSize
<1>2. 0 \in 0 .. writeIndex - readIndex /\ readIndex + 0 = readIndex
  BY <1>1 DEF IInv, TypeOK
<1>3. ReadOut(len) = Unread(len)
  BY <1>1 DEF ReadOut
<1>4. Unread(0) = <<>>
  BY <1>2, UnreadProperties, EmptySeq
<1>5. len \in 0 .. writeIndex - readIndex
  BY <1>1
<1>6. ASSUME Read(len)
      PROVE  IInv' /\ BQ!Peek(len)
  <2>1. TakeUnread(len, 0) /\ op' = "peek"
    BY <1>2, <1>3, <1>6 DEF Read, Is, TakeUnread
  <2>2. IInv' /\ Taken(len, 0)
    BY <1>2, <1>5, <2>1, TakeStep
  <2>3. UNCHANGED Content
    BY <1>6 DEF Read, Content
  <2> QED
    BY <2>1, <2>2, <2>3 DEF Taken, BQ!Peek, BQ!Is, Content
<1>7. ASSUME ReadPop(len)
      PROVE  IInv' /\ BQ!Pop(len)
  <2>1. TakeUnread(len, len) /\ op' = "pop"
    BY <1>3, <1>7 DEF ReadPop, Is, TakeUnread
  <2>2. IInv' /\ Taken(len, len)
    BY <1>5, <2>1, TakeStep
  <2> QED
    BY <2>1, <2>2 DEF Taken, BQ!Pop, BQ!Is
<1>8. ASSUME UpdateReadIndex(len)
      PROVE  IInv' /\ BQ!Skip(len)
  <2>1. TakeUnread(0, len) /\ op' = "skip" /\ moved' = <<>>
    BY <1>4, <1>8 DEF UpdateReadIndex, Is, TakeUnread
  <2>2. IInv' /\ Taken(0, len)
    BY <1>2, <1>5, <2>1, TakeStep
  <2> QED
    BY <2>1, <2>2 DEF Taken, BQ!Skip, BQ!Is
<1> QED
  BY <1>6, <1>7, <1>8

LEMMA StepImplements ==
  ASSUME Overread = 0, IInv, [Next]_vars
  PROVE  IInv' /\ [GetLine \/ BQ!Next]_(BQ!vars)
<1> DEFINE Goal == IInv' /\ [GetLine \/ BQ!Next]_(BQ!vars)
<1>1. GetReadableSize \in Nat /\ GetReadableSize = writeIndex - readIndex
  BY ReadableSize
<1>2. Len(Content) = GetReadableSize
  BY <1>1, ContentProperties
<1>3. ASSUME NEW n \in 0 .. GetReadableSize, BQ!Peek(n) \/ BQ!Pop(n) \/ BQ!Skip(n)
      PROVE  BQ!Next
  BY <1>2, <1>3 DEF BQ!Next, Content
<1>4. ASSUME NEW data \in Data, Write(data) \/ WritePush(data)
      PROVE  Goal
  <2>1. CASE Write(data)
    <3>1. IInv' /\ BQ!Draft
      BY <2>1, WriteStep, WriteImplements DEF Write
    <3> QED
      BY <3>1 DEF BQ!Next
  <2>2. CASE WritePush(data)
    <3>1. IInv' /\ BQ!Put(data)
      BY <2>2, WriteStep, WriteImplements DEF WritePush
    <3> QED
      BY <3>1 DEF BQ!Next
  <2> QED
    BY <1>4, <2>1, <2>2
<1>5. ASSUME NEW len \in 0 .. GetReadableSize,
             Read(len) \/ ReadAsStringPop(len) \/ UpdateReadIndex(len) \/ ReadPop(len)
      PROVE  Goal
  <2>1. IInv' /\ (BQ!Peek(len) \/ BQ!Pop(len) \/ BQ!Skip(len))
    BY <1>5, ReadStep DEF ReadAsStringPop
  <2> QED
    BY <1>3, <2>1
<1>6. CASE GetLine
  BY <1>6, HalfLineStep
<1>7. CASE GetLinePop
  <2>1. IInv' /\ BQ!TakeLine
    BY <1>7, LineStep
  <2> QED
    BY <2>1 DEF BQ!Next
<1>8. CASE Clear
  <2>1. IInv'
    BY <1>8, EmptySeq, LenProperties, SizeAssumption
       DEF Clear, Is, IInv, TypeOK, IndexOrder, Cell
  <2>2. BQ!Clear
    BY <1>8, SubSeqEmpty DEF Clear, Is, BQ!Clear, BQ!Is
  <2> QED
    BY <2>1, <2>2 DEF BQ!Next
<1>9. CASE UNCHANGED vars
  BY <1>9 DEF vars, IInv, TypeOK, IndexOrder, BQ!vars
<1>10. GetReadableSize + Overread = GetReadableSize
  BY <1>1
<1> QED
  BY <1>4, <1>5, <1>6, <1>7, <1>8, <1>9, <1>10 DEF Next

(***************************************************************************)
(* The inductive invariant holds as long as no reader asks ReadPop for     *)
(* more than is readable.                                                  *)
(***************************************************************************)
THEOREM Invariance ==
  ASSUME Overread = 0
  PROVE  Spec => []IInv
<1>1. IInv /\ [Next]_vars => IInv'
  BY StepImplements
<1> QED
  BY <1>1, InitIInv, PTL DEF Spec

(***************************************************************************)
(* The variables have their types: no index wraps below 0.                 *)
(***************************************************************************)
THEOREM TypeCorrect ==
  ASSUME Overread = 0
  PROVE  Spec => []TypeOK
<1>1. IInv => TypeOK
  BY DEF IInv
<1>2. Spec => []IInv
  BY Invariance
<1> QED
  BY <1>1, <1>2, PTL

(***************************************************************************)
(* The unread bytes stay inside the vector, so that no operation of Buffer *)
(* copies from or to memory outside it.                                    *)
(***************************************************************************)
THEOREM IndicesStayInside ==
  ASSUME Overread = 0
  PROVE  Spec => []IndexOrder
<1>1. IInv => IndexOrder
  BY DEF IInv
<1>2. Spec => []IInv
  BY Invariance
<1> QED
  BY <1>1, <1>2, PTL

(***************************************************************************)
(* The number of readable bytes is at most the size of the vector.  The    *)
(* hypothesis is needed: with Overread = 1 a ReadPop violates it.          *)
(***************************************************************************)
THEOREM ReadableBytesExist ==
  ASSUME Overread = 0
  PROVE  Spec => []ReadableIsThere
<1>1. IInv => ReadableIsThere
  BY ReadableSize, LenProperties DEF IInv, TypeOK, IndexOrder, ReadableIsThere
<1>2. Spec => []IInv
  BY Invariance
<1> QED
  BY <1>1, <1>2, PTL

(***************************************************************************)
(* The Buffer is a stream of bytes: what is written and pushed comes out   *)
(* in order and unchanged, each read removes what it returns or nothing,   *)
(* and GetLinePop takes whole lines, across moves to the front and         *)
(* resizes.  GetLine on its own is excepted.                               *)
(***************************************************************************)
THEOREM Refinement ==
  ASSUME Overread = 0
  PROVE  Spec => ImplementsByteQueue
<1>1. IInv /\ [Next]_vars => [GetLine \/ BQ!Next]_(BQ!vars)
  BY StepImplements
<1>2. Spec => []IInv
  BY Invariance
<1> QED
  BY <1>1, <1>2, InitIInv, PTL DEF Spec, ImplementsByteQueue

=============================================================================
