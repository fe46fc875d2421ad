-------------------------------- MODULE Buffer --------------------------------
(***************************************************************************)
(* The Buffer of Server.hpp: a vector of bytes and two indices, between    *)
(* which the unread bytes lie.  A write moves the unread bytes to the      *)
(* front or resizes the vector when there is no room behind them.          *)
(* Positions count from 0 as in the code: byte i is buffer[i + 1].         *)
(***************************************************************************)
EXTENDS Integers, SequencesExt

CONSTANTS
  Byte,         \* what callers write
  CR, LF,       \* the bytes \r and \n
  Nul,          \* what resize fills the vector with
  InitialSize,  \* the size given to the constructor
  Word,         \* uint64_t counts modulo Word
  MaxSize,      \* bound: writes end below this position
  MaxWrite,     \* bound: bytes written at once
  Overread      \* how far ReadPop is asked for more than is readable

ASSUME LineAssumption == {CR, LF} \subseteq Byte /\ CR # LF /\ Nul \notin Byte
ASSUME SizeAssumption ==
  /\ InitialSize \in Nat /\ MaxSize \in Nat /\ MaxWrite \in Nat /\ Overread \in Nat
  /\ Word \in Nat /\ Word > InitialSize + MaxSize + Overread

VARIABLES
  buffer,       \* _buffer
  readIndex,    \* _readIndex
  writeIndex,   \* _writeIndex
  op,           \* the last operation, a history variable
  moved         \* the bytes it wrote or returned, a history variable

vars == <<buffer, readIndex, writeIndex, op, moved>>

Data == SeqOf(Byte, MaxWrite)

TypeOK ==
  /\ buffer \in Seq(Byte \cup {Nul})
  /\ readIndex \in Nat
  /\ writeIndex \in Nat
  /\ op \in {"none", "put", "draft", "peek", "pop", "skip", "line", "half", "clear"}
  /\ moved \in Seq(Byte \cup {Nul})

Init ==
  /\ buffer = [i \in 1 .. InitialSize |-> Nul]
  /\ readIndex = 0
  /\ writeIndex = 0
  /\ op = "none"
  /\ moved = <<>>

-----------------------------------------------------------------------------
Is(name, bytes) == op' = name /\ moved' = bytes

GetTailRestSize == Len(buffer) - writeIndex
GetReadableSize == (writeIndex - readIndex) % Word
GetHeadRestSize == readIndex

(* The first n unread bytes. *)
Unread(n) == SubSeq(buffer, readIndex + 1, readIndex + n)

(* s with the bytes from position i on replaced by data (std::copy). *)
Overlay(s, i, data) ==
  [k \in 1 .. Len(s) |-> IF k \in i + 1 .. i + Len(data) THEN data[k - i] ELSE s[k]]

(* Mutant: the indices are moved to the front without the bytes. *)
ExpansionWithoutCopy(len) ==
  CASE len <= GetTailRestSize ->
         [bytes |-> buffer, read |-> readIndex, write |-> writeIndex]
    [] len > GetTailRestSize /\ len <= GetHeadRestSize + GetTailRestSize ->
         [bytes |-> buffer, read |-> 0, write |-> writeIndex - readIndex]
    [] OTHER ->
         [bytes |-> buffer \o [k \in 1 .. writeIndex + len - Len(buffer) |-> Nul],
          read |-> readIndex, write |-> writeIndex]

(* Mutant: the vector is resized by the bytes written only, and by one too *)
(* few.                                                                    *)
ExpansionTooSmall(len) ==
  CASE len <= GetTailRestSize ->
         [bytes |-> buffer, read |-> readIndex, write |-> writeIndex]
    [] len > GetTailRestSize /\ len <= GetHeadRestSize + GetTailRestSize ->
         [bytes |-> Overlay(buffer, 0, Unread(GetReadableSize)),
          read |-> 0, write |-> writeIndex - readIndex]
    [] OTHER ->
         [bytes |-> buffer \o [k \in 1 .. len - 1 |-> Nul],
          read |-> readIndex, write |-> writeIndex]

(* The vector and the indices after ExpansionWriteSize. *)
ExpansionWriteSize(len) ==
  CASE len <= GetTailRestSize ->
         [bytes |-> buffer, read |-> readIndex, write |-> writeIndex]
    [] len > GetTailRestSize /\ len <= GetHeadRestSize + GetTailRestSize ->
         [bytes |-> Overlay(buffer, 0, Unread(GetReadableSize)),
          read |-> 0, write |-> writeIndex - readIndex]
    [] OTHER ->
         [bytes |-> buffer \o [k \in 1 .. writeIndex + len - Len(buffer) |-> Nul],
          read |-> readIndex, write |-> writeIndex]

(* Write leaves the bytes behind the write index; only WritePush moves it. *)
WriteAnd(data, push) ==
  LET room == ExpansionWriteSize(Len(data)) IN
    /\ writeIndex + Len(data) <= MaxSize
    /\ buffer' = Overlay(room.bytes, room.write, data)
    /\ readIndex' = room.read
    /\ writeIndex' = IF push THEN room.write + Len(data) ELSE room.write
    /\ IF push THEN Is("put", data) ELSE Is("draft", <<>>)

Write(data) == WriteAnd(data, FALSE)

WritePush(data) == WriteAnd(data, TRUE)

(* Read copies len bytes out, or none when there are fewer. *)
ReadOut(len) == IF len <= GetReadableSize THEN Unread(len) ELSE <<>>

Read(len) ==
  /\ Is("peek", ReadOut(len))
  /\ UNCHANGED <<buffer, readIndex, writeIndex>>

ReadPop(len) ==
  /\ Is("pop", ReadOut(len))
  /\ readIndex' = readIndex + len
  /\ UNCHANGED <<buffer, writeIndex>>

(* ReadAsString and ReadAsStringPop assert what Read only tests. *)
ReadAsStringPop(len) ==
  /\ len <= GetReadableSize
  /\ ReadPop(len)

(* Mutant: the index moves the wrong way. *)
UpdateReadIndexBack(len) ==
  /\ len <= GetReadableSize
  /\ readIndex' = readIndex - len
  /\ Is("skip", <<>>)
  /\ UNCHANGED <<buffer, writeIndex>>

(* HandleWrite removes the bytes that the socket has taken. *)
UpdateReadIndex(len) ==
  /\ len <= GetReadableSize
  /\ readIndex' = readIndex + len
  /\ Is("skip", <<>>)
  /\ UNCHANGED <<buffer, writeIndex>>

(* The positions at which FindCRLF can stop; it stops at the first. *)
LineEnds ==
  {i \in readIndex .. writeIndex - 2 : buffer[i + 1] = CR /\ buffer[i + 2] = LF}

FindCRLF == CHOOSE i \in LineEnds : \A j \in LineEnds : i <= j

(* What both return: the first line without its end, or "". *)
Line == IF LineEnds = {} THEN <<>> ELSE Unread(FindCRLF - readIndex)

(* GetLine removes two bytes at the front, not those behind the line: half *)
(* of what GetLinePop does, its only caller.                               *)
GetLine ==
  /\ Is("half", Line)
  /\ readIndex' = IF LineEnds = {} THEN readIndex ELSE readIndex + 2
  /\ UNCHANGED <<buffer, writeIndex>>

(* Mutant: GetLine is taken to have removed the line and its end. *)
GetLinePopTwo ==
  /\ Is("line", Line)
  /\ readIndex' = IF LineEnds = {} THEN readIndex ELSE readIndex + 2
  /\ UNCHANGED <<buffer, writeIndex>>

(* GetLinePop removes as many again as the line has. *)
GetLinePop ==
  /\ Is("line", Line)
  /\ readIndex' = IF LineEnds = {} THEN readIndex ELSE readIndex + 2 + Len(Line)
  /\ UNCHANGED <<buffer, writeIndex>>

Clear ==
  /\ readIndex' = 0
  /\ writeIndex' = 0
  /\ Is("clear", <<>>)
  /\ UNCHANGED buffer

-----------------------------------------------------------------------------
Next ==
  \/ \E data \in Data : Write(data) \/ WritePush(data)
  \/ \E len \in 0 .. GetReadableSize : Read(len) \/ ReadAsStringPop(len) \/ UpdateReadIndex(len)
  \/ \E len \in 0 .. GetReadableSize + Overread : ReadPop(len)
  \/ GetLine
  \/ GetLinePop
  \/ Clear

Spec == Init /\ [][Next]_vars

-----------------------------------------------------------------------------
(* Properties *)

(***************************************************************************)
(* The unread bytes lie inside the vector, so no operation copies from or  *)
(* to memory outside it.                                                   *)
(***************************************************************************)
IndexOrder == readIndex <= writeIndex /\ writeIndex <= Len(buffer)

BQ == INSTANCE ByteQueue WITH
        content <- SubSeq(buffer, readIndex + 1, writeIndex)

(***************************************************************************)
(* Whatever the moves to the front and the resizes, bytes come out as they *)
(* went in: every read returns the oldest ones and removes those it        *)
(* returned or none, GetLinePop takes the first line and its end, and a    *)
(* Write that is not pushed disturbs no unread byte.  GetLine on its own   *)
(* breaks the stream (it removes the first two bytes of the line, or of    *)
(* its end); it is excepted, and nothing calls it but GetLinePop.          *)
(***************************************************************************)
ImplementsByteQueue == BQ!Init /\ [][GetLine \/ BQ!Next]_(BQ!vars)

(***************************************************************************)
(* GetReadableSize is the number of unread bytes of the vector, the        *)
(* condition under which Read copies them ("get the readable size of the   *)
(* buffer", Server.hpp:103).  It is violated when ReadPop is asked for     *)
(* more than there is: Read refuses and ReadPop advances all the same.     *)
(***************************************************************************)
ReadableIsThere == GetReadableSize <= Len(buffer)

=============================================================================
