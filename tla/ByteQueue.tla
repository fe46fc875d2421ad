------------------------------ MODULE ByteQueue ------------------------------
(***************************************************************************)
(* What a Buffer promises: a stream of bytes.  Bytes are put at one end    *)
(* and leave at the other, in the order they came.  An operation that      *)
(* copies bytes out removes exactly what it returned, or nothing at all;   *)
(* one that returns nothing may skip bytes; the one that takes a line      *)
(* returns it without its end and removes both.  No storage, index or      *)
(* growth is visible here.                                                 *)
(***************************************************************************)
EXTENDS Naturals, Sequences

CONSTANTS
  Data,       \* what can be written at once
  CR, LF      \* the two bytes that end a line

VARIABLES
  content,    \* bytes put and not removed yet
  op,         \* the last operation
  moved       \* the bytes it put, or those it returned

vars == <<content, op, moved>>

Init == content = <<>> /\ op = "none" /\ moved = <<>>

First(n) == SubSeq(content, 1, n)
Remove(n) == content' = SubSeq(content, n + 1, Len(content))
Is(name, bytes) == op' = name /\ moved' = bytes

Put(data) == content' = content \o data /\ Is("put", data)

(* Bytes that are written and not put are not in the stream. *)
Draft == UNCHANGED content /\ Is("draft", <<>>)

Peek(n) == UNCHANGED content /\ Is("peek", First(n))

Pop(n) == Remove(n) /\ Is("pop", First(n))

Skip(n) == Remove(n) /\ Is("skip", <<>>)

LineEnds == {i \in 1 .. Len(content) - 1 : content[i] = CR /\ content[i + 1] = LF}

(* The bytes before the first line end are returned, and removed together  *)
(* with it.  Without a line end nothing is.                                *)
TakeLine ==
  \/ /\ LineEnds = {}
     /\ UNCHANGED content /\ Is("line", <<>>)
  \/ \E i \in LineEnds :
       /\ \A j \in LineEnds : i <= j
       /\ Remove(i + 1) /\ Is("line", First(i - 1))

Clear == content' = <<>> /\ Is("clear", <<>>)

Next ==
  \/ \E data \in Data : Put(data)
  \/ \E n \in 0 .. Len(content) : Peek(n) \/ Pop(n) \/ Skip(n)
  \/ Draft \/ TakeLine \/ Clear

Spec == Init /\ [][Next]_vars

=============================================================================
