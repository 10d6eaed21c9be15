-------------------------------- MODULE ByteFile --------------------------------
(***************************************************************************)
(* What IoInterfaceFile promises its caller: one sequence of bytes with a  *)
(* position to read from and one to write to.  It says nothing of blocks,  *)
(* buffers, or where the stream underneath stands.  Lose is what the class *)
(* does not promise: calls after which it no longer knows its place in the *)
(* file, until the file is opened again.                                   *)
(***************************************************************************)
EXTENDS Bytes

CONSTANTS
  Data,    \* the byte arrays callers give
  Sizes,   \* the sizes and positions callers give
  Lost     \* the content when the class has lost its place

VARIABLES
  content,   \* the bytes of the file, or Lost
  rpos,      \* where the next read starts
  wpos       \* where the next write starts

absVars == <<content, rpos, wpos>>
--------------------------------------------------------------------------------
Write(d) ==
  /\ content' = Overlay(content, wpos, d)
  /\ wpos' = wpos + Len(d)
  /\ UNCHANGED rpos

AppendAll(d) ==
  /\ content' = content \o d
  /\ wpos' = Len(content')
  /\ UNCHANGED rpos

Insert(p, d) ==
  /\ p <= Len(content)
  /\ content' = Slice(content, 0, p) \o d \o From(content, p)
  /\ wpos' = p + Len(d)
  /\ UNCHANGED rpos

\* Everything from p on is deleted.
Cut(p) ==
  /\ content' = Resized(content, p)
  /\ wpos' = p
  /\ UNCHANGED rpos

Reserve(n) ==
  /\ n > Len(content)
  /\ content' = Resized(content, n)
  /\ UNCHANGED <<rpos, wpos>>

\* Reading, searching, and the positions the caller sets.
Move == UNCHANGED content /\ (UNCHANGED rpos \/ UNCHANGED wpos)

Reopen(b) == content' = b /\ rpos' = 0 /\ wpos' = 0

Lose == content' = Lost

Next ==
  IF content = Lost THEN Lose \/ Reopen(content')
  ELSE \/ \E d \in Data : Write(d) \/ AppendAll(d) \/ \E p \in Sizes : Insert(p, d)
       \/ \E n \in Sizes : Cut(n) \/ Reserve(n)
       \/ Move \/ Reopen(content) \/ Reopen(<<>>) \/ Lose

AbsSpec == [][Next]_absVars
================================================================================
