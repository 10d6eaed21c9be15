----------------------------- MODULE FileInterface -----------------------------
(***************************************************************************)
(* IoInterfaceFile over XsFile over a stdio stream.  One stream serves a   *)
(* read position and a write position: m_reading says whose place it is    *)
(* at, and gotoRead and gotoWrite move it.  insertData and deleteData copy *)
(* the rest of the file block by block.  Calls of an object that has no    *)
(* file open, and mallocs that fail, only return an error and are left out.*)
(***************************************************************************)
EXTENDS Bytes

CONSTANTS
  Data,      \* the byte arrays callers give, the empty one among them
  Sizes,     \* the positions and lengths callers give
  Files,     \* what the file may hold when it is found
  Block,     \* the 512 of find, insertData and deleteData
  MaxSize    \* bound: no call lets the file grow beyond this

ASSUME FileAssumption ==
  /\ <<>> \in Data /\ Data \subseteq Seq(Byte) /\ Files \subseteq Seq(Byte)
  /\ Sizes \subseteq Nat
  /\ Block \in Nat \ {0} /\ MaxSize \in Nat

VARIABLES
  access,    \* of the file on disk: "none", "r", or "rw"
  open,      \* m_handle # NULL
  st,        \* the stream: the file's bytes, where it stands, how many bytes
             \* written before that are not yet on disk, the end-of-file flag
  m_readPos, m_writePos, m_fileSize, m_reading, m_readOnly, m_lastResult,
  out,       \* the data and position the last call gave its caller
  strayed    \* history: a call since open has left the class out of its place

vars == <<access, open, st, m_readPos, m_writePos, m_fileSize, m_reading,
          m_readOnly, m_lastResult, out, strayed>>

Nothing == [data |-> <<>>, from |-> 0]
Fresh(bytes) == [bytes |-> bytes, pos |-> 0, pending |-> 0, eof |-> FALSE]

Init ==
  /\ \/ access = "none" /\ st = Fresh(<<>>)
     \/ access \in {"r", "rw"} /\ \E f \in Files : st = Fresh(f)
  /\ open = FALSE
  /\ m_readPos = 0
  /\ m_writePos = 0
  /\ m_fileSize = 0
  /\ m_reading = TRUE
  /\ m_readOnly = FALSE
  /\ m_lastResult = "OK"
  /\ out = Nothing
  /\ strayed = FALSE
--------------------------------------------------------------------------------
(* XsFile: one call of stdio each. *)

\* fseeko writes the buffer out and clears the end-of-file flag.
Seek(s, p) == [s EXCEPT !.pos = p, !.pending = 0, !.eof = FALSE]
SeekEnd(s) == Seek(s, Len(s.bytes))
Flush(s)   == [s EXCEPT !.pending = 0]

Got(s, n)  == Slice(s.bytes, s.pos, n)
Read(s, n) == [s EXCEPT !.pos = @ + Len(Got(s, n)), !.eof = @ \/ Len(Got(s, n)) < n]

Write(s, d) ==
  [s EXCEPT !.bytes = Overlay(@, s.pos, d), !.pos = @ + Len(d), !.pending = @ + Len(d)]

\* ftruncate acts on the disk; what the buffer holds goes there afterwards.
Truncate(s, n) ==
  IF s.pending > 0 /\ s.pos > n
  THEN [s EXCEPT !.bytes = [i \in 1 .. s.pos |->
          IF i <= n \/ i > s.pos - s.pending THEN s.bytes[i] ELSE 0]]
  ELSE [s EXCEPT !.bytes = Resized(@, n)]
--------------------------------------------------------------------------------
(* The helpers of the class. *)

\* mutated: the stream stays where the last read has put it
GoneNowhere == Flush(st)

\* gotoRead and gotoWrite: the stream behind them.
GoneRead  == IF m_reading THEN st ELSE Seek(Flush(st), m_readPos)
GoneWrite == IF m_reading THEN Seek(Flush(st), m_writePos) ELSE st

\* deleteData: a block is read at rPos, written at wPos, the next one sought.
DeleteBlock(c) ==
  LET n == Least(Block, c.left) IN
  [s |-> Seek(Write(Seek(c.s, c.wPos), Got(c.s, n)), c.rPos + n),
   rPos |-> c.rPos + n, wPos |-> c.wPos + n, left |-> c.left - n]

\* mutated: a block is written before the one behind it has been read
InsertAtOnce(c, size) ==
  LET n == Least(size, c.left)
      w == Seek(Write(Seek(c.s, c.wPos), c.held), c.rPos)
  IN [s |-> Seek(w, c.rPos + n), rPos |-> c.rPos + n, wPos |-> c.wPos + Len(c.held),
      held |-> Got(w, n), left |-> c.left - n]

\* insertData: a block is held back until the one behind it has been read.
InsertBlock(c, size) ==
  LET n == Least(size, c.left) IN
  [s |-> Seek(Write(Seek(c.s, c.wPos), c.held), c.rPos + n), rPos |-> c.rPos + n,
   wPos |-> c.wPos + Len(c.held), held |-> Got(c.s, n), left |-> c.left - n]

\* The loops of both, while anything is left: each time round takes some of it.
DeleteLoop(c) ==
  LET after[k \in 0 .. c.left] ==
        IF k = 0 THEN c
        ELSE IF after[k - 1].left = 0 THEN after[k - 1] ELSE DeleteBlock(after[k - 1])
  IN after[c.left]

InsertLoop(c, size) ==
  LET after[k \in 0 .. c.left] ==
        IF k = 0 THEN c
        ELSE IF after[k - 1].left = 0 THEN after[k - 1] ELSE InsertBlock(after[k - 1], size)
  IN after[c.left]

\* One byte of find: the byte a match fails at is not tried as a new start.
Match(needle, c, byte) ==
  IF c.found = Len(needle) THEN c
  ELSE [at |-> c.at + 1, found |-> IF byte = needle[c.found + 1] THEN c.found + 1 ELSE 0]

\* How far find gets in the bytes b, and how much of the needle it has then.
Matched(needle, b) ==
  LET after[k \in 0 .. Len(b)] ==
        IF k = 0 THEN [at |-> 0, found |-> 0] ELSE Match(needle, after[k - 1], b[k])
  IN after[Len(b)]
--------------------------------------------------------------------------------
Fits(n) == n <= MaxSize

\* Bound: what an object does that has strayed is not followed up; it is closed.
Usable   == open /\ ~strayed
Writable == Usable /\ ~m_readOnly

Result(res, o) == m_lastResult' = res /\ out' = o

Return(res) == Result(res, Nothing)

\* A call that is refused, or has nothing to do.
Refuse(res) ==
  /\ Return(res)
  /\ UNCHANGED <<access, open, st, m_readPos, m_writePos, m_fileSize, m_reading, m_readOnly, strayed>>

\* What no call between open and close changes.
Stays == UNCHANGED <<access, open, m_readOnly>>

\* What calls that move one position leave alone.
OnlyPlace == UNCHANGED <<access, open, m_readOnly, m_fileSize, strayed>>

Reset == m_readPos' = 0 /\ m_writePos' = 0 /\ m_reading' = TRUE

AlreadyOpen == Usable /\ Refuse("ALREADYOPEN")

\* The last attempt asks for "r+b", so a file that can only be read stays closed.
Open(createNew, readOnly) ==
  /\ ~open
  /\ LET first   == access = "rw" \/ (access = "r" /\ readOnly)
         created == ~first /\ createNew /\ access = "none"
     IN IF first \/ created
        THEN /\ open' = TRUE
             /\ access' = IF created THEN "rw" ELSE access
             /\ m_readOnly' = readOnly
             /\ LET bytes == IF created THEN <<>> ELSE st.bytes
                IN st' = Fresh(bytes) /\ m_fileSize' = Len(bytes)
             /\ Reset
             /\ Return("OK")
             /\ strayed' = FALSE
        ELSE /\ m_readOnly' = (readOnly \/ ~createNew)
             /\ Return("INPUTCANNOTBEOPENED")
             /\ UNCHANGED <<access, open, st, m_readPos, m_writePos, m_fileSize, m_reading, strayed>>

Create ==
  /\ ~open
  /\ IF access = "r" THEN Refuse("OUTPUTCANNOTBEOPENED")
     ELSE /\ open' = TRUE
          /\ access' = "rw"
          /\ st' = Fresh(<<>>)
          /\ m_fileSize' = 0
          /\ m_readOnly' = FALSE
          /\ Reset
          /\ Return("OK")
          /\ strayed' = FALSE

Erased == ~m_readOnly

\* close and closeAndDelete.
Close(delete) ==
  /\ open
  /\ open' = FALSE
  /\ LET gone == delete /\ Erased
     IN /\ access' = IF gone THEN "none" ELSE access
        /\ st' = Fresh(IF gone THEN <<>> ELSE st.bytes)
  /\ Return(IF delete /\ m_readOnly THEN "READONLY" ELSE "OK")
  /\ m_fileSize' = 0
  /\ m_readOnly' = FALSE
  /\ Reset
  /\ UNCHANGED strayed

\* Every call that would change a file opened for reading.
ReadOnly == Usable /\ m_readOnly /\ Refuse("READONLY")

FlushData ==
  /\ Usable
  /\ st' = Flush(st)
  /\ Return("OK")
  /\ OnlyPlace /\ UNCHANGED <<m_readPos, m_writePos, m_reading>>

\* At the end of the file the data is cleared and m_readPos stays where it was.
ReadData(n) ==
  /\ Usable /\ n > 0
  /\ LET r == Read(GoneRead, n) IN
     /\ st' = r
     /\ IF r.eof THEN Return("ENDOFFILE") /\ UNCHANGED m_readPos
        ELSE /\ Result("OK", [data |-> Got(GoneRead, n), from |-> m_readPos])
             /\ m_readPos' = m_readPos + n
  /\ m_reading' = TRUE
  /\ OnlyPlace /\ UNCHANGED m_writePos

\* The loop never reads again: unless it is the terminator, its one byte is
\* stored until the array is full, and m_readPos moves with each copy.
ReadTerminatedData(n, terminator) ==
  /\ Usable /\ n > 0
  /\ LET r == Read(GoneRead, 1)
         c == Got(GoneRead, 1)
         k == IF r.eof THEN 0 ELSE IF c[1] = terminator THEN 1 ELSE n
     IN /\ st' = r
        /\ m_readPos' = m_readPos + k
        /\ Result(IF r.eof THEN "ENDOFFILE" ELSE "OK",
                  [data |-> [j \in 1 .. k |-> c[1]], from |-> m_readPos])
        /\ strayed' = (k > 1)
  /\ m_reading' = TRUE
  /\ Stays /\ UNCHANGED <<m_writePos, m_fileSize>>

\* What was not found leaves both places at the end of the file.
Find(needle) ==
  /\ Usable /\ needle # <<>>
  /\ LET c  == Matched(needle, From(GoneRead.bytes, GoneRead.pos))
         to == m_readPos + c.at - (IF c.found = Len(needle) THEN Len(needle) ELSE 0)
     IN /\ m_readPos' = to
        /\ IF c.found = Len(needle)
           THEN st' = Seek(GoneRead, to) /\ Result("OK", [data |-> needle, from |-> to])
           ELSE /\ st' = [GoneRead EXCEPT !.pos = @ + c.at, !.eof = TRUE]
                /\ Return("ENDOFFILE")
  /\ m_reading' = TRUE
  /\ OnlyPlace /\ UNCHANGED m_writePos

SetReadPosition(p) ==
  /\ Usable
  /\ m_readPos' = p
  /\ st' = IF m_reading /\ p # m_readPos THEN Seek(st, p) ELSE st
  /\ Return("OK")
  /\ OnlyPlace /\ UNCHANGED <<m_writePos, m_reading>>

SetWritePosition(p) ==
  /\ Writable
  /\ m_writePos' = p
  /\ st' = IF ~m_reading /\ p # m_writePos THEN Seek(st, p) ELSE st
  /\ Return("OK")
  /\ OnlyPlace /\ UNCHANGED <<m_readPos, m_reading>>

\* setWritePosition(-1).
SetWriteEnd ==
  /\ Writable
  /\ st' = SeekEnd(st)
  /\ m_writePos' = Len(st.bytes)
  /\ m_reading' = FALSE
  /\ Return("OK")
  /\ OnlyPlace /\ UNCHANGED m_readPos

\* fwrite takes k of the bytes; when it takes fewer, it sets errno.
WriteData(d, k) ==
  /\ Writable /\ d # <<>> /\ k \in 0 .. Len(d) /\ Fits(GoneWrite.pos + k)
  /\ st' = Write(GoneWrite, SubSeq(d, 1, k))
  /\ m_reading' = FALSE
  /\ \/ /\ k = Len(d)
        /\ Return("OK")
        /\ m_writePos' = m_writePos + k
        /\ m_fileSize' = Greatest(m_fileSize, m_writePos + k)
        /\ UNCHANGED strayed
     \/ /\ k < Len(d)
        /\ \E res \in {"INSUFFICIENTSPACE", "OUTOFMEMORY", "ERROR"} : Return(res)
        /\ strayed' = (k > 0)
        /\ UNCHANGED <<m_writePos, m_fileSize>>
  /\ Stays /\ UNCHANGED m_readPos

AppendData(d) ==
  /\ Writable /\ d # <<>> /\ Fits(Greatest(st.pos, Len(st.bytes)) + Len(d))
  /\ LET at == IF m_reading \/ m_writePos # m_fileSize THEN SeekEnd(st) ELSE st
     IN /\ st' = Write(at, d)
        /\ m_writePos' = st'.pos
        /\ m_fileSize' = m_writePos'
  /\ m_reading' = FALSE
  /\ Return("OK")
  /\ Stays /\ UNCHANGED <<m_readPos, strayed>>

\* Empty data returns between a seek and the copy.
InsertData(start, d) ==
  /\ Writable /\ Fits(Greatest(start, Len(st.bytes)) + Len(d))
  /\ LET s    == Seek(GoneWrite, start)
         size == Greatest(Len(d), Block)
         rest == Greatest(m_fileSize - start, 0)
         n    == Least(size, rest)
         c    == InsertLoop([s |-> Seek(s, start + n), rPos |-> start + n, wPos |-> start + Len(d),
                             held |-> Got(s, n), left |-> rest - n], size)
     IN IF d = <<>> THEN st' = s /\ UNCHANGED <<m_writePos, m_fileSize>>
        ELSE /\ st' = Write(Seek(Write(Seek(c.s, c.wPos), c.held), start), d)
             /\ m_writePos' = start + Len(d)
             /\ m_fileSize' = m_fileSize + Len(d)
  /\ strayed' = IF d = <<>> THEN start # m_writePos ELSE start > m_fileSize
  /\ m_reading' = FALSE
  /\ Return("OK")
  /\ Stays /\ UNCHANGED m_readPos

\* Behind a copy the stream is at the end, m_writePos at start; the buffer is
\* written out by the seek behind the truncation when nothing is copied.
DeleteData(start, length) ==
  /\ Writable /\ Fits(start)
  /\ LET rest == m_fileSize - (start + length)
         c    == DeleteLoop([s |-> IF rest > 0 THEN Seek(GoneWrite, start + length) ELSE GoneWrite,
                             rPos |-> start + length, wPos |-> start, left |-> Greatest(rest, 0)])
     IN /\ m_fileSize' = IF rest > 0 THEN m_fileSize - length ELSE start
        /\ st' = Seek(Truncate(c.s, m_fileSize'), c.wPos)
        /\ strayed' = (rest > 0 \/ (GoneWrite.pending > 0 /\ GoneWrite.pos > start))
  /\ m_writePos' = start
  /\ m_reading' = FALSE
  /\ Return("OK")
  /\ Stays /\ UNCHANGED m_readPos

Short(n) == n > m_fileSize

\* A read-only file, or one large enough, returns without touching m_lastResult.
\* Behind an end of file the stream is not where m_readPos says, and there is now
\* something to be read there.
Reserve(n) ==
  /\ Writable /\ Short(n) /\ Fits(n)
  /\ st' = Truncate(st, n)
  /\ m_fileSize' = n
  /\ out' = Nothing
  /\ strayed' = st.eof
  /\ Stays /\ UNCHANGED <<m_readPos, m_writePos, m_reading, m_lastResult>>
--------------------------------------------------------------------------------
Next ==
  \/ \E c, r \in BOOLEAN : Open(c, r)
  \/ \E delete \in BOOLEAN : Close(delete)
  \/ AlreadyOpen \/ ReadOnly \/ Create \/ FlushData \/ SetWriteEnd
  \/ \E n \in Sizes : ReadData(n) \/ SetReadPosition(n) \/ SetWritePosition(n) \/ Reserve(n)
  \/ \E n \in Sizes, t \in 0 .. 1 : ReadTerminatedData(n, t)
  \/ \E d \in Data : Find(d) \/ AppendData(d) \/ \E k \in 0 .. Len(d) : WriteData(d, k)
  \/ \E n \in Sizes, d \in Data : InsertData(n, d)
  \/ \E n, l \in Sizes : DeleteData(n, l)

Spec == Init /\ [][Next]_vars
--------------------------------------------------------------------------------
(* The object knows its file, as long as no call has made it stray: the     *)
(* size it keeps is the file's, the stream is at the position of the side   *)
(* it serves, and what a read or a search hands out is what the file holds  *)
(* at the position the object gives for it.  Behind an end of file the      *)
(* stream may be further on, but then nothing is read until it has been     *)
(* moved.                                                                   *)
InStep ==
  Usable =>
    /\ m_fileSize = Len(st.bytes)
    /\ IF m_reading THEN st.eof \/ st.pos = m_readPos ELSE st.pos = m_writePos
    /\ out.data = Slice(st.bytes, out.from, Len(out.data))

(* IoInterfaceFile implements the file of ByteFile: block copies, buffering *)
(* and the one stream do not show.                                          *)
B == INSTANCE ByteFile WITH
       content <- IF strayed THEN <<-1>> ELSE st.bytes,
       rpos <- IF strayed THEN 0 ELSE m_readPos,
       wpos <- IF strayed THEN 0 ELSE m_writePos,
       Lost <- <<-1>>

ImplementsByteFile == B!AbsSpec
================================================================================
