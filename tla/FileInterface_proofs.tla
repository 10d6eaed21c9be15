-------------------------- MODULE FileInterface_proofs --------------------------
(***************************************************************************)
(* IoInterfaceFile stays in step with its stream and implements ByteFile,  *)
(* for files of any length, blocks of any size and every order of calls.   *)
(***************************************************************************)
EXTENDS FileInterface, SequenceTheorems, WellFoundedInduction, TLAPS

(* What the operators on bytes yield.                                       *)
LEMMA OverlayIs ==
  ASSUME NEW b \in Seq(Byte), NEW p \in Nat, NEW d \in Seq(Byte)
  PROVE  /\ Overlay(b, p, d) \in Seq(Byte)
         /\ Len(Overlay(b, p, d)) = IF d = <<>> THEN Len(b) ELSE Greatest(Len(b), p + Len(d))
         /\ \A i \in 1 .. Len(Overlay(b, p, d)) :
              Overlay(b, p, d)[i] = IF i \in p + 1 .. p + Len(d) THEN d[i - p]
                                    ELSE IF i <= Len(b) THEN b[i] ELSE 0
<1>1. Len(b) \in Nat /\ Len(d) \in Nat /\ DOMAIN b = 1 .. Len(b) /\ 0 \in Byte
  BY DEF Byte
<1>2. CASE d = <<>>
  <2>1. Overlay(b, p, d) = b /\ Len(d) = 0
    BY <1>2 DEF Overlay
  <2>2. QED
    BY <1>1, <1>2, <2>1
<1>3. CASE d # <<>>
  <2> DEFINE n == Greatest(Len(b), p + Len(d))
             at(i) == IF i \in p + 1 .. p + Len(d) THEN d[i - p] ELSE IF i <= Len(b) THEN b[i] ELSE 0
  <2>1. n \in Nat
    BY <1>1 DEF Greatest
  <2>2. \A i \in 1 .. n : at(i) \in Byte
    <3>1. \A i \in 1 .. n : i \in p + 1 .. p + Len(d) => i - p \in 1 .. Len(d)
      BY <1>1
    <3>2. (\A j \in 1 .. Len(d) : d[j] \in Byte) /\ (\A j \in 1 .. Len(b) : b[j] \in Byte)
      OBVIOUS
    <3>3. QED
      BY <1>1, <2>1, <3>1, <3>2
  <2>3. Overlay(b, p, d) = [i \in 1 .. n |-> at(i)]
    BY <1>3 DEF Overlay
  <2> HIDE DEF n, at
  <2>4. Overlay(b, p, d) \in Seq(Byte) /\ Len(Overlay(b, p, d)) = n
    BY <2>1, <2>2, <2>3
  <2>5. QED
    BY <1>3, <2>3, <2>4 DEF n, at
<1>4. QED
  BY <1>2, <1>3

LEMMA SliceIs ==
  ASSUME NEW b \in Seq(Byte), NEW p \in Nat, NEW n \in Nat
  PROVE  /\ Slice(b, p, n) \in Seq(Byte)
         /\ Len(Slice(b, p, n)) = IF p + n <= Len(b) THEN n ELSE IF p < Len(b) THEN Len(b) - p ELSE 0
         /\ \A i \in 1 .. Len(Slice(b, p, n)) : Slice(b, p, n)[i] = b[p + i]
<1> DEFINE m == Least(p + n, Len(b))
<1>1. Len(b) \in Nat /\ m \in Int /\ m <= Len(b) /\ m <= p + n /\ p + 1 \in Int
  BY DEF Least
<1>2. \A i \in p + 1 .. m : b[i] \in Byte
  BY <1>1
<1>3. /\ SubSeq(b, p + 1, m) \in Seq(Byte)
      /\ Len(SubSeq(b, p + 1, m)) = IF p + 1 <= m THEN m - (p + 1) + 1 ELSE 0
      /\ \A i \in 1 .. m - (p + 1) + 1 : SubSeq(b, p + 1, m)[i] = b[p + 1 + i - 1]
  BY <1>1, <1>2, SubSeqProperties
<1>4. Len(SubSeq(b, p + 1, m)) = IF p + n <= Len(b) THEN n ELSE IF p < Len(b) THEN Len(b) - p ELSE 0
  BY <1>1, <1>3 DEF Least
<1>5. QED
  BY <1>1, <1>3, <1>4 DEF Slice

LEMMA FromIs ==
  ASSUME NEW b \in Seq(Byte), NEW p \in Nat
  PROVE  /\ From(b, p) \in Seq(Byte)
         /\ Len(From(b, p)) = IF p < Len(b) THEN Len(b) - p ELSE 0
         /\ \A i \in 1 .. Len(From(b, p)) : From(b, p)[i] = b[p + i]
<1>1. Len(b) \in Nat /\ \A i \in p + 1 .. Len(b) : b[i] \in Byte
  OBVIOUS
<1>2. /\ SubSeq(b, p + 1, Len(b)) \in Seq(Byte)
      /\ Len(SubSeq(b, p + 1, Len(b))) = IF p + 1 <= Len(b) THEN Len(b) - (p + 1) + 1 ELSE 0
      /\ \A i \in 1 .. Len(b) - (p + 1) + 1 : SubSeq(b, p + 1, Len(b))[i] = b[p + 1 + i - 1]
  BY <1>1, SubSeqProperties
<1>3. QED
  BY <1>1, <1>2 DEF From

LEMMA ResizedIs ==
  ASSUME NEW b \in Seq(Byte), NEW n \in Nat
  PROVE  Resized(b, n) \in Seq(Byte) /\ Len(Resized(b, n)) = n
<1>0. (\A i \in 1 .. Len(b) : b[i] \in Byte) /\ Len(b) \in Nat /\ 0 \in Byte
  <2>1. 0 \in Byte
    BY DEF Byte
  <2>2. QED
    BY <2>1
<1>1. \A i \in 1 .. n : (IF i <= Len(b) THEN b[i] ELSE 0) \in Byte
  BY <1>0
<1>2. QED
  BY <1>1 DEF Resized
--------------------------------------------------------------------------------
(* Counting up.                                                             *)
LEMMA LeastNumber == ASSUME NEW T \in SUBSET Nat, T # {} PROVE \E x \in T : \A y \in T : x <= y
<1> DEFINE Less == {ss \in Nat \X Nat : ss[1] < ss[2]}
<1>1. IsWellFoundedOn(OpToRel(<, Nat), Nat)
  BY NatLessThanWellFounded, Zenon
<1>2. IsWellFoundedOn(Less, Nat)
  BY <1>1, Zenon DEF OpToRel
<1>3. \A x, y \in Nat : <<y, x>> \notin Less => x <= y
  OBVIOUS
<1> HIDE DEF Less
<1>4. PICK x \in T : \A y \in T : ~(<<y, x>> \in Less)
  BY <1>2, WFMin, Zenon
<1>5. QED
  BY <1>3, <1>4

LEMMA Counting ==
  ASSUME NEW T, 0 \in T, \A n \in Nat : n \in T => n + 1 \in T
  PROVE  \A n \in Nat : n \in T
<1> DEFINE U == Nat \ T
<1> SUFFICES ASSUME U # {} PROVE FALSE
  OBVIOUS
<1>1. PICK x \in U : \A y \in U : x <= y
  BY LeastNumber
<1>2. x - 1 \in Nat /\ x - 1 \in T /\ (x - 1) + 1 = x
  BY <1>1
<1>3. QED
  BY <1>2
--------------------------------------------------------------------------------
(* The loops.  Each comes to an end, and keeps what each of its rounds does. *)

LEMMA InsertRounds ==
  ASSUME NEW c, NEW size, c.left \in Nat
  PROVE  \E f : /\ f[0] = c
                /\ \A k \in 1 .. c.left :
                     f[k] = IF f[k - 1].left = 0 THEN f[k - 1] ELSE InsertBlock(f[k - 1], size)
                /\ InsertLoop(c, size) = f[c.left]
<1> DEFINE Round(x) == IF x.left = 0 THEN x ELSE InsertBlock(x, size)
           Run(f, n) == f = [k \in 0 .. n |-> IF k = 0 THEN c ELSE Round(f[k - 1])]
           T == {n \in Nat : \E f : Run(f, n)}
<1> HIDE DEF Round
<1>1. 0 \in T
  <2>1. Run([k \in 0 .. 0 |-> c], 0)
    OBVIOUS
  <2>2. QED
    BY <2>1
<1>2. ASSUME NEW n \in Nat, n \in T PROVE n + 1 \in T
  <2>1. PICK f : Run(f, n)
    BY <1>2
  <2> DEFINE g == [k \in 0 .. n + 1 |-> IF k = n + 1 THEN Round(f[n]) ELSE f[k]]
  <2>2. \A k \in 0 .. n : g[k] = f[k]
    OBVIOUS
  <2>3. ASSUME NEW k \in 0 .. n + 1 PROVE g[k] = IF k = 0 THEN c ELSE Round(g[k - 1])
    <3>1. CASE k = n + 1
      BY <2>2, <3>1
    <3>2. CASE k \in 0 .. n
      <4>1. k # 0 => k - 1 \in 0 .. n
        BY <3>2
      <4>2. f[k] = IF k = 0 THEN c ELSE Round(f[k - 1])
        BY <2>1, <3>2
      <4>3. QED
        BY <2>2, <3>2, <4>1, <4>2
    <3>3. QED
      BY <3>1, <3>2
  <2>4. g = [k \in 0 .. n + 1 |-> g[k]]
    OBVIOUS
  <2> HIDE DEF g
  <2>5. Run(g, n + 1)
    BY <2>3, <2>4
  <2>6. QED
    BY <2>5
<1>3. \E f : Run(f, c.left)
  <2>1. c.left \in T
    <3> HIDE DEF T
    <3>1. QED
      BY <1>1, <1>2, Counting
  <2>2. QED
    BY <2>1
<1> DEFINE g == CHOOSE f : Run(f, c.left)
<1>4. Run(g, c.left)
  BY <1>3
<1>5. InsertLoop(c, size) = g[c.left]
  BY DEF InsertLoop, Round
<1> HIDE DEF g
<1>6. g[0] = c /\ \A k \in 1 .. c.left : g[k] = Round(g[k - 1])
  <2>1. \A k \in 0 .. c.left : g[k] = IF k = 0 THEN c ELSE Round(g[k - 1])
    BY <1>4
  <2>2. QED
    BY <2>1
<1>7. QED
  BY <1>5, <1>6 DEF Round

LEMMA InsertLoopKeeps ==
  ASSUME NEW S, NEW size, NEW c \in S,
         \A x \in S : /\ x.left \in Nat
                      /\ x.left > 0 => /\ InsertBlock(x, size) \in S
                                       /\ InsertBlock(x, size).left < x.left
  PROVE  InsertLoop(c, size) \in S /\ InsertLoop(c, size).left = 0
<1> DEFINE m == c.left
<1>1. m \in Nat
  OBVIOUS
<1>2. PICK g : /\ g[0] = c
               /\ \A k \in 1 .. m :
                    g[k] = IF g[k - 1].left = 0 THEN g[k - 1] ELSE InsertBlock(g[k - 1], size)
               /\ InsertLoop(c, size) = g[m]
  BY <1>1, InsertRounds
<1> HIDE DEF m
<1> DEFINE T == {k \in Nat : k <= m => g[k] \in S /\ g[k].left <= m - k}
<1>4. 0 \in T
  BY <1>1, <1>2 DEF m
<1>5. ASSUME NEW k \in Nat, k \in T PROVE k + 1 \in T
  <2> SUFFICES ASSUME k + 1 <= m PROVE g[k + 1] \in S /\ g[k + 1].left <= m - (k + 1)
    OBVIOUS
  <2>1. g[k] \in S /\ g[k].left <= m - k /\ g[k].left \in Nat
    BY <1>1, <1>5
  <2>2. g[k + 1] = IF g[k].left = 0 THEN g[k] ELSE InsertBlock(g[k], size)
    <3>1. k + 1 \in 1 .. m /\ (k + 1) - 1 = k
      BY <1>1
    <3>2. QED
      BY <1>2, <3>1
  <2>3. CASE g[k].left = 0
    BY <1>1, <2>1, <2>2, <2>3
  <2>4. CASE g[k].left # 0
    <3>1. InsertBlock(g[k], size) \in S /\ InsertBlock(g[k], size).left < g[k].left
      BY <2>1, <2>4
    <3>2. InsertBlock(g[k], size).left \in Nat
      BY <3>1
    <3>3. QED
      BY <1>1, <2>1, <2>2, <2>4, <3>1, <3>2
  <2>5. QED
    BY <2>3, <2>4
<1>6. m \in T
  <2> HIDE DEF T
  <2>1. QED
    BY <1>1, <1>4, <1>5, Counting
<1>7. g[m] \in S /\ g[m].left <= 0 /\ g[m].left \in Nat
  BY <1>1, <1>6
<1>8. QED
  BY <1>2, <1>7

LEMMA DeleteRounds ==
  ASSUME NEW c, c.left \in Nat
  PROVE  \E f : /\ f[0] = c
                /\ \A k \in 1 .. c.left :
                     f[k] = IF f[k - 1].left = 0 THEN f[k - 1] ELSE DeleteBlock(f[k - 1])
                /\ DeleteLoop(c) = f[c.left]
<1> DEFINE Round(x) == IF x.left = 0 THEN x ELSE DeleteBlock(x)
           Run(f, n) == f = [k \in 0 .. n |-> IF k = 0 THEN c ELSE Round(f[k - 1])]
           T == {n \in Nat : \E f : Run(f, n)}
<1> HIDE DEF Round
<1>1. 0 \in T
  <2>1. Run([k \in 0 .. 0 |-> c], 0)
    OBVIOUS
  <2>2. QED
    BY <2>1
<1>2. ASSUME NEW n \in Nat, n \in T PROVE n + 1 \in T
  <2>1. PICK f : Run(f, n)
    BY <1>2
  <2> DEFINE g == [k \in 0 .. n + 1 |-> IF k = n + 1 THEN Round(f[n]) ELSE f[k]]
  <2>2. \A k \in 0 .. n : g[k] = f[k]
    OBVIOUS
  <2>3. ASSUME NEW k \in 0 .. n + 1 PROVE g[k] = IF k = 0 THEN c ELSE Round(g[k - 1])
    <3>1. CASE k = n + 1
      BY <2>2, <3>1
    <3>2. CASE k \in 0 .. n
      <4>1. k # 0 => k - 1 \in 0 .. n
        BY <3>2
      <4>2. f[k] = IF k = 0 THEN c ELSE Round(f[k - 1])
        BY <2>1, <3>2
      <4>3. QED
        BY <2>2, <3>2, <4>1, <4>2
    <3>3. QED
      BY <3>1, <3>2
  <2>4. g = [k \in 0 .. n + 1 |-> g[k]]
    OBVIOUS
  <2> HIDE DEF g
  <2>5. Run(g, n + 1)
    BY <2>3, <2>4
  <2>6. QED
    BY <2>5
<1>3. \E f : Run(f, c.left)
  <2>1. c.left \in T
    <3> HIDE DEF T
    <3>1. QED
      BY <1>1, <1>2, Counting
  <2>2. QED
    BY <2>1
<1> DEFINE g == CHOOSE f : Run(f, c.left)
<1>4. Run(g, c.left)
  BY <1>3
<1>5. DeleteLoop(c) = g[c.left]
  BY DEF DeleteLoop, Round
<1> HIDE DEF g
<1>6. g[0] = c /\ \A k \in 1 .. c.left : g[k] = Round(g[k - 1])
  <2>1. \A k \in 0 .. c.left : g[k] = IF k = 0 THEN c ELSE Round(g[k - 1])
    BY <1>4
  <2>2. QED
    BY <2>1
<1>7. QED
  BY <1>5, <1>6 DEF Round

LEMMA DeleteLoopKeeps ==
  ASSUME NEW S, NEW c \in S,
         \A x \in S : /\ x.left \in Nat
                      /\ x.left > 0 => /\ DeleteBlock(x) \in S
                                       /\ DeleteBlock(x).left < x.left
  PROVE  DeleteLoop(c) \in S /\ DeleteLoop(c).left = 0
<1> DEFINE m == c.left
<1>1. m \in Nat
  OBVIOUS
<1>2. PICK g : /\ g[0] = c
               /\ \A k \in 1 .. m :
                    g[k] = IF g[k - 1].left = 0 THEN g[k - 1] ELSE DeleteBlock(g[k - 1])
               /\ DeleteLoop(c) = g[m]
  BY <1>1, DeleteRounds
<1> HIDE DEF m
<1> DEFINE T == {k \in Nat : k <= m => g[k] \in S /\ g[k].left <= m - k}
<1>4. 0 \in T
  BY <1>1, <1>2 DEF m
<1>5. ASSUME NEW k \in Nat, k \in T PROVE k + 1 \in T
  <2> SUFFICES ASSUME k + 1 <= m PROVE g[k + 1] \in S /\ g[k + 1].left <= m - (k + 1)
    OBVIOUS
  <2>1. g[k] \in S /\ g[k].left <= m - k /\ g[k].left \in Nat
    BY <1>1, <1>5
  <2>2. g[k + 1] = IF g[k].left = 0 THEN g[k] ELSE DeleteBlock(g[k])
    <3>1. k + 1 \in 1 .. m /\ (k + 1) - 1 = k
      BY <1>1
    <3>2. QED
      BY <1>2, <3>1
  <2>3. CASE g[k].left = 0
    BY <1>1, <2>1, <2>2, <2>3
  <2>4. CASE g[k].left # 0
    <3>1. DeleteBlock(g[k]) \in S /\ DeleteBlock(g[k]).left < g[k].left
      BY <2>1, <2>4
    <3>2. DeleteBlock(g[k]).left \in Nat
      BY <3>1
    <3>3. QED
      BY <1>1, <2>1, <2>2, <2>4, <3>1, <3>2
  <2>5. QED
    BY <2>3, <2>4
<1>6. m \in T
  <2> HIDE DEF T
  <2>1. QED
    BY <1>1, <1>4, <1>5, Counting
<1>7. g[m] \in S /\ g[m].left <= 0 /\ g[m].left \in Nat
  BY <1>1, <1>6
<1>8. QED
  BY <1>2, <1>7

(* The search comes to the end of the bytes, and keeps what each of them    *)
(* does.                                                                    *)
LEMMA MatchRounds ==
  ASSUME NEW needle, NEW b, Len(b) \in Nat
  PROVE  \E f : /\ f[0] = [at |-> 0, found |-> 0]
                /\ \A k \in 1 .. Len(b) : f[k] = Match(needle, f[k - 1], b[k])
                /\ Matched(needle, b) = f[Len(b)]
<1> DEFINE c == [at |-> 0, found |-> 0]
           Round(x, k) == Match(needle, x, b[k])
           Run(f, n) == f = [k \in 0 .. n |-> IF k = 0 THEN c ELSE Round(f[k - 1], k)]
           T == {n \in Nat : \E f : Run(f, n)}
<1> HIDE DEF Round, c
<1>1. 0 \in T
  <2>1. Run([k \in 0 .. 0 |-> c], 0)
    OBVIOUS
  <2>2. QED
    BY <2>1
<1>2. ASSUME NEW n \in Nat, n \in T PROVE n + 1 \in T
  <2>1. PICK f : Run(f, n)
    BY <1>2
  <2> DEFINE g == [k \in 0 .. n + 1 |-> IF k = n + 1 THEN Round(f[n], n + 1) ELSE f[k]]
  <2>2. \A k \in 0 .. n : g[k] = f[k]
    OBVIOUS
  <2>3. ASSUME NEW k \in 0 .. n + 1 PROVE g[k] = IF k = 0 THEN c ELSE Round(g[k - 1], k)
    <3>1. CASE k = n + 1
      BY <2>2, <3>1
    <3>2. CASE k \in 0 .. n
      <4>1. k # 0 => k - 1 \in 0 .. n
        BY <3>2
      <4>2. f[k] = IF k = 0 THEN c ELSE Round(f[k - 1], k)
        BY <2>1, <3>2
      <4>3. QED
        BY <2>2, <3>2, <4>1, <4>2
    <3>3. QED
      BY <3>1, <3>2
  <2>4. g = [k \in 0 .. n + 1 |-> g[k]]
    OBVIOUS
  <2> HIDE DEF g
  <2>5. Run(g, n + 1)
    BY <2>3, <2>4
  <2>6. QED
    BY <2>5
<1>3. \E f : Run(f, Len(b))
  <2>1. Len(b) \in T
    <3> HIDE DEF T
    <3>1. QED
      BY <1>1, <1>2, Counting
  <2>2. QED
    BY <2>1
<1> DEFINE g == CHOOSE f : Run(f, Len(b))
<1>4. Run(g, Len(b))
  BY <1>3
<1>5. Matched(needle, b) = g[Len(b)]
  BY DEF Matched, Round, c
<1> HIDE DEF g
<1>6. g[0] = c /\ \A k \in 1 .. Len(b) : g[k] = Round(g[k - 1], k)
  <2>1. \A k \in 0 .. Len(b) : g[k] = IF k = 0 THEN c ELSE Round(g[k - 1], k)
    BY <1>4
  <2>2. QED
    BY <2>1
<1>7. QED
  BY <1>5, <1>6 DEF Round, c

LEMMA MatchedKeeps ==
  ASSUME NEW S, NEW needle, NEW b, Len(b) \in Nat, <<0, [at |-> 0, found |-> 0]>> \in S,
         \A k \in 1 .. Len(b) : \A x : <<k - 1, x>> \in S => <<k, Match(needle, x, b[k])>> \in S
  PROVE  <<Len(b), Matched(needle, b)>> \in S
<1>1. PICK g : /\ g[0] = [at |-> 0, found |-> 0]
               /\ \A k \in 1 .. Len(b) : g[k] = Match(needle, g[k - 1], b[k])
               /\ Matched(needle, b) = g[Len(b)]
  BY MatchRounds
<1> DEFINE T == {k \in Nat : k <= Len(b) => <<k, g[k]>> \in S}
<1>2. 0 \in T
  BY <1>1
<1>3. ASSUME NEW k \in Nat, k \in T PROVE k + 1 \in T
  <2> SUFFICES ASSUME k + 1 <= Len(b) PROVE <<k + 1, g[k + 1]>> \in S
    OBVIOUS
  <2>1. k + 1 \in 1 .. Len(b) /\ (k + 1) - 1 = k /\ <<k, g[k]>> \in S
    BY <1>3
  <2>2. g[k + 1] = Match(needle, g[k], b[k + 1])
    BY <1>1, <2>1
  <2>3. QED
    BY <2>1, <2>2
<1>4. Len(b) \in T
  <2> HIDE DEF T
  <2>1. QED
    BY <1>2, <1>3, Counting
<1>5. QED
  BY <1>1, <1>4
--------------------------------------------------------------------------------
(* The stream: what is not yet on disk lies inside the file.                *)
Stream ==
  {s \in [bytes : Seq(Byte), pos : Nat, pending : Nat, eof : BOOLEAN] :
     s.pending > 0 => s.pos <= Len(s.bytes)}

LEMMA StreamFields ==
  ASSUME NEW s \in Stream
  PROVE  /\ s.bytes \in Seq(Byte) /\ s.pos \in Nat /\ s.pending \in Nat /\ s.eof \in BOOLEAN
         /\ Len(s.bytes) \in Nat
         /\ s.pending > 0 => s.pos <= Len(s.bytes)
BY DEF Stream

LEMMA SeekIs ==
  ASSUME NEW s \in Stream, NEW p \in Nat
  PROVE  /\ Seek(s, p) \in Stream
         /\ Seek(s, p).bytes = s.bytes /\ Seek(s, p).pos = p
         /\ Seek(s, p).pending = 0 /\ Seek(s, p).eof = FALSE
<1>1. s \in [bytes : Seq(Byte), pos : Nat, pending : Nat, eof : BOOLEAN]
  BY DEF Stream
<1>2. /\ Seek(s, p) \in [bytes : Seq(Byte), pos : Nat, pending : Nat, eof : BOOLEAN]
      /\ Seek(s, p).bytes = s.bytes /\ Seek(s, p).pos = p
      /\ Seek(s, p).pending = 0 /\ Seek(s, p).eof = FALSE
  BY <1>1 DEF Seek
<1>3. QED
  BY <1>2 DEF Stream

LEMMA FlushIs ==
  ASSUME NEW s \in Stream
  PROVE  /\ Flush(s) \in Stream
         /\ Flush(s).bytes = s.bytes /\ Flush(s).pos = s.pos
         /\ Flush(s).pending = 0 /\ Flush(s).eof = s.eof
BY DEF Stream, Flush

LEMMA WriteIs ==
  ASSUME NEW s \in Stream, NEW d \in Seq(Byte)
  PROVE  /\ Write(s, d) \in Stream
         /\ Write(s, d).bytes = Overlay(s.bytes, s.pos, d)
         /\ Write(s, d).pos = s.pos + Len(d)
         /\ Write(s, d).pending = s.pending + Len(d)
         /\ Write(s, d).eof = s.eof
<1>0. /\ s.bytes \in Seq(Byte) /\ s.pos \in Nat /\ s.pending \in Nat /\ s.eof \in BOOLEAN
      /\ Len(s.bytes) \in Nat /\ Len(d) \in Nat
      /\ s.pending > 0 => s.pos <= Len(s.bytes)
  BY StreamFields
<1> DEFINE b == Overlay(s.bytes, s.pos, d)
<1>1. b \in Seq(Byte) /\ Len(b) = IF d = <<>> THEN Len(s.bytes) ELSE Greatest(Len(s.bytes), s.pos + Len(d))
  BY <1>0, OverlayIs
<1>2. s.pending + Len(d) > 0 => s.pos + Len(d) <= Len(b)
  <2>1. CASE d = <<>>
    BY <1>0, <1>1, <2>1
  <2>2. CASE d # <<>>
    BY <1>0, <1>1, <2>2 DEF Greatest
  <2>3. QED
    BY <2>1, <2>2
<1> DEFINE to == s.pos + Len(d)
           kept == s.pending + Len(d)
<1> HIDE DEF b
<1>3. s \in [bytes : Seq(Byte), pos : Nat, pending : Nat, eof : BOOLEAN]
  BY DEF Stream
<1>4. Write(s, d) = [s EXCEPT !.bytes = b, !.pos = to, !.pending = kept]
  BY <1>3 DEF Write, b
<1>5. to \in Nat /\ kept \in Nat
  BY <1>0
<1> HIDE DEF to, kept
<1>6. /\ Write(s, d) \in [bytes : Seq(Byte), pos : Nat, pending : Nat, eof : BOOLEAN]
      /\ Write(s, d).bytes = b /\ Write(s, d).pos = to
      /\ Write(s, d).pending = kept /\ Write(s, d).eof = s.eof
  BY <1>1, <1>3, <1>4, <1>5
<1>7. QED
  BY <1>2, <1>6 DEF b, Stream, to, kept

LEMMA ReadIs ==
  ASSUME NEW s \in Stream, NEW n \in Nat
  PROVE  /\ Got(s, n) \in Seq(Byte) /\ Got(s, n) = Slice(s.bytes, s.pos, n)
         /\ Len(Got(s, n)) = IF s.pos + n <= Len(s.bytes) THEN n
                             ELSE IF s.pos < Len(s.bytes) THEN Len(s.bytes) - s.pos ELSE 0
         /\ Read(s, n) \in Stream
         /\ Read(s, n).bytes = s.bytes /\ Read(s, n).pos = s.pos + Len(Got(s, n))
         /\ Read(s, n).pending = s.pending
         /\ Read(s, n).eof <=> s.eof \/ Len(Got(s, n)) < n
<1>1. /\ Got(s, n) \in Seq(Byte) /\ Got(s, n) = Slice(s.bytes, s.pos, n)
      /\ Len(Got(s, n)) = IF s.pos + n <= Len(s.bytes) THEN n
                             ELSE IF s.pos < Len(s.bytes) THEN Len(s.bytes) - s.pos ELSE 0
  BY StreamFields, SliceIs DEF Got
<1>2. s \in [bytes : Seq(Byte), pos : Nat, pending : Nat, eof : BOOLEAN]
  BY DEF Stream
<1>3. s.pending > 0 => s.pos + Len(Got(s, n)) <= Len(s.bytes)
  BY <1>1, StreamFields
<1>4. Len(Got(s, n)) \in Nat
  BY <1>1
<1> DEFINE short == s.eof \/ Len(Got(s, n)) < n
           to == s.pos + Len(Got(s, n))
<1>5. Read(s, n) = [s EXCEPT !.pos = to, !.eof = short]
  BY <1>2 DEF Read
<1>6. to \in Nat /\ short \in BOOLEAN
  BY <1>2, <1>4
<1> HIDE DEF short, to
<1>7. /\ Read(s, n) \in [bytes : Seq(Byte), pos : Nat, pending : Nat, eof : BOOLEAN]
      /\ Read(s, n).bytes = s.bytes /\ Read(s, n).pos = to
      /\ Read(s, n).pending = s.pending /\ Read(s, n).eof = short
  BY <1>2, <1>5, <1>6
<1>8. QED
  BY <1>1, <1>3, <1>7 DEF Stream, short, to

LEMMA TruncateIs ==
  ASSUME NEW s \in Stream, NEW n \in Nat
  PROVE  /\ Truncate(s, n) \in Stream
         /\ Truncate(s, n).pos = s.pos /\ Truncate(s, n).eof = s.eof
         /\ Truncate(s, n).pending = s.pending
         /\ s.pending = 0 \/ s.pos <= n => Truncate(s, n).bytes = Resized(s.bytes, n)
<1>0. /\ s.bytes \in Seq(Byte) /\ s.pos \in Nat /\ s.pending \in Nat /\ s.eof \in BOOLEAN
      /\ Len(s.bytes) \in Nat
      /\ s.pending > 0 => s.pos <= Len(s.bytes)
  BY StreamFields
<1>1. CASE s.pending > 0 /\ s.pos > n
  <2> DEFINE at(i) == IF i <= n \/ i > s.pos - s.pending THEN s.bytes[i] ELSE 0
             b == [i \in 1 .. s.pos |-> at(i)]
  <2>1. \A i \in 1 .. s.pos : at(i) \in Byte
    <3>1. \A i \in 1 .. Len(s.bytes) : s.bytes[i] \in Byte
      BY <1>0
    <3>2. 0 \in Byte
      BY DEF Byte
    <3>3. QED
      BY <1>0, <1>1, <3>1, <3>2
  <2>2. Truncate(s, n) = [s EXCEPT !.bytes = b]
    BY <1>1 DEF Truncate
  <2> HIDE DEF at
  <2>3. b \in Seq(Byte) /\ Len(b) = s.pos
    BY <1>0, <2>1
  <2> HIDE DEF b
  <2>4. QED
    BY <1>0, <1>1, <2>2, <2>3 DEF Stream
<1>2. CASE ~(s.pending > 0 /\ s.pos > n)
  <2>1. Resized(s.bytes, n) \in Seq(Byte) /\ Len(Resized(s.bytes, n)) = n
    BY <1>0, ResizedIs
  <2>2. Truncate(s, n) = [s EXCEPT !.bytes = Resized(s.bytes, n)]
    BY <1>2 DEF Truncate
  <2>3. QED
    BY <1>0, <1>2, <2>1, <2>2 DEF Stream
<1>3. QED
  BY <1>1, <1>2
--------------------------------------------------------------------------------
(* Copying in blocks.                                                       *)
Copying == [s : Stream, rPos : Nat, wPos : Nat, held : Seq(Byte), left : Nat]
Pulling == [s : Stream, rPos : Nat, wPos : Nat, left : Nat]

LEMMA InsertBlockIs ==
  ASSUME NEW x \in Copying, NEW size \in Nat, size > 0, x.left > 0
  PROVE  LET n == Least(size, x.left)
             y == InsertBlock(x, size)
         IN /\ n \in 1 .. x.left /\ n <= size /\ (n < size => n = x.left)
            /\ y \in Copying
            /\ y.rPos = x.rPos + n /\ y.wPos = x.wPos + Len(x.held) /\ y.left = x.left - n
            /\ y.held = Slice(x.s.bytes, x.s.pos, n)
            /\ y.s.bytes = Overlay(x.s.bytes, x.wPos, x.held) /\ y.s.pos = x.rPos + n
<1> DEFINE n == Least(size, x.left)
           w == Write(Seek(x.s, x.wPos), x.held)
           to == Seek(w, x.rPos + n)
<1>1. /\ x.s \in Stream /\ x.rPos \in Nat /\ x.wPos \in Nat /\ x.held \in Seq(Byte)
      /\ x.left \in Nat /\ Len(x.held) \in Nat
  BY DEF Copying
<1>2. n \in 1 .. x.left /\ n <= size /\ (n < size => n = x.left) /\ n \in Nat
  BY <1>1 DEF Least
<1>3. w \in Stream /\ w.bytes = Overlay(x.s.bytes, x.wPos, x.held)
  <2>1. /\ Seek(x.s, x.wPos) \in Stream
        /\ Seek(x.s, x.wPos).bytes = x.s.bytes /\ Seek(x.s, x.wPos).pos = x.wPos
    BY <1>1, SeekIs
  <2>2. QED
    BY <1>1, <2>1, WriteIs
<1> HIDE DEF n, w
<1>4. to \in Stream /\ to.bytes = w.bytes /\ to.pos = x.rPos + n
  <2>1. x.rPos + n \in Nat
    BY <1>1, <1>2
  <2>2. QED
    BY <1>3, <2>1, SeekIs
<1>5. Got(x.s, n) \in Seq(Byte) /\ Got(x.s, n) = Slice(x.s.bytes, x.s.pos, n)
  BY <1>1, <1>2, ReadIs
<1> HIDE DEF to
<1>6. InsertBlock(x, size) = [s |-> to, rPos |-> x.rPos + n, wPos |-> x.wPos + Len(x.held),
                              held |-> Got(x.s, n), left |-> x.left - n]
  BY DEF InsertBlock, to, w, n
<1>7. InsertBlock(x, size) \in Copying
  BY <1>1, <1>2, <1>4, <1>5, <1>6 DEF Copying
<1>8. QED
  BY <1>2, <1>3, <1>4, <1>5, <1>6, <1>7 DEF n

LEMMA InsertLoopType ==
  ASSUME NEW x \in Copying, NEW size \in Nat, size > 0
  PROVE  InsertLoop(x, size) \in Copying
<1>1. ASSUME NEW y \in Copying
      PROVE  /\ y.left \in Nat
             /\ y.left > 0 => /\ InsertBlock(y, size) \in Copying
                              /\ InsertBlock(y, size).left < y.left
  <2>1. y.left \in Nat
    BY DEF Copying
  <2> SUFFICES ASSUME y.left > 0
               PROVE  InsertBlock(y, size) \in Copying /\ InsertBlock(y, size).left < y.left
    BY <2>1
  <2>2. /\ Least(size, y.left) \in 1 .. y.left
        /\ InsertBlock(y, size) \in Copying
        /\ InsertBlock(y, size).left = y.left - Least(size, y.left)
    BY InsertBlockIs
  <2>3. QED
    BY <2>1, <2>2
<1>2. QED
  BY <1>1, InsertLoopKeeps

LEMMA DeleteLoopType ==
  ASSUME NEW x \in Pulling
  PROVE  DeleteLoop(x) \in Pulling /\ (x.left = 0 => DeleteLoop(x) = x)
<1>1. ASSUME NEW y \in Pulling
      PROVE  /\ y.left \in Nat
             /\ y.left > 0 => /\ DeleteBlock(y) \in Pulling
                              /\ DeleteBlock(y).left < y.left
  <2> DEFINE n == Least(Block, y.left)
             w == Write(Seek(y.s, y.wPos), Got(y.s, n))
             to == Seek(w, y.rPos + n)
  <2>1. /\ y.s \in Stream /\ y.rPos \in Nat /\ y.wPos \in Nat /\ y.left \in Nat
    BY DEF Pulling
  <2> SUFFICES ASSUME y.left > 0 PROVE DeleteBlock(y) \in Pulling /\ DeleteBlock(y).left < y.left
    BY <2>1
  <2>2. n \in 1 .. y.left /\ n \in Nat
    BY <2>1, FileAssumption DEF Least
  <2> HIDE DEF n
  <2>3. Got(y.s, n) \in Seq(Byte)
    BY <2>1, <2>2, ReadIs
  <2>4. w \in Stream
    BY <2>1, <2>3, SeekIs, WriteIs
  <2> HIDE DEF w
  <2>5. to \in Stream
    <3>1. y.rPos + n \in Nat
      BY <2>1, <2>2
    <3>2. QED
      BY <2>4, <3>1, SeekIs
  <2> HIDE DEF to
  <2>6. DeleteBlock(y) = [s |-> to, rPos |-> y.rPos + n, wPos |-> y.wPos + n, left |-> y.left - n]
    BY DEF DeleteBlock, to, w, n
  <2>7. QED
    BY <2>1, <2>2, <2>5, <2>6 DEF Pulling
<1>2. DeleteLoop(x) \in Pulling
  BY <1>1, DeleteLoopKeeps
<1>3. x.left = 0 => DeleteLoop(x) = x
  <2>1. x.left \in Nat
    BY DEF Pulling
  <2>2. QED
    BY <2>1, DeleteRounds
<1>4. QED
  BY <1>2, <1>3

(* Where insertData is in a file of bytes O that L bytes go into at start:  *)
(* what it has moved stands L bytes further on, what it holds is what comes *)
(* next, and nothing behind that has been touched.                          *)
Moved(O, start, L, size) ==
  {x \in Copying :
     /\ x.rPos = Len(O) - x.left /\ x.s.pos = x.rPos
     /\ x.wPos >= start + L /\ Len(x.held) = x.rPos - (x.wPos - L)
     /\ \A i \in 1 .. Len(x.held) : x.held[i] = O[(x.wPos - L) + i]
     /\ x.left > 0 => Len(x.held) = size
     /\ Len(x.s.bytes) >= Len(O) /\ Len(x.s.bytes) <= Greatest(Len(O), x.wPos)
     /\ \A i \in 1 .. Len(O) : i <= start \/ i > x.wPos => x.s.bytes[i] = O[i]
     /\ \A i \in start + L + 1 .. x.wPos : i <= Len(x.s.bytes) /\ x.s.bytes[i] = O[i - L]}

LEMMA MovedFields ==
  ASSUME NEW O \in Seq(Byte), NEW start \in Nat, NEW L \in Nat, NEW size \in Nat,
         NEW x \in Moved(O, start, L, size)
  PROVE  /\ x.s \in Stream /\ x.rPos \in Nat /\ x.wPos \in Nat /\ x.held \in Seq(Byte)
         /\ x.left \in Nat /\ Len(x.held) \in Nat
         /\ x.s.bytes \in Seq(Byte) /\ Len(x.s.bytes) \in Nat /\ Len(O) \in Nat
<1>1. x \in Copying
  BY DEF Moved
<1>2. /\ x.s \in Stream /\ x.rPos \in Nat /\ x.wPos \in Nat /\ x.held \in Seq(Byte)
      /\ x.left \in Nat
  BY <1>1 DEF Copying
<1>3. QED
  BY <1>2, StreamFields

LEMMA GreaterOfTwo ==
  ASSUME NEW o \in Nat, NEW q \in Nat, NEW w \in Nat, NEW v \in Nat, w <= v,
         q >= o, q <= Greatest(o, w)
  PROVE  /\ Greatest(q, v) \in Nat /\ Greatest(q, v) >= o /\ Greatest(q, v) <= Greatest(o, v)
         /\ Greatest(q, v) >= v /\ Greatest(q, v) >= q
BY DEF Greatest

(* One round in plain numbers: the block k, due at w, is laid over b, and   *)
(* the n bytes at r are held in its place; o and q are the lengths of O and *)
(* b, v is where the next block is due.                                     *)
Due(O, start, L, size, b, k, w, r, n, o, q, v) ==
  /\ O \in Seq(Byte) /\ b \in Seq(Byte) /\ k \in Seq(Byte)
  /\ start \in Nat /\ L \in Nat /\ size \in Nat /\ w \in Nat /\ r \in Nat /\ n \in Nat
  /\ o \in Nat /\ o = Len(O) /\ q \in Nat /\ q = Len(b) /\ v \in Nat /\ v = w + size
  /\ L > 0 /\ L <= size /\ n > 0 /\ n <= size /\ r + n <= o /\ (n < size => r + n = o)
  /\ w >= start + L /\ Len(k) = size /\ size = r - (w - L)
  /\ q >= o /\ q <= Greatest(o, w)
DueBytes(O, start, L, size, b, k, w, o, q) ==
  /\ \A i \in 1 .. size : k[i] = O[(w - L) + i]
  /\ \A i \in 1 .. o : i <= start \/ i > w => b[i] = O[i]
  /\ \A i \in start + L + 1 .. w : i <= q /\ b[i] = O[i - L]

LEMMA RoundMoves ==
  ASSUME NEW O, NEW start, NEW L, NEW size, NEW b, NEW k, NEW w, NEW r, NEW n, NEW o, NEW q, NEW v,
         Due(O, start, L, size, b, k, w, r, n, o, q, v), DueBytes(O, start, L, size, b, k, w, o, q),
         NEW e, e = Overlay(b, w, k), NEW h, h = Slice(b, r, n)
  PROVE  /\ v >= start + L /\ Len(h) = n /\ n = (r + n) - (v - L)
         /\ \A i \in 1 .. n : h[i] = O[(v - L) + i]
         /\ Len(e) \in Nat /\ Len(e) >= o /\ Len(e) <= Greatest(o, v)
         /\ \A i \in 1 .. o : i <= start \/ i > v => e[i] = O[i]
         /\ \A i \in start + L + 1 .. v : i <= Len(e) /\ e[i] = O[i - L]
<1>0. Due(O, start, L, size, b, k, w, r, n, o, q, v)
  OBVIOUS
<1> USE DEF Due
<1>1. v >= start + L /\ n = (r + n) - (v - L) /\ r = v - L /\ r >= w /\ r + n <= q
  OBVIOUS
<1>2. Len(h) = n /\ \A i \in 1 .. n : h[i] = b[r + i]
  BY <1>1, SliceIs
<1>3. ASSUME NEW i \in 1 .. n PROVE h[i] = O[(v - L) + i]
  <2>0. r \in Nat /\ n \in Nat /\ o \in Nat /\ w \in Nat /\ r + n <= o /\ r >= w
    BY <1>1
  <2> HIDE DEF Due
  <2>1. h[i] = b[r + i] /\ r + i \in 1 .. o /\ r + i > w
    BY <1>2, <2>0
  <2>2. b[r + i] = O[r + i]
    BY <2>1 DEF DueBytes
  <2>3. QED
    BY <1>1, <2>1, <2>2
<1>4. k # <<>>
  OBVIOUS
<1> DEFINE m == Greatest(q, v)
<1>5. m \in Nat /\ m >= o /\ m <= Greatest(o, v) /\ m >= v /\ m >= q
  BY GreaterOfTwo
<1>6. /\ Len(e) = m
      /\ \A i \in 1 .. m : e[i] = IF i \in w + 1 .. v THEN k[i - w]
                                  ELSE IF i <= q THEN b[i] ELSE 0
  <2>1. w + Len(k) = v /\ Len(b) = q
    OBVIOUS
  <2>2. /\ Len(e) = Greatest(Len(b), w + Len(k))
        /\ \A i \in 1 .. Len(e) : e[i] = IF i \in w + 1 .. w + Len(k) THEN k[i - w]
                                         ELSE IF i <= Len(b) THEN b[i] ELSE 0
    <3>1. /\ Len(Overlay(b, w, k)) = IF k = <<>> THEN Len(b) ELSE Greatest(Len(b), w + Len(k))
          /\ \A i \in 1 .. Len(Overlay(b, w, k)) :
               Overlay(b, w, k)[i] = IF i \in w + 1 .. w + Len(k) THEN k[i - w]
                                     ELSE IF i <= Len(b) THEN b[i] ELSE 0
      BY OverlayIs, SMTT(30)
    <3>2. QED
      BY <1>4, <3>1
  <2> HIDE DEF m
  <2>3. QED
    BY <2>1, <2>2 DEF m
<1> HIDE DEF m
<1>7. ASSUME NEW i \in 1 .. o, i <= start \/ i > v PROVE e[i] = O[i]
  <2>1. i \in 1 .. m /\ i \notin w + 1 .. v /\ i <= q /\ (i <= start \/ i > w)
    BY <1>1, <1>5, <1>7
  <2>2. e[i] = b[i]
    BY <1>6, <2>1
  <2>3. b[i] = O[i]
    BY <2>1 DEF DueBytes
  <2>4. QED
    BY <2>2, <2>3
<1>8. ASSUME NEW i \in start + L + 1 .. v PROVE i <= m /\ e[i] = O[i - L]
  <2>0. i \in Int /\ i >= start + L + 1 /\ i <= v /\ start + L + 1 >= 1
    OBVIOUS
  <2>1. i \in 1 .. m
    BY <1>5, <2>0
  <2>2. CASE i <= w
    <3>1. i \in start + L + 1 .. w /\ i \notin w + 1 .. v
      BY <2>2
    <3>2. i <= q /\ b[i] = O[i - L]
      BY <3>1 DEF DueBytes
    <3>3. QED
      BY <1>6, <2>1, <3>1, <3>2
  <2>3. CASE i > w
    <3>1. i \in w + 1 .. v /\ i - w \in 1 .. size
      BY <2>3
    <3>2. e[i] = k[i - w]
      BY <1>6, <2>1, <3>1
    <3>3. k[i - w] = O[(w - L) + (i - w)] /\ (w - L) + (i - w) = i - L
      BY <3>1 DEF DueBytes
    <3>4. QED
      BY <2>1, <3>2, <3>3
  <2>4. QED
    BY <2>2, <2>3
<1>9. QED
  BY <1>1, <1>2, <1>3, <1>5, <1>6, <1>7, <1>8

LEMMA BlockMoved ==
  ASSUME NEW O \in Seq(Byte), NEW start \in Nat, NEW L \in Nat, L > 0, NEW size \in Nat, L <= size,
         NEW x \in Moved(O, start, L, size), x.left > 0
  PROVE  InsertBlock(x, size) \in Moved(O, start, L, size)
<1> DEFINE n == Least(size, x.left)
           y == InsertBlock(x, size)
           b == x.s.bytes
<1>1. /\ x.s \in Stream /\ x.rPos \in Nat /\ x.wPos \in Nat /\ x.held \in Seq(Byte)
      /\ x.left \in Nat /\ Len(x.held) \in Nat /\ b \in Seq(Byte) /\ Len(b) \in Nat /\ Len(O) \in Nat
  BY MovedFields
<1>2. /\ x \in Copying
      /\ x.rPos = Len(O) - x.left /\ x.s.pos = x.rPos
      /\ x.wPos >= start + L /\ Len(x.held) = x.rPos - (x.wPos - L)
      /\ \A i \in 1 .. Len(x.held) : x.held[i] = O[(x.wPos - L) + i]
      /\ Len(x.held) = size
      /\ Len(b) >= Len(O) /\ Len(b) <= Greatest(Len(O), x.wPos)
      /\ \A i \in 1 .. Len(O) : i <= start \/ i > x.wPos => b[i] = O[i]
      /\ \A i \in start + L + 1 .. x.wPos : i <= Len(b) /\ b[i] = O[i - L]
  BY DEF Moved
<1>3. size > 0
  OBVIOUS
<1>4. /\ n \in 1 .. x.left /\ n <= size /\ (n < size => n = x.left)
      /\ y \in Copying
      /\ y.rPos = x.rPos + n /\ y.wPos = x.wPos + Len(x.held) /\ y.left = x.left - n
      /\ y.held = Slice(b, x.s.pos, n)
      /\ y.s.bytes = Overlay(b, x.wPos, x.held) /\ y.s.pos = x.rPos + n
  BY <1>2, <1>3, InsertBlockIs
<1> HIDE DEF n, y, b
<1>5. /\ n \in Nat /\ n > 0 /\ n <= x.left /\ x.rPos + n <= Len(O)
      /\ (n < size => x.rPos + n = Len(O)) /\ y.wPos = x.wPos + size /\ y.wPos \in Nat
  <2>1. x.rPos = Len(O) - x.left /\ Len(x.held) = size
    BY <1>2
  <2>2. n \in Nat /\ n > 0 /\ n <= x.left
    BY <1>1, <1>4
  <2>3. y.wPos = x.wPos + size
    BY <1>4, <2>1
  <2>4. x.wPos \in Nat /\ x.rPos \in Nat /\ x.left \in Nat /\ Len(O) \in Nat
    BY <1>1
  <2>5. n < size => n = x.left
    BY <1>4
  <2>6. QED
    BY <2>1, <2>2, <2>3, <2>4, <2>5, SMTT(30)
<1>6. /\ y.wPos >= start + L /\ Len(y.held) = n /\ n = (x.rPos + n) - (y.wPos - L)
      /\ \A i \in 1 .. n : y.held[i] = O[(y.wPos - L) + i]
      /\ Len(y.s.bytes) >= Len(O) /\ Len(y.s.bytes) <= Greatest(Len(O), y.wPos)
      /\ \A i \in 1 .. Len(O) : i <= start \/ i > y.wPos => y.s.bytes[i] = O[i]
      /\ \A i \in start + L + 1 .. y.wPos : i <= Len(y.s.bytes) /\ y.s.bytes[i] = O[i - L]
  <2>1. size = x.rPos - (x.wPos - L) /\ n <= size
    BY <1>2, <1>4
  <2>2. \A i \in 1 .. size : x.held[i] = O[(x.wPos - L) + i]
    BY <1>2
  <2>3. y.held = Slice(b, x.rPos, n) /\ y.s.bytes = Overlay(b, x.wPos, x.held)
    BY <1>2, <1>4
  <2> DEFINE P(hh, ee) ==
               /\ y.wPos >= start + L /\ Len(hh) = n /\ n = (x.rPos + n) - (y.wPos - L)
               /\ \A i \in 1 .. n : hh[i] = O[(y.wPos - L) + i]
               /\ Len(ee) \in Nat /\ Len(ee) >= Len(O) /\ Len(ee) <= Greatest(Len(O), y.wPos)
               /\ \A i \in 1 .. Len(O) : i <= start \/ i > y.wPos => ee[i] = O[i]
               /\ \A i \in start + L + 1 .. y.wPos : i <= Len(ee) /\ ee[i] = O[i - L]
  <2>4. P(Slice(b, x.rPos, n), Overlay(b, x.wPos, x.held))
    <3> DEFINE r == x.rPos
               w == x.wPos
               v == y.wPos
               k == x.held
               o == Len(O)
               q == Len(b)
    <3>1. /\ b \in Seq(Byte) /\ k \in Seq(Byte) /\ w \in Nat /\ r \in Nat /\ n \in Nat
          /\ o \in Nat /\ q \in Nat /\ v \in Nat /\ v = w + size
      BY <1>1, <1>5
    <3>2. /\ n > 0 /\ n <= size /\ r + n <= o /\ (n < size => r + n = o)
          /\ w >= start + L /\ Len(k) = size /\ size = r - (w - L)
      BY <1>2, <1>5, <2>1
    <3>3. \A i \in 1 .. size : k[i] = O[(w - L) + i]
      BY <2>2
    <3>4. /\ q >= o /\ q <= Greatest(o, w)
          /\ \A i \in 1 .. o : i <= start \/ i > w => b[i] = O[i]
          /\ \A i \in start + L + 1 .. w : i <= q /\ b[i] = O[i - L]
      BY <1>2
    <3>5. o = Len(O) /\ q = Len(b)
      OBVIOUS
    <3> HIDE DEF r, w, v, k, o, q
    <3>6. /\ v >= start + L /\ Len(Slice(b, r, n)) = n /\ n = (r + n) - (v - L)
          /\ \A i \in 1 .. n : Slice(b, r, n)[i] = O[(v - L) + i]
          /\ Len(Overlay(b, w, k)) \in Nat
          /\ Len(Overlay(b, w, k)) >= o /\ Len(Overlay(b, w, k)) <= Greatest(o, v)
          /\ \A i \in 1 .. o : i <= start \/ i > v => Overlay(b, w, k)[i] = O[i]
          /\ \A i \in start + L + 1 .. v :
               i <= Len(Overlay(b, w, k)) /\ Overlay(b, w, k)[i] = O[i - L]
      <4>1. Due(O, start, L, size, b, k, w, r, n, o, q, v)
        BY <3>1, <3>2, <3>4, <3>5 DEF Due
      <4>2. DueBytes(O, start, L, size, b, k, w, o, q)
        BY <3>3, <3>4 DEF DueBytes
      <4>3. QED
        BY <4>1, <4>2, RoundMoves
    <3>7. QED
      BY <3>6 DEF r, w, v, k, o
  <2>5. QED
    BY <2>3, <2>4
<1>7. y.rPos = Len(O) - y.left /\ y.s.pos = y.rPos /\ Len(y.held) = y.rPos - (y.wPos - L)
  <2>1. x.rPos = Len(O) - x.left
    BY <1>2
  <2>2. QED
    BY <1>1, <1>4, <1>5, <1>6, <2>1
<1>8. y.left > 0 => Len(y.held) = size
  BY <1>1, <1>4, <1>5, <1>6
<1>9. \A i \in 1 .. Len(y.held) : y.held[i] = O[(y.wPos - L) + i]
  BY <1>6
<1>10. QED
  BY <1>4, <1>6, <1>7, <1>8, <1>9 DEF Moved, y

Spliced(O, start, d) == Slice(O, 0, start) \o d \o From(O, start)

LEMMA SplicedIs ==
  ASSUME NEW O \in Seq(Byte), NEW d \in Seq(Byte), NEW start \in Nat, start <= Len(O)
  PROVE  /\ Spliced(O, start, d) \in Seq(Byte)
         /\ Len(Spliced(O, start, d)) = Len(O) + Len(d)
         /\ \A i \in 1 .. Len(O) + Len(d) :
              Spliced(O, start, d)[i] = IF i <= start THEN O[i]
                                        ELSE IF i <= start + Len(d) THEN d[i - start]
                                        ELSE O[i - Len(d)]
<1> DEFINE o == Len(O)
           L == Len(d)
<1>0. o \in Nat /\ L \in Nat /\ o = Len(O) /\ L = Len(d) /\ start <= o
  OBVIOUS
<1> HIDE DEF o, L
<1> DEFINE h == Slice(O, 0, start)
           t == From(O, start)
           z == Spliced(O, start, d)
<1>1. h \in Seq(Byte) /\ Len(h) = start /\ \A i \in 1 .. start : h[i] = O[i]
  <2>1. \A p \in Nat : /\ Slice(O, p, start) \in Seq(Byte)
                       /\ p + start <= Len(O) => Len(Slice(O, p, start)) = start
                       /\ \A i \in 1 .. Len(Slice(O, p, start)) : Slice(O, p, start)[i] = O[p + i]
    BY SliceIs
  <2>2. 0 \in Nat /\ 0 + start <= Len(O)
    BY <1>0
  <2>3. h \in Seq(Byte) /\ Len(h) = start /\ \A i \in 1 .. start : h[i] = O[0 + i]
    BY <2>1, <2>2
  <2> HIDE DEF h
  <2>4. QED
    BY <2>3
<1>2. t \in Seq(Byte) /\ Len(t) = o - start /\ \A i \in 1 .. o - start : t[i] = O[start + i]
  <2>1. /\ t \in Seq(Byte) /\ Len(t) = IF start < Len(O) THEN Len(O) - start ELSE 0
        /\ \A i \in 1 .. Len(t) : t[i] = O[start + i]
    BY FromIs
  <2> HIDE DEF t, h, z
  <2>2. Len(t) = o - start
    BY <1>0, <2>1
  <2>3. QED
    BY <2>1, <2>2
<1>3. z = (h \o d) \o t
  BY DEF Spliced
<1> HIDE DEF h, t, z
<1>4. /\ h \o d \in Seq(Byte) /\ Len(h \o d) = start + L
      /\ \A i \in 1 .. start + L : (h \o d)[i] = IF i <= start THEN O[i] ELSE d[i - start]
  <2>1. /\ h \o d \in Seq(Byte) /\ Len(h \o d) = Len(h) + Len(d)
        /\ \A i \in 1 .. Len(h) + Len(d) : (h \o d)[i] = IF i <= Len(h) THEN h[i] ELSE d[i - Len(h)]
    BY <1>1, ConcatProperties
  <2> DEFINE hd == h \o d
  <2> HIDE DEF hd
  <2>2. /\ hd \in Seq(Byte) /\ Len(hd) = start + L
        /\ \A i \in 1 .. start + L : hd[i] = IF i <= start THEN h[i] ELSE d[i - start]
    BY <1>0, <1>1, <2>1 DEF hd
  <2>3. \A i \in 1 .. start + L : hd[i] = IF i <= start THEN O[i] ELSE d[i - start]
    BY <1>0, <1>1, <2>2
  <2>4. QED
    BY <2>2, <2>3 DEF hd
<1> DEFINE hd == h \o d
<1> HIDE DEF hd
<1>5. /\ z \in Seq(Byte) /\ Len(z) = Len(hd) + Len(t)
      /\ \A i \in 1 .. Len(hd) + Len(t) : z[i] = IF i <= Len(hd) THEN hd[i] ELSE t[i - Len(hd)]
  <2>1. hd \in Seq(Byte) /\ z = hd \o t
    BY <1>3, <1>4 DEF hd
  <2>a. hd \in Seq(Byte) /\ t \in Seq(Byte)
    BY <1>2, <2>1
  <2>2. /\ hd \o t \in Seq(Byte) /\ Len(hd \o t) = Len(hd) + Len(t)
        /\ \A i \in 1 .. Len(hd) + Len(t) :
             (hd \o t)[i] = IF i <= Len(hd) THEN hd[i] ELSE t[i - Len(hd)]
    BY <2>a, ConcatProperties, Zenon
  <2>3. QED
    BY <2>1, <2>2
<1>6. /\ Len(hd) = start + L
      /\ \A i \in 1 .. start + L : hd[i] = IF i <= start THEN O[i] ELSE d[i - start]
  BY <1>4 DEF hd
<1>7. Len(z) = o + L
  BY <1>0, <1>2, <1>5, <1>6
<1>8. ASSUME NEW i \in 1 .. o + L
      PROVE  z[i] = IF i <= start THEN O[i] ELSE IF i <= start + L THEN d[i - start] ELSE O[i - L]
  <2>1. z[i] = IF i <= start + L THEN hd[i] ELSE t[i - (start + L)]
    BY <1>0, <1>2, <1>5, <1>6
  <2>2. CASE i <= start + L
    BY <1>0, <1>6, <2>1, <2>2
  <2>3. CASE i > start + L
    <3>1. i - (start + L) \in 1 .. o - start /\ start + (i - (start + L)) = i - L /\ ~(i <= start)
      BY <1>0, <2>3
    <3>2. z[i] = t[i - (start + L)]
      BY <1>0, <2>1, <2>3
    <3>3. t[i - (start + L)] = O[start + (i - (start + L))]
      BY <1>2, <3>1
    <3>4. z[i] = O[i - L]
      BY <3>1, <3>2, <3>3
    <3>5. QED
      BY <1>0, <2>3, <3>1, <3>4
  <2>4. QED
    BY <1>0, <2>2, <2>3
<1>9. QED
  BY <1>5, <1>7, <1>8 DEF z, o, L

(* The last block and the inserted bytes are laid down.                     *)
Last(O, start, L, size, b, k, w, o, q, d) ==
  /\ O \in Seq(Byte) /\ b \in Seq(Byte) /\ k \in Seq(Byte) /\ d \in Seq(Byte)
  /\ start \in Nat /\ L \in Nat /\ w \in Nat /\ size \in Nat
  /\ o \in Nat /\ o = Len(O) /\ q \in Nat /\ q = Len(b)
  /\ L = Len(d) /\ L > 0 /\ start <= o /\ w >= start + L /\ size = Len(k) /\ size = o - (w - L)
  /\ q >= o /\ q <= Greatest(o, w)

LEMMA LastMoves ==
  ASSUME NEW O, NEW start, NEW L, NEW size, NEW b, NEW k, NEW w, NEW o, NEW q, NEW d,
         Last(O, start, L, size, b, k, w, o, q, d), DueBytes(O, start, L, size, b, k, w, o, q)
  PROVE  Overlay(Overlay(b, w, k), start, d) = Spliced(O, start, d)
<1> DEFINE v == o + L
           e == Overlay(b, w, k)
           m == Len(e)
           f == Overlay(e, start, d)
<1>0. /\ start \in Nat /\ L \in Nat /\ w \in Nat /\ size \in Nat /\ o \in Nat /\ q \in Nat
      /\ L > 0 /\ start <= o /\ w >= start + L /\ size = o - (w - L)
  BY DEF Last
<1>a. b \in Seq(Byte) /\ k \in Seq(Byte) /\ Len(b) = q /\ Len(k) = size
  BY DEF Last
<1>b. O \in Seq(Byte) /\ d \in Seq(Byte) /\ Len(O) = o /\ Len(d) = L
  BY DEF Last
<1>c. q >= o /\ q <= Greatest(o, w)
  BY DEF Last
<1>1. w + size = v /\ v \in Nat /\ start + L <= v /\ size >= 0
  BY <1>0
<1>2. /\ e \in Seq(Byte)
      /\ m = IF k = <<>> THEN Len(b) ELSE Greatest(Len(b), w + Len(k))
      /\ \A i \in 1 .. m : e[i] = IF i \in w + 1 .. w + Len(k) THEN k[i - w]
                                  ELSE IF i <= Len(b) THEN b[i] ELSE 0
  <2>1. w \in Nat /\ b \in Seq(Byte) /\ k \in Seq(Byte)
    BY <1>0, <1>a
  <2>2. /\ Overlay(b, w, k) \in Seq(Byte)
        /\ Len(Overlay(b, w, k)) = IF k = <<>> THEN Len(b) ELSE Greatest(Len(b), w + Len(k))
        /\ \A i \in 1 .. Len(Overlay(b, w, k)) :
             Overlay(b, w, k)[i] = IF i \in w + 1 .. w + Len(k) THEN k[i - w]
                                   ELSE IF i <= Len(b) THEN b[i] ELSE 0
    BY <2>1, OverlayIs
  <2> HIDE DEF e
  <2>3. QED
    BY <2>2 DEF e
<1> HIDE DEF e
<1>3. m \in Nat
  BY <1>2
<1>4. k = <<>> <=> size = 0
  BY <1>a
<1> HIDE DEF m, v
<1>5. \A i \in 1 .. m : e[i] = IF i \in w + 1 .. v THEN k[i - w] ELSE IF i <= q THEN b[i] ELSE 0
  BY <1>1, <1>2, <1>a
<1>6. m = IF size = 0 THEN q ELSE Greatest(q, v)
  BY <1>1, <1>2, <1>4, <1>a
<1>7. m >= q /\ m >= o /\ m <= v
  <2>1. w <= v /\ Greatest(o, v) = v
    BY <1>0, <1>1 DEF Greatest, v
  <2>2. Greatest(q, v) >= o /\ Greatest(q, v) <= v /\ Greatest(q, v) >= q /\ Greatest(q, v) \in Nat
    BY <1>0, <1>1, <1>c, <2>1, GreaterOfTwo
  <2>3. QED
    <3>1. CASE size = 0
      <4>1. m = q
        BY <1>6, <3>1
      <4>2. Greatest(q, v) >= q /\ Greatest(q, v) <= v /\ Greatest(q, v) \in Nat /\ v \in Nat
        BY <1>1, <2>2
      <4>3. QED
        BY <1>0, <1>c, <4>1, <4>2
    <3>2. CASE size # 0
      BY <1>6, <2>2, <3>2
    <3>3. QED
      BY <3>1, <3>2
<1>8. Len(f) = v
  <2>1. Len(f) = IF d = <<>> THEN m ELSE Greatest(m, start + Len(d))
    <3>1. e \in Seq(Byte) /\ start \in Nat /\ d \in Seq(Byte)
      BY <1>0, <1>2, <1>b
    <3>2. Len(Overlay(e, start, d)) = IF d = <<>> THEN Len(e) ELSE Greatest(Len(e), start + Len(d))
      BY <3>1, OverlayIs
    <3>3. QED
      BY <3>2 DEF m
  <2>2. Len(f) = Greatest(m, start + L)
    BY <1>0, <1>b, <2>1
  <2> HIDE DEF f
  <2>3. CASE size > 0
    <3>1. m >= v
      BY <1>0, <1>1, <1>6, <2>3 DEF Greatest
    <3>2. QED
      BY <1>0, <1>1, <1>3, <1>7, <2>2, <3>1 DEF Greatest
  <2>4. CASE size = 0
    <3>1. m = q /\ w = v
      BY <1>0, <1>1, <1>6, <2>4
    <3>2. v \in start + L + 1 .. w => v <= q
      BY DEF DueBytes
    <3>3. v > start + L => v <= q
      BY <1>0, <1>1, <3>1, <3>2
    <3>4. QED
      BY <1>0, <1>1, <1>3, <1>7, <2>2, <3>1, <3>3 DEF Greatest
  <2>5. QED
    BY <1>0, <2>3, <2>4
<1>d. f \in Seq(Byte) /\ \A i \in 1 .. v : f[i] = IF i \in start + 1 .. start + L THEN d[i - start]
                                                ELSE IF i <= m THEN e[i] ELSE 0
  <2>1. /\ f \in Seq(Byte)
        /\ \A i \in 1 .. Len(f) : f[i] = IF i \in start + 1 .. start + Len(d) THEN d[i - start]
                                         ELSE IF i <= Len(e) THEN e[i] ELSE 0
    BY <1>0, <1>2, <1>b, OverlayIs
  <2> HIDE DEF f
  <2>2. QED
    BY <1>8, <1>b, <2>1 DEF m
<1> HIDE DEF f
<1>9. ASSUME NEW i \in 1 .. v
      PROVE  f[i] = IF i <= start THEN O[i] ELSE IF i <= start + L THEN d[i - start] ELSE O[i - L]
  <2>0. i \in Nat /\ i >= 1 /\ i <= v
    BY <1>1, <1>9
    <2>1. CASE i <= start
    <3>0. i <= o /\ i <= q /\ i <= m /\ i <= w
      BY <1>0, <1>3, <1>7, <1>c, <2>0, <2>1
    <3>1. i \notin start + 1 .. start + L /\ i \notin w + 1 .. v /\ i <= m /\ i <= q /\ i \in 1 .. o /\ i \in 1 .. m
      BY <1>0, <1>1, <1>3, <2>0, <2>1, <3>0
    <3>2. f[i] = e[i]
      BY <1>d, <3>1
    <3>3. e[i] = b[i]
      BY <1>5, <3>1
    <3>4. b[i] = O[i]
      BY <2>1, <3>1 DEF DueBytes
    <3>5. QED
      BY <2>1, <3>2, <3>3, <3>4
  <2>2. CASE i > start /\ i <= start + L
    <3>1. i \in start + 1 .. start + L /\ ~(i <= start)
      BY <1>0, <2>0, <2>2
    <3>2. QED
      BY <1>d, <2>2, <3>1
  <2>3. CASE i > start + L /\ i <= w
    <3>1. i \in start + L + 1 .. w /\ i \notin w + 1 .. v /\ i \notin start + 1 .. start + L /\ ~(i <= start) /\ ~(i <= start + L)
      BY <1>0, <1>1, <2>0, <2>3
    <3>2. i <= q /\ b[i] = O[i - L]
      BY <3>1 DEF DueBytes
    <3>3. i <= m /\ i \in 1 .. m
      <4>1. q \in Nat /\ m \in Nat /\ m >= q
        BY <1>0, <1>3, <1>7
      <4>2. QED
        BY <2>0, <3>2, <4>1
    <3>4. f[i] = e[i]
      BY <1>d, <3>1, <3>3
    <3>5. e[i] = b[i]
      BY <1>5, <3>1, <3>2, <3>3
    <3>6. QED
      BY <3>1, <3>2, <3>4, <3>5
  <2>4. CASE i > start + L /\ i > w
    <3>1. i \in w + 1 .. v /\ i - w \in 1 .. size /\ i \notin start + 1 .. start + L /\ ~(i <= start) /\ ~(i <= start + L)
      BY <1>0, <1>1, <2>0, <2>4
    <3>2. m >= v
      BY <1>0, <1>1, <1>6, <3>1 DEF Greatest
    <3>3. f[i] = e[i]
      <4>1. i \in 1 .. v /\ i <= m
        BY <1>1, <1>3, <2>0, <3>2
      <4>2. QED
        BY <1>d, <3>1, <4>1
    <3>4. e[i] = k[i - w]
      <4>1. i \in 1 .. m
        BY <1>1, <1>3, <2>0, <3>2
      <4>2. QED
        BY <1>5, <3>1, <4>1
    <3>5. k[i - w] = O[(w - L) + (i - w)] /\ (w - L) + (i - w) = i - L
      BY <1>0, <2>0, <3>1 DEF DueBytes
    <3>6. QED
      BY <3>1, <3>3, <3>4, <3>5
  <2>5. QED
    BY <1>0, <1>1, <2>0, <2>1, <2>2, <2>3, <2>4
<1> DEFINE z == Spliced(O, start, d)
<1>10. /\ z \in Seq(Byte) /\ Len(z) = v
       /\ \A i \in 1 .. v : z[i] = IF i <= start THEN O[i]
                                   ELSE IF i <= start + L THEN d[i - start] ELSE O[i - L]
  <2>1. /\ O \in Seq(Byte) /\ d \in Seq(Byte) /\ start \in Nat /\ start <= Len(O)
        /\ o \in Nat /\ o = Len(O) /\ L \in Nat /\ L = Len(d)
    BY <1>0, <1>b
  <2>2. /\ z \in Seq(Byte) /\ Len(z) = Len(O) + Len(d)
        /\ \A i \in 1 .. Len(O) + Len(d) :
             z[i] = IF i <= start THEN O[i]
                    ELSE IF i <= start + Len(d) THEN d[i - start] ELSE O[i - Len(d)]
    BY <2>1, SplicedIs, ZenonT(30)
  <2> HIDE DEF z
  <2>3. QED
    BY <2>1, <2>2 DEF v
<1> HIDE DEF z
<1>11. \A i \in 1 .. v : f[i] = z[i]
  BY <1>9, <1>10
<1>12. f = z
  BY <1>1, <1>8, <1>d, <1>10, <1>11, SeqEqual
<1>13. QED
  BY <1>12 DEF z, f, e

(* All insertData does: the loop, the block it holds, the inserted bytes.   *)
LEMMA InsertCopies ==
  ASSUME NEW s \in Stream, NEW start \in Nat, start <= Len(s.bytes), s.pos = start,
         NEW d \in Seq(Byte), d # <<>>, NEW size \in Nat, Len(d) <= size
  PROVE  LET rest == Len(s.bytes) - start
             n == Least(size, rest)
             c == InsertLoop([s |-> Seek(s, start + n), rPos |-> start + n, wPos |-> start + Len(d),
                              held |-> Got(s, n), left |-> rest - n], size)
             f == Write(Seek(Write(Seek(c.s, c.wPos), c.held), start), d)
         IN f \in Stream /\ f.bytes = Spliced(s.bytes, start, d) /\ f.pos = start + Len(d)
<1> DEFINE O == s.bytes
           L == Len(d)
           rest == Len(O) - start
           n == Least(size, rest)
           held == Got(s, n)
           x == [s |-> Seek(s, start + n), rPos |-> start + n, wPos |-> start + L,
                 held |-> held, left |-> rest - n]
           c == InsertLoop(x, size)
           M == Moved(O, start, L, size)
<1>1. O \in Seq(Byte) /\ Len(O) \in Nat /\ L \in Nat /\ L > 0 /\ L <= size /\ start <= Len(O)
  BY StreamFields
<1>2. rest \in Nat
  BY <1>1
<1>3. n \in Nat /\ n <= rest /\ n <= size /\ (n < size => n = rest)
  BY <1>2 DEF Least
<1>4. held \in Seq(Byte) /\ Len(held) = n /\ \A i \in 1 .. n : held[i] = O[start + i]
  <2> HIDE DEF n
  <2>1. held = Slice(O, start, n)
    BY <1>3, ReadIs
  <2>2. start + n <= Len(O)
    BY <1>1, <1>2, <1>3
  <2> HIDE DEF O
  <2>3. /\ Slice(O, start, n) \in Seq(Byte) /\ Len(Slice(O, start, n)) = n
        /\ \A i \in 1 .. Len(Slice(O, start, n)) : Slice(O, start, n)[i] = O[start + i]
    BY <1>1, <1>3, <2>2, SliceIs
  <2> HIDE DEF held
  <2>4. QED
    BY <2>1, <2>3
<1> HIDE DEF n, held
<1>5. /\ Seek(s, start + n) \in Stream
      /\ Seek(s, start + n).bytes = O /\ Seek(s, start + n).pos = start + n
  <2>1. start + n \in Nat
    BY <1>3
  <2>2. QED
    BY <2>1, SeekIs
<1> HIDE DEF O
<1>6. x \in M
  <2>1. x \in Copying
    <3>1. start + n \in Nat /\ start + L \in Nat /\ rest - n \in Nat
      BY <1>1, <1>2, <1>3
    <3> HIDE DEF rest, L
    <3>2. QED
      BY <1>4, <1>5, <3>1 DEF Copying
  <2>2. /\ x.rPos = start + n /\ x.wPos = start + L /\ x.held = held /\ x.left = rest - n
        /\ x.s.pos = start + n /\ x.s.bytes = O
    BY <1>5
  <2> HIDE DEF x
  <2>3. x.rPos = Len(O) - x.left /\ x.s.pos = x.rPos
    BY <1>1, <1>2, <1>3, <2>2
  <2>4. x.wPos >= start + L /\ Len(x.held) = x.rPos - (x.wPos - L)
    BY <1>1, <1>3, <1>4, <2>2
  <2>5. \A i \in 1 .. Len(x.held) : x.held[i] = O[(x.wPos - L) + i]
    <3>1. x.wPos - L = start
      BY <1>1, <2>2
    <3>2. QED
      BY <1>4, <2>2, <3>1
  <2>6. x.left > 0 => Len(x.held) = size
    BY <1>2, <1>3, <1>4, <2>2
  <2>7. Len(x.s.bytes) >= Len(O) /\ Len(x.s.bytes) <= Greatest(Len(O), x.wPos)
    BY <1>1, <2>2 DEF Greatest
  <2>8. \A i \in 1 .. Len(O) : i <= start \/ i > x.wPos => x.s.bytes[i] = O[i]
    BY <2>2
  <2>9. \A i \in start + L + 1 .. x.wPos : i <= Len(x.s.bytes) /\ x.s.bytes[i] = O[i - L]
    BY <1>1, <2>2
  <2>10. QED
    BY <2>1, <2>3, <2>4, <2>5, <2>6, <2>7, <2>8, <2>9 DEF Moved
<1> HIDE DEF x, L
<1>7. c \in M /\ c.left = 0
  <2>1. ASSUME NEW y \in M
        PROVE  /\ y.left \in Nat
               /\ y.left > 0 => InsertBlock(y, size) \in M /\ InsertBlock(y, size).left < y.left
    <3>0. y \in Copying
      BY <2>1 DEF Moved
    <3>1. y.left \in Nat /\ y \in Copying
      BY <3>0 DEF Copying
    <3> SUFFICES ASSUME y.left > 0
                 PROVE  InsertBlock(y, size) \in M /\ InsertBlock(y, size).left < y.left
      BY <3>1
    <3>2. InsertBlock(y, size) \in M
      BY <1>1, BlockMoved
    <3>3. size > 0
      BY <1>1
    <3>4. /\ Least(size, y.left) \in 1 .. y.left
          /\ InsertBlock(y, size).left = y.left - Least(size, y.left)
      BY <3>1, <3>3, InsertBlockIs
    <3>5. QED
      BY <3>1, <3>2, <3>4
  <2> HIDE DEF M
  <2>2. QED
    BY <1>6, <2>1, InsertLoopKeeps
<1> HIDE DEF c
<1>8. /\ c.s \in Stream /\ c.wPos \in Nat /\ c.held \in Seq(Byte) /\ Len(c.held) \in Nat
      /\ c.s.bytes \in Seq(Byte) /\ Len(c.s.bytes) \in Nat
  BY <1>1, <1>7, MovedFields
<1>9. /\ Last(O, start, L, Len(c.held), c.s.bytes, c.held, c.wPos, Len(O), Len(c.s.bytes), d)
      /\ DueBytes(O, start, L, Len(c.held), c.s.bytes, c.held, c.wPos, Len(O), Len(c.s.bytes))
  <2>1. /\ c.wPos >= start + L
        /\ Len(c.s.bytes) >= Len(O) /\ Len(c.s.bytes) <= Greatest(Len(O), c.wPos)
        /\ c.rPos = Len(O) - c.left /\ Len(c.held) = c.rPos - (c.wPos - L)
    BY <1>7 DEF Moved
  <2>2. Len(c.held) = Len(O) - (c.wPos - L)
    BY <1>1, <1>7, <1>8, <2>1
  <2>3. L = Len(d)
    BY DEF L
  <2>4. Last(O, start, L, Len(c.held), c.s.bytes, c.held, c.wPos, Len(O), Len(c.s.bytes), d)
    BY <1>1, <1>8, <2>1, <2>2, <2>3 DEF Last
  <2>5. DueBytes(O, start, L, Len(c.held), c.s.bytes, c.held, c.wPos, Len(O), Len(c.s.bytes))
    BY <1>7 DEF Moved, DueBytes
  <2>6. QED
    BY <2>4, <2>5
<1> DEFINE w == Write(Seek(c.s, c.wPos), c.held)
           f == Write(Seek(w, start), d)
<1>10. w \in Stream /\ w.bytes = Overlay(c.s.bytes, c.wPos, c.held)
  <2> DEFINE to == Seek(c.s, c.wPos)
  <2>1. to \in Stream /\ to.bytes = c.s.bytes /\ to.pos = c.wPos
    BY <1>8, SeekIs
  <2> HIDE DEF to
  <2>2. /\ Write(to, c.held) \in Stream
        /\ Write(to, c.held).bytes = Overlay(to.bytes, to.pos, c.held)
    BY <1>8, <2>1, WriteIs
  <2>3. QED
    BY <2>1, <2>2 DEF to
<1> HIDE DEF w
<1>11. f \in Stream /\ f.bytes = Overlay(w.bytes, start, d) /\ f.pos = start + L
  <2>1. Seek(w, start) \in Stream /\ Seek(w, start).bytes = w.bytes /\ Seek(w, start).pos = start
    BY <1>10, SeekIs
  <2>2. QED
    BY <2>1, WriteIs DEF L
<1>12. f.bytes = Spliced(O, start, d)
  BY <1>9, <1>10, <1>11, LastMoves
<1>13. QED
  BY <1>11, <1>12 DEF f, w, c, x, L, O, n, held
--------------------------------------------------------------------------------
(* What find has after the bytes b: if it is all of the needle, it is what  *)
(* b holds just before that place, otherwise it has come to the end of b.   *)
LEMMA MatchedIs ==
  ASSUME NEW needle \in Seq(Byte), NEW b \in Seq(Byte)
  PROVE  LET c == Matched(needle, b)
         IN /\ c.at \in Nat /\ c.at <= Len(b) /\ c.found \in Nat /\ c.found <= Len(needle)
            /\ c.found <= c.at /\ (c.found < Len(needle) => c.at = Len(b))
            /\ \A i \in 1 .. c.found : needle[i] = b[c.at - c.found + i]
<1> DEFINE N == Len(needle)
           Good(k, x) == /\ x.at <= k /\ x.found <= N
                         /\ x.found <= x.at /\ (x.found < N => x.at = k)
                         /\ \A i \in 1 .. x.found : needle[i] = b[x.at - x.found + i]
           S == {z \in Nat \X [at : Nat, found : Nat] : Good(z[1], z[2])}
<1>1. Len(b) \in Nat /\ N \in Nat
  OBVIOUS
<1>2. <<0, [at |-> 0, found |-> 0]>> \in S
  BY <1>1
<1>3. ASSUME NEW k \in 1 .. Len(b), NEW x, <<k - 1, x>> \in S
      PROVE  <<k, Match(needle, x, b[k])>> \in S
  <2>1. k - 1 \in Nat /\ k \in Nat /\ x \in [at : Nat, found : Nat] /\ Good(k - 1, x)
    BY <1>3
  <2>2. x.at \in Nat /\ x.found \in Nat
    BY <2>1
  <2>3. CASE x.found = N
    <3>1. Match(needle, x, b[k]) = x
      BY <2>3 DEF Match
    <3>2. Good(k, x)
      BY <1>1, <2>1, <2>2, <2>3
    <3>3. QED
      BY <2>1, <3>1, <3>2
  <2>4. CASE x.found # N /\ b[k] = needle[x.found + 1]
    <3> DEFINE y == [at |-> x.at + 1, found |-> x.found + 1]
    <3>1. Match(needle, x, b[k]) = y
      BY <2>4 DEF Match
    <3>2. x.found < N /\ x.at = k - 1
      BY <1>1, <2>1, <2>2, <2>4
    <3>3. y \in [at : Nat, found : Nat] /\ y.at = k /\ y.found = x.found + 1
      BY <2>1, <2>2, <3>2
    <3> HIDE DEF y
    <3>4. ASSUME NEW i \in 1 .. y.found PROVE needle[i] = b[y.at - y.found + i]
      <4>1. y.at - y.found = x.at - x.found
        BY <2>1, <2>2, <3>2, <3>3
      <4>2. CASE i <= x.found
        <5>1. i \in 1 .. x.found
          BY <2>2, <3>3, <4>2
        <5>2. QED
          BY <2>1, <4>1, <5>1
      <4>3. CASE i = x.found + 1
        <5>1. y.at - y.found + i = k
          BY <2>1, <2>2, <3>2, <3>3, <4>3
        <5>2. QED
          BY <2>4, <4>3, <5>1
      <4>4. QED
        BY <2>2, <3>3, <4>2, <4>3
    <3>5. y.found <= y.at /\ y.found <= N
      BY <1>1, <2>1, <2>2, <3>2, <3>3
    <3>6. Good(k, y)
      BY <1>1, <2>1, <3>3, <3>4, <3>5
    <3>7. QED
      BY <2>1, <3>1, <3>3, <3>6
  <2>5. CASE x.found # N /\ b[k] # needle[x.found + 1]
    <3> DEFINE y == [at |-> x.at + 1, found |-> 0]
    <3>1. Match(needle, x, b[k]) = y
      BY <2>5 DEF Match
    <3>2. x.at = k - 1
      BY <1>1, <2>1, <2>2, <2>5
    <3>3. y \in [at : Nat, found : Nat] /\ y.at = k /\ y.found = 0
      BY <2>1, <2>2, <3>2
    <3> HIDE DEF y
    <3>4. Good(k, y)
      BY <1>1, <2>1, <3>3
    <3>5. QED
      BY <2>1, <3>1, <3>3, <3>4
  <2>6. QED
    BY <2>3, <2>4, <2>5
<1>4. <<Len(b), Matched(needle, b)>> \in S
  <2> HIDE DEF S
  <2>1. QED
    BY <1>1, <1>2, <1>3, MatchedKeeps
<1>5. QED
  BY <1>4

LEMMA EmptySlice ==
  ASSUME NEW b \in Seq(Byte), NEW p \in Nat
  PROVE  Slice(b, p, 0) = <<>>
<1>1. \A n \in Nat : Slice(b, p, n) \in Seq(Byte) /\ Len(Slice(b, p, n)) <= n
  <2> SUFFICES ASSUME NEW n \in Nat PROVE Slice(b, p, n) \in Seq(Byte) /\ Len(Slice(b, p, n)) <= n
    OBVIOUS
  <2>1. /\ Slice(b, p, n) \in Seq(Byte)
        /\ Len(Slice(b, p, n)) = IF p + n <= Len(b) THEN n ELSE IF p < Len(b) THEN Len(b) - p ELSE 0
    BY SliceIs
  <2>2. Len(b) \in Nat
    OBVIOUS
  <2>3. QED
    BY <2>1, <2>2
<1>2. 0 \in Nat
  OBVIOUS
<1>3. Slice(b, p, 0) \in Seq(Byte) /\ Len(Slice(b, p, 0)) <= 0
  BY <1>1, <1>2
<1>4. QED
  BY <1>3
--------------------------------------------------------------------------------
(* The inductive invariant: every value has its type, what is not yet on    *)
(* disk lies inside the file, an object that has not strayed is in step,    *)
(* and the end-of-file flag stands only behind a read that came to the end. *)
FileType ==
  /\ open \in BOOLEAN /\ st \in Stream
  /\ m_readPos \in Nat /\ m_writePos \in Nat /\ m_fileSize \in Nat
  /\ m_reading \in BOOLEAN /\ strayed \in BOOLEAN
  /\ out.data \in Seq(Byte) /\ out.from \in Nat
Placed ==
  /\ m_fileSize = Len(st.bytes)
  /\ IF m_reading THEN st.eof \/ st.pos = m_readPos ELSE st.pos = m_writePos
  /\ st.eof => m_reading /\ st.pos >= Len(st.bytes)
  /\ out.data = Slice(st.bytes, out.from, Len(out.data))
FileInv == FileType /\ (Usable => Placed)

LEMMA InvImpliesInStep == FileInv => InStep
BY DEF FileInv, Placed, InStep

LEMMA NothingIs == Nothing.data = <<>> /\ Nothing.from = 0
BY DEF Nothing

LEMMA FreshIs ==
  ASSUME NEW b \in Seq(Byte)
  PROVE  Fresh(b) \in Stream /\ Fresh(b).bytes = b /\ Fresh(b).pos = 0 /\ Fresh(b).eof = FALSE
BY DEF Fresh, Stream

LEMMA GoneReadIs ==
  ASSUME FileInv, Usable
  PROVE  /\ GoneRead \in Stream /\ GoneRead.bytes = st.bytes
         /\ GoneRead.eof => GoneRead.pos >= Len(st.bytes)
         /\ ~GoneRead.eof => GoneRead.pos = m_readPos
<1>1. FileType /\ Placed
  BY DEF FileInv
<1>2. CASE m_reading
  BY <1>1, <1>2 DEF FileType, Placed, GoneRead
<1>3. CASE ~m_reading
  <2>1. Flush(st) \in Stream /\ Flush(st).bytes = st.bytes /\ m_readPos \in Nat
    BY <1>1, FlushIs DEF FileType
  <2>2. GoneRead = Seek(Flush(st), m_readPos)
    BY <1>3 DEF GoneRead
  <2>3. QED
    BY <2>1, <2>2, SeekIs
<1>4. QED
  BY <1>2, <1>3

LEMMA GoneWriteIs ==
  ASSUME FileInv, Usable
  PROVE  /\ GoneWrite \in Stream /\ GoneWrite.bytes = st.bytes
         /\ GoneWrite.pos = m_writePos /\ GoneWrite.eof = FALSE
<1>1. FileType /\ Placed
  BY DEF FileInv
<1>2. CASE ~m_reading
  BY <1>1, <1>2, StreamFields DEF FileType, Placed, GoneWrite
<1>3. CASE m_reading
  <2>1. Flush(st) \in Stream /\ Flush(st).bytes = st.bytes /\ m_writePos \in Nat
    BY <1>1, FlushIs DEF FileType
  <2>2. GoneWrite = Seek(Flush(st), m_writePos)
    BY <1>3 DEF GoneWrite
  <2>3. QED
    BY <2>1, <2>2, SeekIs
<1>4. QED
  BY <1>1, <1>2, <1>3 DEF FileType
--------------------------------------------------------------------------------
(* The steps of ByteFile.                                                   *)
AbsStep == [B!Next]_(B!absVars)

LEMMA SameBytes ==
  ASSUME NEW b, NEW p, NEW d
  PROVE  /\ B!Overlay(b, p, d) = Overlay(b, p, d) /\ B!Slice(b, p, d) = Slice(b, p, d)
         /\ B!From(b, p) = From(b, p) /\ B!Resized(b, p) = Resized(b, p)
BY DEF B!Overlay, Overlay, B!Greatest, Greatest, B!Slice, Slice, B!Least, Least,
       B!From, From, B!Resized, Resized

LEMMA Idles ==
  ASSUME strayed' = strayed,
         strayed \/ (st'.bytes = st.bytes /\ (m_readPos' = m_readPos \/ m_writePos' = m_writePos))
  PROVE  AbsStep
BY DEF AbsStep, B!Next, B!Lose, B!Move, B!absVars

LEMMA Strays == ASSUME strayed' PROVE AbsStep
BY DEF AbsStep, B!Next, B!Lose, B!absVars

LEMMA Reopens ==
  ASSUME ~strayed', m_readPos' = 0, m_writePos' = 0, st'.bytes = st.bytes \/ st'.bytes = <<>>
  PROVE  AbsStep
BY DEF AbsStep, B!Next, B!Reopen, B!absVars

LEMMA NotLost == ASSUME FileInv PROVE st.bytes # <<-1>>
<1>1. st.bytes \in Seq(Byte)
  BY StreamFields DEF FileInv, FileType
<1>2. <<-1>> \notin Seq(Byte)
  BY DEF Byte
<1>3. QED
  BY <1>1, <1>2

(* Nothing is handed out.                                                   *)
LEMMA HandsOutNothing ==
  ASSUME out' = Nothing, st' \in Stream
  PROVE  /\ out'.data \in Seq(Byte) /\ out'.from \in Nat
         /\ out'.data = Slice(st'.bytes, out'.from, Len(out'.data))
<1>1. out'.data = <<>> /\ out'.from = 0 /\ Len(<<>>) = 0 /\ st'.bytes \in Seq(Byte)
  BY NothingIs, StreamFields
<1>2. Slice(st'.bytes, 0, 0) = <<>>
  BY <1>1, EmptySlice
<1>3. QED
  BY <1>1, <1>2
--------------------------------------------------------------------------------
(* What each call does to the invariant, and what it is in ByteFile.        *)
Done == FileInv' /\ AbsStep

LEMMA InitInv == Init => FileInv
<1> SUFFICES ASSUME Init PROVE FileInv
  OBVIOUS
<1>1. st \in Stream
  <2>1. <<>> \in Seq(Byte) /\ Files \subseteq Seq(Byte)
    BY FileAssumption
  <2>2. PICK f \in Files \union {<<>>} : st = Fresh(f)
    BY DEF Init
  <2>3. QED
    BY <2>1, <2>2, FreshIs
<1>2. out.data = <<>> /\ out.from = 0 /\ <<>> \in Seq(Byte)
  BY NothingIs DEF Init
<1>3. open = FALSE /\ m_readPos = 0 /\ m_writePos = 0 /\ m_fileSize = 0 /\ m_reading = TRUE /\ strayed = FALSE
  BY DEF Init
<1>4. QED
  <2>1. ~Usable
    BY <1>3 DEF Usable
  <2>2. 0 \in Nat
    OBVIOUS
  <2>3. FileType
    BY <1>1, <1>2, <1>3, <2>2 DEF FileType
  <2>4. QED
    BY <2>1, <2>3 DEF FileInv

LEMMA RefuseDone == ASSUME FileInv, NEW res, Refuse(res) PROVE Done
<1>1. /\ out' = Nothing
      /\ UNCHANGED <<open, st, m_readPos, m_writePos, m_fileSize, m_reading, strayed>>
  BY DEF Refuse, Return, Result
<1>2. st' \in Stream
  BY <1>1 DEF FileInv, FileType
<1>3. FileType' /\ (Usable' => Placed')
  BY <1>1, <1>2, HandsOutNothing DEF FileInv, FileType, Placed, Usable
<1>4. AbsStep
  BY <1>1, Idles
<1>5. QED
  BY <1>3, <1>4 DEF Done, FileInv

LEMMA OpenDone ==
  ASSUME FileInv, NEW createNew \in BOOLEAN, NEW readOnly \in BOOLEAN, Open(createNew, readOnly)
  PROVE  Done
<1> DEFINE first   == access = "rw" \/ (access = "r" /\ readOnly)
           created == ~first /\ createNew /\ access = "none"
           bytes   == IF created THEN <<>> ELSE st.bytes
<1>0. bytes \in Seq(Byte)
  BY StreamFields DEF FileInv, FileType
<1>1. CASE first \/ created
  <2>1. /\ open' = TRUE /\ st' = Fresh(bytes) /\ m_fileSize' = Len(bytes)
        /\ m_readPos' = 0 /\ m_writePos' = 0 /\ m_reading' = TRUE
        /\ out' = Nothing /\ strayed' = FALSE
    BY <1>1 DEF Open, Reset, Return, Result
  <2> HIDE DEF bytes
  <2>2. st' \in Stream /\ st'.bytes = bytes /\ st'.pos = 0 /\ st'.eof = FALSE /\ Len(bytes) \in Nat
    <3>1. /\ Fresh(bytes) \in Stream /\ Fresh(bytes).bytes = bytes
          /\ Fresh(bytes).pos = 0 /\ Fresh(bytes).eof = FALSE
      BY <1>0, FreshIs
    <3>2. QED
      BY <1>0, <2>1, <3>1
  <2>3. FileType' /\ Placed'
    BY <2>1, <2>2, HandsOutNothing DEF FileType, Placed
  <2>4. AbsStep
    BY <2>1, <2>2, Reopens DEF bytes
  <2>5. QED
    BY <2>3, <2>4 DEF Done, FileInv
<1>2. CASE ~(first \/ created)
  <2>1. /\ out' = Nothing /\ open = FALSE
        /\ UNCHANGED <<open, st, m_readPos, m_writePos, m_fileSize, m_reading, strayed>>
    BY <1>2 DEF Open, Return, Result, FileInv, FileType
  <2>2. st' \in Stream
    BY <2>1 DEF FileInv, FileType
  <2>3. FileType' /\ ~Usable'
    BY <2>1, <2>2, HandsOutNothing DEF FileInv, FileType, Usable
  <2>4. AbsStep
    BY <2>1, Idles
  <2>5. QED
    BY <2>3, <2>4 DEF Done, FileInv
<1>3. QED
  BY <1>1, <1>2

LEMMA CreateDone == ASSUME FileInv, Create PROVE Done
<1>1. CASE access = "r"
  BY <1>1, RefuseDone DEF Create
<1>2. CASE access # "r"
  <2>1. /\ open' = TRUE /\ st' = Fresh(<<>>) /\ m_fileSize' = 0
        /\ m_readPos' = 0 /\ m_writePos' = 0 /\ m_reading' = TRUE
        /\ out' = Nothing /\ strayed' = FALSE
    BY <1>2 DEF Create, Reset, Return, Result
  <2>2. st' \in Stream /\ st'.bytes = <<>> /\ st'.pos = 0 /\ st'.eof = FALSE
    <3>1. <<>> \in Seq(Byte)
      OBVIOUS
    <3>2. /\ Fresh(<<>>) \in Stream /\ Fresh(<<>>).bytes = <<>>
          /\ Fresh(<<>>).pos = 0 /\ Fresh(<<>>).eof = FALSE
      BY <3>1, FreshIs
    <3>3. QED
      BY <2>1, <3>2
  <2>3. FileType' /\ Placed'
    BY <2>1, <2>2, HandsOutNothing DEF FileType, Placed
  <2>4. AbsStep
    BY <2>1, <2>2, Reopens
  <2>5. QED
    BY <2>3, <2>4 DEF Done, FileInv
<1>3. QED
  BY <1>1, <1>2

LEMMA CloseDone == ASSUME FileInv, NEW delete \in BOOLEAN, Close(delete) PROVE Done
<1> DEFINE bytes == IF delete /\ Erased THEN <<>> ELSE st.bytes
<1>0. bytes \in Seq(Byte)
  BY StreamFields DEF FileInv, FileType
<1>1. /\ open' = FALSE /\ st' = Fresh(bytes) /\ m_fileSize' = 0
      /\ m_readPos' = 0 /\ m_writePos' = 0 /\ m_reading' = TRUE
      /\ out' = Nothing /\ strayed' = strayed
  BY DEF Close, Reset, Return, Result
<1> HIDE DEF bytes
<1>2. st' \in Stream /\ st'.bytes = bytes
  BY <1>0, <1>1, FreshIs
<1>3. FileType' /\ ~Usable'
  BY <1>1, <1>2, HandsOutNothing DEF FileInv, FileType, Usable
<1>4. AbsStep
  <2>1. CASE strayed
    BY <1>1, <2>1, Idles
  <2>2. CASE ~strayed
    BY <1>1, <1>2, <2>2, Reopens DEF bytes
  <2>3. QED
    BY <2>1, <2>2
<1>5. QED
  BY <1>3, <1>4 DEF Done, FileInv

LEMMA FlushDataDone == ASSUME FileInv, FlushData PROVE Done
<1>1. /\ Usable /\ st' = Flush(st) /\ out' = Nothing
      /\ UNCHANGED <<open, m_readPos, m_writePos, m_fileSize, m_reading, strayed>>
  BY DEF FlushData, Return, Result, OnlyPlace
<1>2. st' \in Stream /\ st'.bytes = st.bytes /\ st'.pos = st.pos /\ st'.eof = st.eof
  BY <1>1, FlushIs DEF FileInv, FileType
<1>3. FileType' /\ Placed'
  BY <1>1, <1>2, HandsOutNothing DEF FileInv, FileType, Placed
<1>4. AbsStep
  BY <1>1, <1>2, Idles
<1>5. QED
  BY <1>3, <1>4 DEF Done, FileInv

LEMMA ReadDataDone == ASSUME FileInv, NEW n \in Sizes, ReadData(n) PROVE Done
<1> DEFINE g == GoneRead
           r == Read(g, n)
<1>0. n \in Nat /\ Usable /\ FileType /\ Placed
  BY FileAssumption DEF ReadData, FileInv
<1>1. /\ st' = r /\ m_reading' = TRUE
      /\ UNCHANGED <<open, m_writePos, m_fileSize, strayed>>
      /\ r.eof => out' = Nothing /\ m_readPos' = m_readPos
      /\ ~r.eof => /\ out' = [data |-> Got(g, n), from |-> m_readPos]
                   /\ m_readPos' = m_readPos + n
  BY DEF ReadData, Return, Result, OnlyPlace
<1>2. /\ g \in Stream /\ g.bytes = st.bytes
      /\ g.eof => g.pos >= Len(st.bytes)
      /\ ~g.eof => g.pos = m_readPos
  BY <1>0, GoneReadIs
<1> HIDE DEF g
<1>3. /\ g.pos \in Nat /\ Len(st.bytes) \in Nat /\ m_readPos \in Nat /\ st.bytes \in Seq(Byte)
      /\ g.eof \in BOOLEAN
  BY <1>0, <1>2, StreamFields DEF FileType
<1>4. /\ Got(g, n) \in Seq(Byte) /\ Got(g, n) = Slice(st.bytes, g.pos, n)
      /\ Len(Got(g, n)) = IF g.pos + n <= Len(st.bytes) THEN n
                          ELSE IF g.pos < Len(st.bytes) THEN Len(st.bytes) - g.pos ELSE 0
      /\ r \in Stream /\ r.bytes = st.bytes /\ r.pos = g.pos + Len(Got(g, n))
      /\ r.eof <=> g.eof \/ Len(Got(g, n)) < n
  BY <1>0, <1>2, ReadIs
<1> DEFINE got == Got(g, n)
           l == Len(got)
<1>5. l \in Nat /\ r.eof \in BOOLEAN
  BY <1>4, StreamFields
<1> HIDE DEF r
<1>6. Usable' /\ st' \in Stream /\ st'.bytes = st.bytes /\ m_fileSize' = Len(st'.bytes)
  BY <1>0, <1>1, <1>4 DEF Usable, Placed
<1>7. CASE r.eof
  <2>1. r.pos >= Len(st.bytes)
    <3> HIDE DEF l, got
    <3>1. CASE g.eof
      BY <1>2, <1>3, <1>4, <1>5, <3>1 DEF l, got
    <3>2. CASE ~g.eof
      <4>1. l < n /\ r.pos = g.pos + l
        BY <1>4, <1>7, <3>2 DEF l, got
      <4>2. l = IF g.pos + n <= Len(st.bytes) THEN n
                ELSE IF g.pos < Len(st.bytes) THEN Len(st.bytes) - g.pos ELSE 0
        BY <1>4 DEF l, got
      <4>3. QED
        BY <1>0, <1>3, <1>5, <4>1, <4>2
    <3>3. QED
      BY <3>1, <3>2
  <2>2. out' = Nothing
    BY <1>1, <1>7
  <2>3. FileType' /\ Placed'
    BY <1>0, <1>1, <1>6, <1>7, <2>1, <2>2, HandsOutNothing DEF FileType, Placed
  <2>4. QED
    BY <1>1, <1>6, <1>7, <2>3, Idles DEF Done, FileInv
<1>8. CASE ~r.eof
  <2>1. l >= n /\ g.pos = m_readPos /\ r.pos = g.pos + l
    BY <1>0, <1>2, <1>4, <1>5, <1>8
  <2>2. l = n
    BY <1>0, <1>3, <1>4, <1>5, <2>1
  <2>3. out'.data = got /\ out'.from = m_readPos
    BY <1>1, <1>8
  <2>4. got = Slice(st.bytes, m_readPos, Len(got))
    BY <1>4, <2>1, <2>2
  <2> HIDE DEF l, got
  <2>5. st'.pos = m_readPos' /\ m_readPos' \in Nat
    BY <1>0, <1>1, <1>3, <1>8, <2>1, <2>2
  <2>6. FileType'
    BY <1>0, <1>1, <1>3, <1>4, <1>6, <2>3, <2>5 DEF FileType, got
  <2>7. Placed'
    BY <1>1, <1>6, <1>8, <2>3, <2>4, <2>5 DEF Placed
  <2>8. QED
    BY <1>1, <1>6, <2>6, <2>7, Idles DEF Done, FileInv
<1>9. QED
  BY <1>5, <1>7, <1>8

LEMMA ReadTerminatedDataDone ==
  ASSUME FileInv, NEW n \in Sizes, NEW terminator, ReadTerminatedData(n, terminator)
  PROVE  Done
<1> DEFINE g == GoneRead
           r == Read(g, 1)
           c == Got(g, 1)
           k == IF r.eof THEN 0 ELSE IF c[1] = terminator THEN 1 ELSE n
           data == [j \in 1 .. k |-> c[1]]
<1>0. n \in Nat /\ n > 0 /\ Usable /\ FileType /\ Placed
  BY FileAssumption DEF ReadTerminatedData, FileInv
<1>1. /\ st' = r /\ m_reading' = TRUE /\ m_readPos' = m_readPos + k
      /\ UNCHANGED <<open, m_writePos, m_fileSize>>
      /\ out' = [data |-> data, from |-> m_readPos]
      /\ strayed' = (k > 1)
  BY DEF ReadTerminatedData, Result, Stays
<1>2. /\ g \in Stream /\ g.bytes = st.bytes
      /\ g.eof => g.pos >= Len(st.bytes)
      /\ ~g.eof => g.pos = m_readPos
  BY <1>0, GoneReadIs
<1> HIDE DEF g
<1>3. /\ g.pos \in Nat /\ Len(st.bytes) \in Nat /\ m_readPos \in Nat /\ st.bytes \in Seq(Byte)
      /\ g.eof \in BOOLEAN
  BY <1>0, <1>2, StreamFields DEF FileType
<1>4. /\ c \in Seq(Byte) /\ c = Slice(st.bytes, g.pos, 1)
      /\ Len(c) = IF g.pos + 1 <= Len(st.bytes) THEN 1
                  ELSE IF g.pos < Len(st.bytes) THEN Len(st.bytes) - g.pos ELSE 0
      /\ r \in Stream /\ r.bytes = st.bytes /\ r.pos = g.pos + Len(c)
      /\ r.eof <=> g.eof \/ Len(c) < 1
  <2>1. \A m \in Nat :
          /\ Got(g, m) \in Seq(Byte) /\ Got(g, m) = Slice(g.bytes, g.pos, m)
          /\ Len(Got(g, m)) = IF g.pos + m <= Len(g.bytes) THEN m
                              ELSE IF g.pos < Len(g.bytes) THEN Len(g.bytes) - g.pos ELSE 0
          /\ Read(g, m) \in Stream
          /\ Read(g, m).bytes = g.bytes /\ Read(g, m).pos = g.pos + Len(Got(g, m))
          /\ Read(g, m).eof <=> g.eof \/ Len(Got(g, m)) < m
    BY <1>2, ReadIs
  <2>2. 1 \in Nat
    OBVIOUS
  <2>3. QED
    BY <1>2, <2>1, <2>2
<1>5. r.eof \in BOOLEAN /\ Len(c) \in Nat
  BY <1>4, StreamFields
<1> HIDE DEF r, c
<1>6. open' /\ st' \in Stream /\ st'.bytes = st.bytes /\ m_fileSize' = Len(st'.bytes)
  BY <1>0, <1>1, <1>4 DEF Usable, Placed
<1>7. k \in Nat /\ (k > 0 => ~r.eof) /\ (r.eof => k = 0)
  BY <1>0
<1>8. ~r.eof => Len(c) = 1 /\ c[1] \in Byte /\ g.pos = m_readPos
  <2>1. ~r.eof => Len(c) = 1 /\ ~g.eof
    <3> HIDE DEF k, data
    <3>1. ~r.eof => ~(Len(c) < 1) /\ ~g.eof
      BY <1>4
    <3>2. Len(c) = IF g.pos + 1 <= Len(st.bytes) THEN 1
                   ELSE IF g.pos < Len(st.bytes) THEN Len(st.bytes) - g.pos ELSE 0
      BY <1>4
    <3>3. Len(c) <= 1
      BY <1>3, <1>5, <3>2
    <3>4. SUFFICES ASSUME ~r.eof PROVE Len(c) = 1 /\ ~g.eof
      OBVIOUS
    <3>5. ~(Len(c) < 1) /\ ~g.eof
      BY <3>1, <3>4
    <3> DEFINE l == Len(c)
    <3>a. l \in Nat /\ l <= 1 /\ ~(l < 1)
      BY <1>5, <3>3, <3>5
    <3> HIDE DEF l
    <3>b. l = 1
      BY <3>a
    <3>6. Len(c) = 1
      BY <3>b DEF l
    <3>7. QED
      BY <3>5, <3>6
  <2>2. QED
    BY <1>2, <1>4, <2>1
<1>9. data \in Seq(Byte) /\ Len(data) = k /\ \A j \in 1 .. k : data[j] = c[1]
  <2> HIDE DEF k
  <2>1. \A j \in 1 .. k : c[1] \in Byte
    BY <1>7, <1>8
  <2>2. QED
    BY <1>7, <2>1
<1>10. out'.data = data /\ out'.from = m_readPos
  BY <1>1
<1>11. FileType'
  <2>1. m_readPos + k \in Nat /\ strayed' \in BOOLEAN
    BY <1>1, <1>3, <1>7
  <2> HIDE DEF k, data
  <2>2. QED
    BY <1>0, <1>1, <1>3, <1>6, <1>9, <1>10, <2>1 DEF FileType
<1>12. CASE k > 1
  <2>1. strayed'
    BY <1>1, <1>12
  <2>2. QED
    BY <1>11, <2>1, Strays DEF Done, FileInv, Usable
<1>13. CASE r.eof
  <2>1. ~strayed' /\ m_readPos' = m_readPos /\ strayed' = strayed
    <3>1. k = 0 /\ strayed' = (k > 1) /\ m_readPos' = m_readPos + k
      BY <1>1, <1>7, <1>13
    <3>2. strayed = FALSE /\ strayed' \in BOOLEAN
      BY <1>0, <1>11 DEF FileType, Usable
    <3> HIDE DEF k
    <3>a. ~(k > 1)
      BY <3>1
    <3>b. ~strayed'
      BY <3>1, <3>a, Zenon
    <3>3. ~strayed' /\ m_readPos' = m_readPos
      BY <1>3, <3>1, <3>b
    <3>4. QED
      BY <3>2, <3>3
  <2>2. st'.pos >= Len(st.bytes) /\ st'.eof
    <3>1. st'.pos = g.pos + Len(c) /\ (g.eof \/ Len(c) < 1)
      BY <1>1, <1>4, <1>13
    <3>2. Len(c) < 1 => g.pos >= Len(st.bytes)
      BY <1>3, <1>4
    <3>3. QED
      BY <1>1, <1>2, <1>3, <1>5, <1>13, <3>1, <3>2
  <2>3. data = <<>>
    BY <1>7, <1>9, <1>13
  <2>4. Slice(st'.bytes, m_readPos, 0) = <<>>
    BY <1>3, <1>6, EmptySlice
  <2>5. Placed'
    BY <1>1, <1>6, <1>10, <2>2, <2>3, <2>4 DEF Placed
  <2>6. QED
    BY <1>0, <1>6, <1>11, <2>1, <2>5, Idles DEF Done, FileInv, Usable
<1>14. CASE ~r.eof /\ k = 1
  <2>1. ~strayed' /\ st'.pos = m_readPos'
    BY <1>1, <1>3, <1>4, <1>8, <1>14
  <2>2. data = c
    BY <1>4, <1>8, <1>9, <1>14, SeqEqual
  <2>3. c = Slice(st'.bytes, m_readPos, Len(c))
    BY <1>4, <1>6, <1>8, <1>14
  <2> HIDE DEF k, data
  <2>4. ~st'.eof
    BY <1>1, <1>14
  <2>5. Placed'
    BY <1>1, <1>6, <1>10, <2>1, <2>2, <2>3, <2>4 DEF Placed
  <2>6. AbsStep
    <3>1. strayed' = strayed /\ m_writePos' = m_writePos
      BY <1>0, <1>1, <1>11, <2>1 DEF FileType, Usable
    <3>2. QED
      BY <1>6, <3>1, Idles
  <2>7. QED
    BY <1>11, <2>5, <2>6 DEF Done, FileInv
<1>15. QED
  BY <1>0, <1>5, <1>12, <1>13, <1>14

LEMMA FindDone == ASSUME FileInv, NEW needle \in Data, Find(needle) PROVE Done
<1> DEFINE g == GoneRead
           b == From(g.bytes, g.pos)
           N == Len(needle)
           c == Matched(needle, b)
           to == m_readPos + c.at - (IF c.found = N THEN N ELSE 0)
<1>0. needle \in Seq(Byte) /\ N \in Nat /\ N > 0 /\ Usable /\ FileType /\ Placed
  <2>1. needle \in Seq(Byte) /\ needle # <<>>
    BY FileAssumption DEF Find
  <2>2. Usable /\ FileType /\ Placed
    BY DEF Find, FileInv
  <2>3. QED
    BY <2>1, <2>2
<1>1. /\ m_readPos' = to /\ m_reading' = TRUE
      /\ UNCHANGED <<open, m_writePos, m_fileSize, strayed>>
      /\ c.found = N => st' = Seek(g, to) /\ out' = [data |-> needle, from |-> to]
      /\ c.found # N => st' = [g EXCEPT !.pos = @ + c.at, !.eof = TRUE] /\ out' = Nothing
  BY DEF Find, Return, Result, OnlyPlace
<1>2. /\ g \in Stream /\ g.bytes = st.bytes
      /\ g.eof => g.pos >= Len(st.bytes)
      /\ ~g.eof => g.pos = m_readPos
  BY <1>0, GoneReadIs
<1> HIDE DEF g
<1>3. /\ g.pos \in Nat /\ Len(st.bytes) \in Nat /\ m_readPos \in Nat /\ st.bytes \in Seq(Byte)
      /\ g.eof \in BOOLEAN
  BY <1>0, <1>2, StreamFields DEF FileType
<1>4. /\ b \in Seq(Byte)
      /\ Len(b) = IF g.pos < Len(st.bytes) THEN Len(st.bytes) - g.pos ELSE 0
      /\ \A i \in 1 .. Len(b) : b[i] = st.bytes[g.pos + i]
  <2>1. g.bytes \in Seq(Byte)
    BY <1>2, <1>3
  <2>2. /\ From(g.bytes, g.pos) \in Seq(Byte)
        /\ Len(From(g.bytes, g.pos)) = IF g.pos < Len(g.bytes) THEN Len(g.bytes) - g.pos ELSE 0
        /\ \A i \in 1 .. Len(From(g.bytes, g.pos)) : From(g.bytes, g.pos)[i] = g.bytes[g.pos + i]
    BY <1>3, <2>1, FromIs
  <2> HIDE DEF b
  <2>3. QED
    BY <1>2, <2>2 DEF b
<1> HIDE DEF b
<1>5. /\ c.at \in Nat /\ c.at <= Len(b) /\ c.found \in Nat /\ c.found <= N
      /\ c.found <= c.at /\ (c.found < N => c.at = Len(b))
      /\ \A i \in 1 .. c.found : needle[i] = b[c.at - c.found + i]
  BY <1>0, <1>4, MatchedIs
<1> HIDE DEF c, N
<1>6. to \in Nat
  BY <1>0, <1>3, <1>5
<1>7. Len(b) \in Nat
  BY <1>4
<1>8. CASE c.found = N
  <2>1. g.pos = m_readPos /\ c.at >= N /\ to = m_readPos + c.at - N /\ to + N <= Len(st.bytes)
    <3>1. c.at >= N /\ c.at > 0 /\ Len(b) > 0
      BY <1>0, <1>5, <1>7, <1>8
    <3>2. g.pos < Len(st.bytes) /\ Len(b) = Len(st.bytes) - g.pos
      BY <1>3, <1>4, <3>1
    <3>3. g.pos = m_readPos
      BY <1>2, <1>3, <3>2
    <3>4. to = m_readPos + c.at - N
      BY <1>8
    <3>5. QED
      BY <1>0, <1>3, <1>5, <1>7, <3>1, <3>2, <3>3, <3>4
  <2> HIDE DEF to
  <2>2. /\ st' \in Stream /\ st'.bytes = st.bytes /\ st'.pos = to /\ st'.eof = FALSE
    <3>1. /\ Seek(g, to) \in Stream /\ Seek(g, to).bytes = g.bytes
          /\ Seek(g, to).pos = to /\ Seek(g, to).eof = FALSE
      BY <1>2, <1>6, SeekIs
    <3>2. QED
      BY <1>1, <1>2, <1>8, <3>1
  <2>3. out'.data = needle /\ out'.from = to
    BY <1>1, <1>8
  <2>4. needle = Slice(st.bytes, to, N)
    <3> DEFINE s == Slice(st.bytes, to, N)
    <3>1. /\ s \in Seq(Byte) /\ Len(s) = N /\ \A i \in 1 .. Len(s) : s[i] = st.bytes[to + i]
      BY <1>0, <1>3, <1>6, <2>1, SliceIs
    <3> HIDE DEF s
    <3>2. ASSUME NEW i \in 1 .. N PROVE needle[i] = s[i]
      <4>1. needle[i] = b[c.at - N + i]
        BY <1>5, <1>8
      <4>2. c.at - N + i \in 1 .. Len(b)
        BY <1>0, <1>5, <1>7, <2>1
      <4>3. b[c.at - N + i] = st.bytes[g.pos + (c.at - N + i)]
        BY <1>4, <4>2
      <4>4. g.pos + (c.at - N + i) = to + i
        BY <1>0, <1>3, <1>5, <2>1
      <4>5. s[i] = st.bytes[to + i]
        BY <3>1
      <4>6. QED
        BY <4>1, <4>3, <4>4, <4>5
    <3>3. needle = s
      BY <1>0, <3>1, <3>2, SeqEqual DEF N
    <3>4. QED
      BY <3>3 DEF s
  <2>5. FileType'
    BY <1>0, <1>1, <1>6, <2>2, <2>3 DEF FileType
  <2>6. Placed'
    BY <1>0, <1>1, <2>2, <2>3, <2>4 DEF Placed, N
  <2>7. QED
    BY <1>1, <2>2, <2>5, <2>6, Idles DEF Done, FileInv
<1>9. CASE c.found # N
  <2>1. c.at = Len(b)
    BY <1>0, <1>5, <1>9
  <2> DEFINE at == g.pos + c.at
  <2>2. at >= Len(st.bytes) /\ at \in Nat
    BY <1>3, <1>4, <1>5, <2>1
  <2>3. st' = [g EXCEPT !.pos = at, !.eof = TRUE] /\ out' = Nothing
    <3>1. g \in [bytes : Seq(Byte), pos : Nat, pending : Nat, eof : BOOLEAN]
      BY <1>2 DEF Stream
    <3>2. QED
      BY <1>1, <1>9, <3>1
  <2>4. g.pending > 0 => at <= Len(st.bytes)
    <3>1. g.pending > 0 => g.pos <= Len(st.bytes)
      BY <1>2, StreamFields
    <3>2. QED
      BY <1>3, <1>4, <2>1, <3>1
  <2> HIDE DEF at, to
  <2>5. st' \in Stream /\ st'.bytes = st.bytes /\ st'.pos = at /\ st'.eof = TRUE
    <3>1. g \in [bytes : Seq(Byte), pos : Nat, pending : Nat, eof : BOOLEAN]
      BY <1>2 DEF Stream
    <3>2. /\ st' \in [bytes : Seq(Byte), pos : Nat, pending : Nat, eof : BOOLEAN]
          /\ st'.bytes = g.bytes /\ st'.pos = at /\ st'.eof = TRUE /\ st'.pending = g.pending
      BY <2>2, <2>3, <3>1
    <3>3. QED
      BY <1>2, <2>4, <3>2 DEF Stream
  <2>6. FileType' /\ Placed'
    BY <1>0, <1>1, <1>6, <2>2, <2>3, <2>5, HandsOutNothing DEF FileType, Placed
  <2>7. QED
    BY <1>1, <2>5, <2>6, Idles DEF Done, FileInv
<1>10. QED
  BY <1>8, <1>9

LEMMA SetReadPositionDone == ASSUME FileInv, NEW p \in Sizes, SetReadPosition(p) PROVE Done
<1>0. p \in Nat /\ Usable /\ FileType /\ Placed
  BY FileAssumption DEF SetReadPosition, FileInv
<1>1. /\ m_readPos' = p /\ out' = Nothing
      /\ st' = IF m_reading /\ p # m_readPos THEN Seek(st, p) ELSE st
      /\ UNCHANGED <<open, m_writePos, m_fileSize, m_reading, strayed>>
  BY DEF SetReadPosition, Return, Result, OnlyPlace
<1>2. /\ Seek(st, p) \in Stream /\ Seek(st, p).bytes = st.bytes
      /\ Seek(st, p).pos = p /\ Seek(st, p).eof = FALSE
  BY <1>0, SeekIs DEF FileType
<1>3. st' \in Stream /\ st'.bytes = st.bytes
  BY <1>0, <1>1, <1>2 DEF FileType
<1>4. IF m_reading THEN st'.eof \/ st'.pos = p ELSE st'.pos = m_writePos
  BY <1>0, <1>1, <1>2 DEF Placed
<1>5. st'.eof => m_reading /\ st'.pos >= Len(st'.bytes)
  BY <1>0, <1>1, <1>2 DEF Placed
<1>6. FileType' /\ Placed'
  BY <1>0, <1>1, <1>3, <1>4, <1>5, HandsOutNothing DEF FileType, Placed
<1>7. QED
  BY <1>1, <1>3, <1>6, Idles DEF Done, FileInv

LEMMA SetWritePositionDone == ASSUME FileInv, NEW p \in Sizes, SetWritePosition(p) PROVE Done
<1>0. p \in Nat /\ Usable /\ FileType /\ Placed
  BY FileAssumption DEF SetWritePosition, Writable, FileInv
<1>1. /\ m_writePos' = p /\ out' = Nothing
      /\ st' = IF ~m_reading /\ p # m_writePos THEN Seek(st, p) ELSE st
      /\ UNCHANGED <<open, m_readPos, m_fileSize, m_reading, strayed>>
  BY DEF SetWritePosition, Return, Result, OnlyPlace
<1>2. /\ Seek(st, p) \in Stream /\ Seek(st, p).bytes = st.bytes
      /\ Seek(st, p).pos = p /\ Seek(st, p).eof = FALSE
  BY <1>0, SeekIs DEF FileType
<1>3. st' \in Stream /\ st'.bytes = st.bytes
  BY <1>0, <1>1, <1>2 DEF FileType
<1>4. IF m_reading THEN st'.eof \/ st'.pos = m_readPos ELSE st'.pos = p
  BY <1>0, <1>1, <1>2 DEF Placed
<1>5. st'.eof => m_reading /\ st'.pos >= Len(st'.bytes)
  BY <1>0, <1>1, <1>2 DEF Placed
<1>6. FileType' /\ Placed'
  BY <1>0, <1>1, <1>3, <1>4, <1>5, HandsOutNothing DEF FileType, Placed
<1>7. QED
  BY <1>1, <1>3, <1>6, Idles DEF Done, FileInv

LEMMA SetWriteEndDone == ASSUME FileInv, SetWriteEnd PROVE Done
<1>0. Usable /\ FileType /\ Placed
  BY DEF SetWriteEnd, Writable, FileInv
<1>1. /\ m_writePos' = Len(st.bytes) /\ out' = Nothing /\ m_reading' = FALSE
      /\ st' = Seek(st, Len(st.bytes))
      /\ UNCHANGED <<open, m_readPos, m_fileSize, strayed>>
  BY DEF SetWriteEnd, SeekEnd, Return, Result, OnlyPlace
<1>2. Len(st.bytes) \in Nat /\ st \in Stream
  BY <1>0, StreamFields DEF FileType
<1>3. st' \in Stream /\ st'.bytes = st.bytes /\ st'.pos = Len(st.bytes) /\ st'.eof = FALSE
  BY <1>1, <1>2, SeekIs
<1>4. FileType' /\ Placed'
  BY <1>0, <1>1, <1>2, <1>3, HandsOutNothing DEF FileType, Placed
<1>5. QED
  BY <1>1, <1>3, <1>4, Idles DEF Done, FileInv

LEMMA WriteDataDone ==
  ASSUME FileInv, NEW d \in Data, NEW k \in 0 .. Len(d), WriteData(d, k)
  PROVE  Done
<1> DEFINE g == GoneWrite
           e == SubSeq(d, 1, k)
<1>0. Usable /\ FileType /\ Placed /\ d \in Seq(Byte) /\ d # <<>>
  BY FileAssumption DEF WriteData, Writable, FileInv
<1>a. Len(d) \in Nat /\ Len(d) > 0 /\ k \in Nat /\ k <= Len(d)
  BY <1>0
<1>1. /\ st' = Write(g, e) /\ m_reading' = FALSE /\ UNCHANGED <<open, m_readPos>> /\ out' = Nothing
      /\ \/ /\ k = Len(d)
            /\ m_writePos' = m_writePos + k /\ m_fileSize' = Greatest(m_fileSize, m_writePos + k)
            /\ strayed' = strayed
         \/ /\ k < Len(d)
            /\ strayed' = (k > 0)
            /\ UNCHANGED <<m_writePos, m_fileSize>>
  BY DEF WriteData, Return, Result, Stays
<1>2. g \in Stream /\ g.bytes = st.bytes /\ g.pos = m_writePos /\ g.eof = FALSE
  BY <1>0, GoneWriteIs
<1>3. /\ st.bytes \in Seq(Byte) /\ Len(st.bytes) \in Nat /\ m_writePos \in Nat
      /\ m_fileSize = Len(st.bytes) /\ strayed = FALSE
  BY <1>0, StreamFields DEF FileType, Placed, Usable
<1>4. e \in Seq(Byte) /\ Len(e) = k
  <2>1. 1 \in Int /\ \A i \in 1 .. k : d[i] \in Byte
    BY <1>0, <1>a
  <2>2. e \in Seq(Byte) /\ Len(e) = IF 1 <= k THEN k - 1 + 1 ELSE 0
    BY <1>a, <2>1, SubSeqProperties
  <2> HIDE DEF e
  <2>3. QED
    BY <1>a, <2>2
<1>5. k = Len(d) => e = d
  BY <1>0
<1> HIDE DEF g, e
<1>6. /\ st' \in Stream /\ st'.bytes = Overlay(st.bytes, m_writePos, e)
      /\ st'.pos = m_writePos + k /\ st'.eof = FALSE
  <2>1. /\ Write(g, e) \in Stream /\ Write(g, e).bytes = Overlay(g.bytes, g.pos, e)
        /\ Write(g, e).pos = g.pos + Len(e) /\ Write(g, e).eof = g.eof
    BY <1>2, <1>4, WriteIs
  <2>2. QED
    BY <1>1, <1>2, <1>4, <2>1
<1>7. m_writePos + k \in Nat /\ Greatest(m_fileSize, m_writePos + k) \in Nat
  BY <1>3, <1>a DEF Greatest
<1>8. CASE k = Len(d)
  <2>1. /\ strayed' = FALSE /\ m_writePos' = m_writePos + k
        /\ m_fileSize' = Greatest(m_fileSize, m_writePos + k)
    BY <1>1, <1>3, <1>8, <1>a
  <2>2. Len(st'.bytes) = Greatest(Len(st.bytes), m_writePos + k)
    <3>1. Len(Overlay(st.bytes, m_writePos, d)) = Greatest(Len(st.bytes), m_writePos + Len(d))
      BY <1>0, <1>3, OverlayIs
    <3>2. QED
      BY <1>5, <1>6, <1>8, <3>1
  <2>3. FileType'
    BY <1>0, <1>1, <1>6, <1>7, <2>1, HandsOutNothing DEF FileType
  <2>4. Placed'
    BY <1>1, <1>3, <1>6, <2>1, <2>2, HandsOutNothing DEF Placed
  <2>5. AbsStep
    <3>1. st.bytes # <<-1>> /\ st'.bytes = Overlay(st.bytes, m_writePos, d) /\ m_writePos' = m_writePos + Len(d)
      BY <1>5, <1>6, <1>8, <2>1, NotLost
    <3>2. m_readPos' = m_readPos
      BY <1>1
    <3>3. B!Write(d)
      BY <1>3, <2>1, <3>1, <3>2, SameBytes DEF B!Write
    <3>4. QED
      BY <1>3, <3>1, <3>3 DEF AbsStep, B!Next
  <2>6. QED
    BY <2>3, <2>4, <2>5 DEF Done, FileInv
<1>9. CASE k < Len(d)
  <2>1. strayed' = (k > 0) /\ UNCHANGED <<m_writePos, m_fileSize>>
    BY <1>1, <1>9, <1>a
  <2>2. FileType'
    <3>1. strayed' \in BOOLEAN
      BY <2>1
    <3>2. QED
      BY <1>0, <1>1, <1>6, <2>1, <3>1, HandsOutNothing DEF FileType
  <2>3. CASE k > 0
    <3>1. strayed'
      BY <2>1, <2>3
    <3>2. QED
      BY <2>2, <3>1, Strays DEF Done, FileInv, Usable
  <2>4. CASE k = 0
    <3>1. e = <<>>
      BY <1>4, <2>4
    <3>2. st'.bytes = st.bytes /\ st'.pos = m_writePos
      BY <1>3, <1>6, <2>4, <3>1 DEF Overlay
    <3>3. Placed'
      BY <1>1, <1>3, <1>6, <2>1, <3>2, HandsOutNothing DEF Placed
    <3>4. strayed' = strayed
      <4>1. ~(k > 0)
        BY <2>4
      <4>2. ~strayed'
        BY <2>1, <4>1, Zenon
      <4>3. QED
        BY <1>3, <2>2, <4>2 DEF FileType
    <3>5. AbsStep
      BY <1>1, <3>2, <3>4, Idles
    <3>6. QED
      BY <2>2, <3>3, <3>5 DEF Done, FileInv
  <2>5. QED
    BY <1>a, <2>3, <2>4
<1>10. QED
  BY <1>a, <1>8, <1>9

LEMMA AppendDataDone == ASSUME FileInv, NEW d \in Data, AppendData(d) PROVE Done
<1> DEFINE at == IF m_reading \/ m_writePos # m_fileSize THEN SeekEnd(st) ELSE st
           b == st.bytes
           z == Overlay(b, Len(b), d)
<1>0. Usable /\ FileType /\ Placed /\ d \in Seq(Byte) /\ d # <<>>
  BY FileAssumption DEF AppendData, Writable, FileInv
<1>1. /\ st' = Write(at, d) /\ m_writePos' = st'.pos /\ m_fileSize' = st'.pos /\ m_reading' = FALSE
      /\ UNCHANGED <<open, m_readPos, strayed>> /\ out' = Nothing
  BY DEF AppendData, Return, Result, Stays
<1>2. b \in Seq(Byte) /\ Len(b) \in Nat /\ m_fileSize = Len(b) /\ strayed = FALSE /\ st \in Stream
  BY <1>0, StreamFields DEF FileType, Placed, Usable
<1>3. at \in Stream /\ at.bytes = b /\ at.pos = Len(b) /\ at.eof = FALSE
  <2>1. CASE m_reading \/ m_writePos # m_fileSize
    <3>1. at = Seek(st, Len(b))
      BY <2>1 DEF SeekEnd
    <3>2. /\ Seek(st, Len(b)) \in Stream /\ Seek(st, Len(b)).bytes = b
          /\ Seek(st, Len(b)).pos = Len(b) /\ Seek(st, Len(b)).eof = FALSE
      BY <1>2, SeekIs
    <3>3. QED
      BY <3>1, <3>2
  <2>2. CASE ~(m_reading \/ m_writePos # m_fileSize)
    BY <1>0, <1>2, <2>2, StreamFields DEF Placed
  <2>3. QED
    BY <2>1, <2>2
<1> HIDE DEF at, b
<1>4. st' \in Stream /\ st'.bytes = z /\ st'.pos = Len(b) + Len(d) /\ st'.eof = FALSE
  <2>1. /\ Write(at, d) \in Stream /\ Write(at, d).bytes = Overlay(at.bytes, at.pos, d)
        /\ Write(at, d).pos = at.pos + Len(d) /\ Write(at, d).eof = at.eof
    BY <1>0, <1>3, WriteIs
  <2>2. QED
    BY <1>1, <1>3, <2>1
<1>5. Len(d) \in Nat /\ Len(d) > 0
  BY <1>0
<1>6. /\ z \in Seq(Byte) /\ Len(z) = Len(b) + Len(d)
      /\ \A i \in 1 .. Len(b) + Len(d) : z[i] = IF i <= Len(b) THEN b[i] ELSE d[i - Len(b)]
  <2>1. /\ z \in Seq(Byte)
        /\ Len(z) = IF d = <<>> THEN Len(b) ELSE Greatest(Len(b), Len(b) + Len(d))
        /\ \A i \in 1 .. Len(z) :
             z[i] = IF i \in Len(b) + 1 .. Len(b) + Len(d) THEN d[i - Len(b)]
                    ELSE IF i <= Len(b) THEN b[i] ELSE 0
    BY <1>0, <1>2, OverlayIs
  <2> HIDE DEF z
  <2>2. Len(z) = Len(b) + Len(d)
    BY <1>0, <1>2, <1>5, <2>1 DEF Greatest
  <2>3. ASSUME NEW i \in 1 .. Len(b) + Len(d) PROVE z[i] = IF i <= Len(b) THEN b[i] ELSE d[i - Len(b)]
    <3>1. z[i] = IF i \in Len(b) + 1 .. Len(b) + Len(d) THEN d[i - Len(b)]
                 ELSE IF i <= Len(b) THEN b[i] ELSE 0
      BY <2>1, <2>2
    <3>2. i \in Len(b) + 1 .. Len(b) + Len(d) <=> ~(i <= Len(b))
      BY <1>2, <1>5
    <3>3. QED
      BY <3>1, <3>2
  <2>4. QED
    BY <2>1, <2>2, <2>3
<1>7. z = b \o d
  <2>1. /\ b \o d \in Seq(Byte) /\ Len(b \o d) = Len(b) + Len(d)
        /\ \A i \in 1 .. Len(b) + Len(d) : (b \o d)[i] = IF i <= Len(b) THEN b[i] ELSE d[i - Len(b)]
    BY <1>0, <1>2, ConcatProperties
  <2> DEFINE y == b \o d
  <2> HIDE DEF y, z
  <2>2. y \in Seq(Byte) /\ Len(y) = Len(z) /\ \A i \in 1 .. Len(z) : z[i] = y[i]
    BY <1>6, <2>1 DEF y
  <2>3. z = y
    BY <1>6, <2>2, SeqEqual
  <2>4. QED
    BY <2>3 DEF y
<1> HIDE DEF z
<1>8. Len(b) + Len(d) \in Nat
  BY <1>2, <1>5
<1>9. FileType' /\ Placed'
  BY <1>0, <1>1, <1>4, <1>6, <1>8, HandsOutNothing DEF FileType, Placed
<1>10. AbsStep
  <2>1. st.bytes # <<-1>> /\ st'.bytes = st.bytes \o d /\ m_writePos' = Len(st'.bytes)
    BY <1>1, <1>4, <1>6, <1>7, NotLost DEF b
  <2>2. B!AppendAll(d)
    BY <1>1, <1>2, <2>1 DEF B!AppendAll
  <2>3. QED
    BY <1>2, <2>1, <2>2 DEF AbsStep, B!Next
<1>11. QED
  BY <1>9, <1>10 DEF Done, FileInv

LEMMA InsertDataDone ==
  ASSUME FileInv, NEW start \in Sizes, NEW d \in Data, InsertData(start, d)
  PROVE  Done
<1> DEFINE s    == Seek(GoneWrite, start)
           size == Greatest(Len(d), Block)
           rest == Greatest(m_fileSize - start, 0)
           n    == Least(size, rest)
           x    == [s |-> Seek(s, start + n), rPos |-> start + n, wPos |-> start + Len(d),
                    held |-> Got(s, n), left |-> rest - n]
           c    == InsertLoop(x, size)
           f    == Write(Seek(Write(Seek(c.s, c.wPos), c.held), start), d)
<1>0. Usable /\ FileType /\ Placed /\ d \in Seq(Byte) /\ start \in Nat /\ Block \in Nat /\ Block > 0
  BY FileAssumption DEF InsertData, Writable, FileInv
<1>1. /\ d = <<>> => st' = s /\ UNCHANGED <<m_writePos, m_fileSize>>
                     /\ strayed' = (start # m_writePos)
      /\ d # <<>> => /\ st' = f /\ m_writePos' = start + Len(d) /\ m_fileSize' = m_fileSize + Len(d)
                     /\ strayed' = (start > m_fileSize)
      /\ m_reading' = FALSE /\ UNCHANGED <<open, m_readPos>> /\ out' = Nothing
  BY DEF InsertData, Return, Result, Stays
<1>2. /\ st.bytes \in Seq(Byte) /\ Len(st.bytes) \in Nat /\ m_writePos \in Nat
      /\ m_fileSize = Len(st.bytes) /\ m_fileSize \in Nat /\ strayed = FALSE
  BY <1>0, StreamFields DEF FileType, Placed, Usable
<1>3. s \in Stream /\ s.bytes = st.bytes /\ s.pos = start /\ s.eof = FALSE
  <2>1. GoneWrite \in Stream /\ GoneWrite.bytes = st.bytes
    BY <1>0, GoneWriteIs
  <2>2. QED
    BY <1>0, <2>1, SeekIs
<1> HIDE DEF s
<1>4. CASE d = <<>>
  <2>1. st' = s /\ UNCHANGED <<m_writePos, m_fileSize>> /\ strayed' = (start # m_writePos)
    BY <1>1, <1>4
  <2>2. FileType'
    <3>1. strayed' \in BOOLEAN
      BY <2>1
    <3>2. QED
      BY <1>0, <1>1, <1>3, <2>1, <3>1, HandsOutNothing DEF FileType
  <2>3. CASE start # m_writePos
    <3>1. strayed'
      BY <2>1, <2>3
    <3>2. QED
      BY <2>2, <3>1, Strays DEF Done, FileInv, Usable
  <2>4. CASE start = m_writePos
    <3>1. strayed' = strayed
      <4>1. ~strayed'
        BY <2>1, <2>4
      <4>2. QED
        BY <1>2, <2>2, <4>1 DEF FileType
    <3>2. Placed'
      BY <1>1, <1>2, <1>3, <2>1, <2>4, HandsOutNothing DEF Placed
    <3>3. AbsStep
      BY <1>1, <1>3, <2>1, <3>1, Idles
    <3>4. QED
      BY <2>2, <3>2, <3>3 DEF Done, FileInv
  <2>5. QED
    BY <2>3, <2>4
<1>5. CASE d # <<>>
  <2>0. Len(d) \in Nat /\ Len(d) > 0
    BY <1>0, <1>5
  <2>1. size \in Nat /\ size > 0 /\ Len(d) <= size
    BY <1>0, <2>0 DEF Greatest
  <2>2. rest \in Nat
    BY <1>0, <1>2 DEF Greatest
  <2>3. /\ st' = f /\ m_writePos' = start + Len(d) /\ m_fileSize' = m_fileSize + Len(d)
        /\ strayed' = (start > m_fileSize)
    BY <1>1, <1>5
  <2> HIDE DEF size, rest
  <2>4. n \in Nat /\ n <= rest
    BY <2>1, <2>2 DEF Least
  <2> HIDE DEF n
  <2>5. x \in Copying
    <3>1. start + n \in Nat /\ start + Len(d) \in Nat /\ rest - n \in Nat
      BY <1>0, <2>0, <2>2, <2>4
    <3>2. Seek(s, start + n) \in Stream /\ Got(s, n) \in Seq(Byte)
      BY <1>3, <2>4, <3>1, SeekIs, ReadIs
    <3>3. QED
      BY <3>1, <3>2 DEF Copying
  <2>6. f \in Stream
    <3> HIDE DEF x
    <3>1. c \in Copying
      BY <2>1, <2>5, InsertLoopType
    <3> HIDE DEF c
    <3>2. c.s \in Stream /\ c.wPos \in Nat /\ c.held \in Seq(Byte)
      BY <3>1 DEF Copying
    <3>3. Seek(c.s, c.wPos) \in Stream
      BY <3>2, SeekIs
    <3>4. Write(Seek(c.s, c.wPos), c.held) \in Stream
      BY <3>2, <3>3, WriteIs
    <3>5. Seek(Write(Seek(c.s, c.wPos), c.held), start) \in Stream
      BY <1>0, <3>4, SeekIs
    <3>6. QED
      BY <1>0, <3>5, WriteIs
  <2>7. FileType'
    <3>1. strayed' \in BOOLEAN /\ start + Len(d) \in Nat /\ m_fileSize + Len(d) \in Nat
      BY <1>0, <1>2, <2>0, <2>3
    <3> HIDE DEF f
    <3>2. QED
      BY <1>0, <1>1, <2>3, <2>6, <3>1, HandsOutNothing DEF FileType
  <2>8. CASE start > m_fileSize
    <3>1. strayed'
      BY <2>3, <2>8
    <3>2. QED
      BY <2>7, <3>1, Strays DEF Done, FileInv, Usable
  <2>9. CASE start <= m_fileSize
    <3>1. rest = Len(s.bytes) - start
      BY <1>0, <1>2, <1>3, <2>9 DEF rest, Greatest
    <3>2. f.bytes = Spliced(s.bytes, start, d) /\ f.pos = start + Len(d)
      <4>1. LET Rest == Len(s.bytes) - start
                N == Least(size, Rest)
                C == InsertLoop([s |-> Seek(s, start + N), rPos |-> start + N, wPos |-> start + Len(d),
                                 held |-> Got(s, N), left |-> Rest - N], size)
                F == Write(Seek(Write(Seek(C.s, C.wPos), C.held), start), d)
            IN F.bytes = Spliced(s.bytes, start, d) /\ F.pos = start + Len(d)
        BY <1>0, <1>2, <1>3, <1>5, <2>1, <2>9, InsertCopies
      <4>2. QED
        BY <3>1, <4>1 DEF n
    <3> HIDE DEF f
    <3>3. f.eof = FALSE
      <4> HIDE DEF x
      <4>1. c \in Copying
        BY <2>1, <2>5, InsertLoopType
      <4> HIDE DEF c
      <4>2. c.s \in Stream /\ c.wPos \in Nat /\ c.held \in Seq(Byte)
        BY <4>1 DEF Copying
      <4> DEFINE w == Write(Seek(c.s, c.wPos), c.held)
      <4>3. w \in Stream
        BY <4>2, SeekIs, WriteIs
      <4> HIDE DEF w
      <4>4. Seek(w, start) \in Stream /\ Seek(w, start).eof = FALSE
        BY <1>0, <4>3, SeekIs
      <4>5. Write(Seek(w, start), d).eof = FALSE
        BY <1>0, <4>4, WriteIs
      <4>6. QED
        BY <4>5 DEF f, w
    <3>4. ~strayed' /\ strayed' = strayed
      <4>1. ~(start > m_fileSize)
        BY <1>0, <1>2, <2>9
      <4>2. ~strayed'
        BY <2>3, <4>1, Zenon
      <4>3. QED
        BY <1>2, <2>7, <4>2 DEF FileType
    <3>5. st'.bytes = Spliced(st.bytes, start, d) /\ Len(st'.bytes) = m_fileSize'
      <4>1. Len(Spliced(st.bytes, start, d)) = Len(st.bytes) + Len(d)
        BY <1>0, <1>2, <2>9, SplicedIs
      <4>2. QED
        BY <1>2, <1>3, <2>3, <3>2, <4>1
    <3>6. Placed'
      BY <1>1, <2>3, <2>6, <3>2, <3>3, <3>5, HandsOutNothing DEF Placed
    <3>7. B!Insert(start, d)
      BY <1>1, <1>2, <2>3, <2>9, <3>4, <3>5, SameBytes DEF B!Insert, Spliced
    <3>8. AbsStep
      BY <1>2, <3>7, NotLost DEF AbsStep, B!Next
    <3>9. QED
      BY <2>7, <3>6, <3>8 DEF Done, FileInv
  <2>10. QED
    BY <1>0, <1>2, <2>8, <2>9
<1>6. QED
  BY <1>4, <1>5

LEMMA DeleteDataDone ==
  ASSUME FileInv, NEW start \in Sizes, NEW length \in Sizes, DeleteData(start, length)
  PROVE  Done
<1> DEFINE g    == GoneWrite
           rest == m_fileSize - (start + length)
           x    == [s |-> IF rest > 0 THEN Seek(g, start + length) ELSE g,
                    rPos |-> start + length, wPos |-> start, left |-> Greatest(rest, 0)]
           c    == DeleteLoop(x)
<1>0. Usable /\ FileType /\ Placed /\ start \in Nat /\ length \in Nat
  BY FileAssumption DEF DeleteData, Writable, FileInv
<1>1. /\ m_fileSize' = IF rest > 0 THEN m_fileSize - length ELSE start
      /\ st' = Seek(Truncate(c.s, m_fileSize'), c.wPos)
      /\ strayed' = (rest > 0 \/ (g.pending > 0 /\ g.pos > start))
      /\ m_writePos' = start /\ m_reading' = FALSE /\ UNCHANGED <<open, m_readPos>> /\ out' = Nothing
  BY DEF DeleteData, Return, Result, Stays
<1>2. /\ st.bytes \in Seq(Byte) /\ Len(st.bytes) \in Nat /\ m_writePos \in Nat
      /\ m_fileSize = Len(st.bytes) /\ m_fileSize \in Nat /\ strayed = FALSE
  BY <1>0, StreamFields DEF FileType, Placed, Usable
<1>3. g \in Stream /\ g.bytes = st.bytes
  BY <1>0, GoneWriteIs
<1> HIDE DEF g
<1>4. rest \in Int /\ start + length \in Nat /\ Greatest(rest, 0) \in Nat
      /\ (~(rest > 0) => Greatest(rest, 0) = 0)
  BY <1>0, <1>2 DEF Greatest
<1>5. m_fileSize' \in Nat
  BY <1>0, <1>1, <1>2
<1> HIDE DEF rest
<1>6. x \in Pulling
  <2>1. Seek(g, start + length) \in Stream
    BY <1>3, <1>4, SeekIs
  <2>2. QED
    BY <1>0, <1>3, <1>4, <2>1 DEF Pulling
<1>7. x.left = Greatest(rest, 0) /\ x.wPos = start /\ (~(rest > 0) => x.s = g)
  OBVIOUS
<1> HIDE DEF x
<1>8. c \in Pulling /\ (x.left = 0 => c = x)
  BY <1>6, DeleteLoopType
<1> HIDE DEF c
<1>9. c.s \in Stream /\ c.wPos \in Nat
  BY <1>8 DEF Pulling
<1> DEFINE t == Truncate(c.s, m_fileSize')
<1>10. t \in Stream
  BY <1>5, <1>9, TruncateIs
<1>11. st' \in Stream /\ st'.bytes = t.bytes /\ st'.pos = c.wPos /\ st'.eof = FALSE
  <2>1. /\ Seek(t, c.wPos) \in Stream /\ Seek(t, c.wPos).bytes = t.bytes
        /\ Seek(t, c.wPos).pos = c.wPos /\ Seek(t, c.wPos).eof = FALSE
    BY <1>9, <1>10, SeekIs
  <2>2. QED
    BY <1>1, <2>1
<1> HIDE DEF t
<1>12. FileType'
  <2>1. strayed' \in BOOLEAN
    BY <1>1
  <2>2. QED
    BY <1>0, <1>1, <1>5, <1>11, <2>1, HandsOutNothing DEF FileType
<1>13. CASE rest > 0 \/ (g.pending > 0 /\ g.pos > start)
  <2>1. strayed'
    BY <1>1, <1>13
  <2>2. QED
    BY <1>12, <2>1, Strays DEF Done, FileInv, Usable
<1>14. CASE ~(rest > 0 \/ (g.pending > 0 /\ g.pos > start))
  <2>1. ~strayed'
    BY <1>1, <1>14, Zenon
  <2>2. m_fileSize' = start /\ c = x /\ c.s = g /\ c.wPos = start
    BY <1>1, <1>4, <1>7, <1>8, <1>14
  <2>3. t = [g EXCEPT !.bytes = Resized(@, start)]
    BY <1>14, <2>2 DEF t, Truncate
  <2>4. t.bytes = Resized(st.bytes, start)
    BY <1>3, <2>3 DEF Stream
  <2>5. st'.bytes = Resized(st.bytes, start) /\ Len(st'.bytes) = start
    BY <1>0, <1>2, <1>11, <2>4, ResizedIs
  <2>6. Placed'
    BY <1>1, <1>11, <2>2, <2>5, HandsOutNothing DEF Placed
  <2>7. B!Cut(start)
    BY <1>1, <1>2, <2>1, <2>5, SameBytes DEF B!Cut
  <2>8. AbsStep
    BY <1>2, <2>7, NotLost DEF AbsStep, B!Next
  <2>9. QED
    BY <1>12, <2>6, <2>8 DEF Done, FileInv
<1>15. QED
  BY <1>13, <1>14

LEMMA ReserveDone == ASSUME FileInv, NEW n \in Sizes, Reserve(n) PROVE Done
<1>0. Usable /\ FileType /\ Placed /\ n \in Nat /\ n > m_fileSize
  BY FileAssumption DEF Reserve, Writable, Short, FileInv
<1>1. /\ st' = Truncate(st, n) /\ m_fileSize' = n /\ out' = Nothing /\ strayed' = st.eof
      /\ UNCHANGED <<open, m_readPos, m_writePos, m_reading>>
  BY DEF Reserve, Stays
<1>2. /\ st.bytes \in Seq(Byte) /\ Len(st.bytes) \in Nat /\ m_fileSize = Len(st.bytes)
      /\ strayed = FALSE /\ st \in Stream /\ st.pos \in Nat /\ st.eof \in BOOLEAN
      /\ st.pending > 0 => st.pos <= Len(st.bytes)
  BY <1>0, StreamFields DEF FileType, Placed, Usable
<1>3. ~(st.pending > 0 /\ st.pos > n)
  BY <1>0, <1>2
<1>4. Truncate(st, n) = [st EXCEPT !.bytes = Resized(@, n)]
  BY <1>3 DEF Truncate
<1>5. Resized(st.bytes, n) \in Seq(Byte) /\ Len(Resized(st.bytes, n)) = n
  BY <1>0, <1>2, ResizedIs
<1>6. /\ st' \in Stream /\ st'.bytes = Resized(st.bytes, n)
      /\ st'.pos = st.pos /\ st'.eof = st.eof
  <2>1. st' \in Stream
    BY <1>0, <1>1, <1>2, TruncateIs
  <2>2. QED
    BY <1>1, <1>2, <1>4, <2>1 DEF Stream
<1>7. FileType'
  BY <1>0, <1>1, <1>2, <1>6, HandsOutNothing DEF FileType
<1>8. CASE st.eof
  <2>1. strayed'
    BY <1>1, <1>8
  <2>2. QED
    BY <1>7, <2>1, Strays DEF Done, FileInv, Usable
<1>9. CASE ~st.eof
  <2>1. ~strayed'
    BY <1>1, <1>9
  <2>2. Placed'
    BY <1>0, <1>1, <1>5, <1>6, <1>9, HandsOutNothing DEF Placed
  <2>3. B!Reserve(n)
    BY <1>0, <1>1, <1>2, <1>6, <2>1, SameBytes DEF B!Reserve
  <2>4. AbsStep
    BY <1>2, <2>3, NotLost DEF AbsStep, B!Next
  <2>5. QED
    BY <1>7, <2>2, <2>4 DEF Done, FileInv
<1>10. QED
  BY <1>8, <1>9
--------------------------------------------------------------------------------
LEMMA StepDone == FileInv /\ [Next]_vars => Done
<1> SUFFICES ASSUME FileInv, [Next]_vars PROVE Done
  OBVIOUS
<1>1. ASSUME NEW createNew \in BOOLEAN, NEW readOnly \in BOOLEAN, Open(createNew, readOnly) PROVE Done
  BY <1>1, OpenDone
<1>2. ASSUME NEW delete \in BOOLEAN, Close(delete) PROVE Done
  BY <1>2, CloseDone
<1>3. CASE AlreadyOpen \/ ReadOnly \/ Create \/ FlushData \/ SetWriteEnd
  BY <1>3, RefuseDone, CreateDone, FlushDataDone, SetWriteEndDone DEF AlreadyOpen, ReadOnly
<1>4. ASSUME NEW n \in Sizes, ReadData(n) \/ SetReadPosition(n) \/ SetWritePosition(n) \/ Reserve(n)
      PROVE  Done
  BY <1>4, ReadDataDone, SetReadPositionDone, SetWritePositionDone, ReserveDone
<1>5. ASSUME NEW n \in Sizes, NEW t \in 0 .. 1, ReadTerminatedData(n, t) PROVE Done
  BY <1>5, ReadTerminatedDataDone
<1>6. ASSUME NEW d \in Data, Find(d) \/ AppendData(d) \/ \E k \in 0 .. Len(d) : WriteData(d, k)
      PROVE  Done
  BY <1>6, FindDone, AppendDataDone, WriteDataDone
<1>7. ASSUME NEW n \in Sizes, NEW d \in Data, InsertData(n, d) PROVE Done
  BY <1>7, InsertDataDone
<1>8. ASSUME NEW n \in Sizes, NEW l \in Sizes, DeleteData(n, l) PROVE Done
  BY <1>8, DeleteDataDone
<1>9. CASE UNCHANGED vars
  <2>1. FileInv'
    BY <1>9 DEF vars, FileInv, FileType, Placed, Usable
  <2>2. AbsStep
    BY <1>9, Idles DEF vars
  <2>3. QED
    BY <2>1, <2>2 DEF Done
<1>10. QED
  BY <1>1, <1>2, <1>3, <1>4, <1>5, <1>6, <1>7, <1>8, <1>9 DEF Next

(* An object that has not strayed knows its file: the size it keeps, the    *)
(* place of the stream, and what it has handed out are those of the file.   *)
THEOREM ObjectInStep == Spec => []InStep
<1>1. Init => FileInv
  BY InitInv
<1>2. FileInv /\ [Next]_vars => FileInv'
  BY StepDone DEF Done
<1>3. FileInv => InStep
  BY InvImpliesInStep
<1>4. QED
  BY <1>1, <1>2, <1>3, PTL DEF Spec

(* IoInterfaceFile implements the file of ByteFile, for files of any length *)
(* and blocks of any size: copying in blocks, buffering and the one stream  *)
(* for both positions do not show.                                          *)
THEOREM FileImplementsByteFile == Spec => ImplementsByteFile
<1>1. Init => FileInv
  BY InitInv
<1>2. FileInv /\ [Next]_vars => FileInv' /\ AbsStep
  BY StepDone DEF Done
<1>3. ImplementsByteFile <=> [][B!Next]_(B!absVars)
  BY DEF ImplementsByteFile, B!AbsSpec
<1>4. QED
  BY <1>1, <1>2, <1>3, PTL DEF Spec, AbsStep
================================================================================
