------------------------------ MODULE XbusFraming ------------------------------
(***************************************************************************)
(* The Xbus message format as ProtocolHandler::findMessage reads it.       *)
(*                                                                         *)
(* A stream w is a sequence of bytes; positions count from 0, as in the    *)
(* code, so the byte at position p is w[p + 1].  A message is              *)
(*     preamble, bus id, message id, length, data ..., checksum            *)
(* and when the length byte is 255 two more bytes hold the real length.    *)
(***************************************************************************)
EXTENDS Integers, Sequences

Preamble      == 250    \* XS_PREAMBLE
ExtLenCode    == 255    \* XS_EXTLENCODE
HeaderCS      == 5      \* XS_LEN_MSGHEADERCS, the envelope of a short message
ExtHeaderCS   == 7      \* XS_LEN_MSGEXTHEADERCS, of an extended one
MaxMsgLen     == 8192   \* XS_LEN_MSGEXTHEADERCS + XS_MAXDATALEN

Bytes == 0 .. 255

ByteAt(w, p) == w[p + 1]

IsPreamble(w, p) == ByteAt(w, p) = Preamble

IsExtended(w, p) == ByteAt(w, p + 3) = ExtLenCode

\* A short header with bus id 0 and message id 0, met inside GPS raw data.
IsFalseHeader(w, p) ==
  /\ ~IsExtended(w, p)
  /\ ByteAt(w, p + 1) = 0
  /\ ByteAt(w, p + 2) = 0

\* The total size the complete header at p announces.
MsgSize(w, p) ==
  IF IsExtended(w, p)
  THEN ExtHeaderCS + 256 * ByteAt(w, p + 4) + ByteAt(w, p + 5)
  ELSE HeaderCS + ByteAt(w, p + 3)

\* expectedMessageSize: the least size of the message at p given n bytes of it.
ExpectedMessageSize(w, p, n) ==
  CASE n < 4                        -> HeaderCS
    [] n \in 4 .. 5 /\ IsExtended(w, p) -> ExtLenCode + ExtHeaderCS
    [] OTHER                        -> MsgSize(w, p)

\* The sum of w[lo] .. w[hi], by halves.
ByteSum(w, lo, hi) ==
  LET sum[r \in (lo .. hi) \X (lo .. hi)] ==
        IF r[1] = r[2] THEN w[r[1]]
        ELSE LET mid == (r[1] + r[2]) \div 2 IN sum[<<r[1], mid>>] + sum[<<mid + 1, r[2]>>]
  IN IF lo > hi THEN 0 ELSE sum[<<lo, hi>>]

\* XsMessage_computeChecksum: all bytes after the preamble, negated, modulo 256.
ComputeChecksum(w, p) == (-ByteSum(w, p + 2, p + MsgSize(w, p) - 1)) % 256

ChecksumOk(w, p) == ByteAt(w, p + MsgSize(w, p) - 1) = ComputeChecksum(w, p)

\* The header at p is cut off by the end of the first n bytes of w.
HeaderCut(w, p, n) ==
  n - p < (IF n - p >= HeaderCS /\ IsExtended(w, p) THEN ExtHeaderCS ELSE HeaderCS)

\* A whole message, one findMessage may return, stands at p in the first n
\* bytes of w.
Acceptable(w, p, n) ==
  /\ p < n
  /\ IsPreamble(w, p)
  /\ ~HeaderCut(w, p, n)
  /\ ~IsFalseHeader(w, p)
  /\ MsgSize(w, p) <= MaxMsgLen
  /\ MsgSize(w, p) <= n - p
  /\ ChecksumOk(w, p)

\* No whole message of the first n bytes of w starts in lo .. hi - 1.
NoMessageIn(w, lo, hi, n) == \A q \in lo .. (hi - 1) : ~Acceptable(w, q, n)

================================================================================
