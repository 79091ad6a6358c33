------------------------------- MODULE FramesProofs -------------------------------
(***************************************************************************)
(* Theorems about what happens to a frame: those of the arguments of       *)
(* binary frames (BinaryArguments) and of frames on a byte stream          *)
(* (JsonFraming), and their composition with ClientRequests and PushQueue  *)
(* in MCFrames.                                                            *)
(***************************************************************************)
EXTENDS MCFrames, ClientRequestsProofs, PushQueueProofs

-----------------------------------------------------------------------------
(* BinaryArguments: what is decoded.                                       *)

\* The i-th of the pieces into which c cuts s.
Piece(s, c, i) == SubSeq(s, c[i - 1] + 1, c[i])

\* The ways to cut encodings of the first m types off the front of s.
Cuts(types, s, m) ==
    {c \in [0..m -> 0..Len(s)] :
        /\ c[0] = 0
        /\ \A i \in 1..m : c[i - 1] <= c[i] /\ Encodes(types[i], Piece(s, c, i))}
FullCuts(types, s) == {c \in Cuts(types, s, Len(types)) : c[Len(types)] = Len(s)}

\* The decoder has cut off a piece for each parameter it has passed, up to "offset".
CutSoFar ==
    \E c \in Cuts(parameters, parameter_bytes, Len(pieces)) :
        /\ c[Len(pieces)] = offset
        /\ \A i \in 1..Len(pieces) : pieces[i] = Piece(parameter_bytes, c, i)
\* Every reading of the whole payload begins with what it has cut off.
ForcedSoFar ==
    BytesLast =>
        \A c \in FullCuts(parameters, parameter_bytes) :
            /\ c[Len(pieces)] = offset
            /\ \A i \in 1..Len(pieces) : pieces[i] = Piece(parameter_bytes, c, i)
ReadingEnded ==
    /\ decoded = "idle" => offset = 0 /\ pieces = <<>>
    /\ decoded = "values" => Len(pieces) = Len(parameters) /\ offset = Len(parameter_bytes)
    /\ BytesLast /\ decoded = "ValueError" => FullCuts(parameters, parameter_bytes) = {}

BinaryInv == BinaryTypeOK /\ CutSoFar /\ ForcedSoFar /\ ReadingEnded

LEMMA SubSeqTwice ==
    ASSUME NEW S, NEW s \in Seq(S), NEW o \in 0..Len(s), NEW n \in 0..Len(s) - o
    PROVE  LET rest == SubSeq(s, o + 1, Len(s))
           IN  /\ rest \in Seq(S) /\ Len(rest) = Len(s) - o
               /\ SubSeq(rest, 1, n) = SubSeq(s, o + 1, o + n)
<1> DEFINE rest == SubSeq(s, o + 1, Len(s))
<1>1. Len(s) \in Nat /\ o \in Nat /\ n \in Nat
  OBVIOUS
<1>2. rest \in Seq(S) /\ Len(rest) = Len(s) - o /\ \A i \in 1..Len(s) - o : rest[i] = s[o + i]
  BY <1>1
<1> HIDE DEF rest
<1>3. SubSeq(rest, 1, n) = [i \in 1..n |-> s[o + i]]
  BY <1>1, <1>2
<1>4. SubSeq(s, o + 1, o + n) = [i \in 1..n |-> s[o + i]]
  BY <1>1
<1> QED BY <1>2, <1>3, <1>4 DEF rest

\* What a type consumes of the rest of a payload is an encoding of one of its values.
LEMMA ConsumedEncodes ==
    ASSUME NEW type \in BinaryTypes, NEW rest \in Seq(Bytes), NEW n \in Consumed(type, rest)
    PROVE  n \in 0..Len(rest) /\ Encodes(type, SubSeq(rest, 1, n))
<1>1. CASE type = "bytes"
  BY <1>1 DEF Consumed, Encodes
<1>2. CASE type = "int"
  <2>1. n = 4 /\ 4 <= Len(rest)
    BY <1>2 DEF Consumed, Fixed
  <2>2. Len(SubSeq(rest, 1, 4)) = 4
    BY <2>1
  <2> QED BY <1>2, <2>1, <2>2 DEF Encodes
<1>3. CASE type = "bool"
  <2>1. n = 1 /\ 1 <= Len(rest) /\ rest[1] \in {0, 1}
    BY <1>3 DEF Consumed, Fixed
  <2>2. SubSeq(rest, 1, 1) = <<rest[1]>>
    <3> DEFINE t == SubSeq(rest, 1, 1)
    <3>1. t \in Seq(Bytes) /\ Len(t) = 1 /\ t[1] = rest[1]
      BY <2>1
    <3> HIDE DEF t
    <3>2. t = <<t[1]>>
      BY <3>1
    <3> QED BY <3>1, <3>2 DEF t
  <2> QED BY <1>3, <2>1, <2>2 DEF Encodes
<1>4. CASE type = "ctypes"
  <2>1. n = CtypesSize /\ CtypesSize <= Len(rest) /\ CtypesSize \in Nat
    BY <1>4, BinaryAssumption DEF Consumed, Fixed
  <2>2. Len(SubSeq(rest, 1, n)) = CtypesSize
    BY <2>1
  <2> QED BY <1>4, <2>1, <2>2 DEF Encodes
<1>5. CASE type = "str"
  <2>1. n \in 1..Len(rest) /\ rest[n] = 0 /\ (\A i \in 1..n - 1 : rest[i] # 0)
        /\ IsText(SubSeq(rest, 1, n - 1))
    BY <1>5 DEF Consumed, Text
  <2> DEFINE s == SubSeq(rest, 1, n)
  <2>2. s \in Seq(Bytes) /\ Len(s) = n /\ \A i \in 1..n : s[i] = rest[i]
    BY <2>1
  <2>3. \A i \in 1..n - 1 : rest[i] < 128
    <3>1. Len(SubSeq(rest, 1, n - 1)) = n - 1 /\ \A i \in 1..n - 1 : SubSeq(rest, 1, n - 1)[i] = rest[i]
      BY <2>1
    <3> QED BY <2>1, <3>1 DEF IsText
  <2> HIDE DEF s
  <2>4. s # <<>> /\ Last(s) = 0
    BY <2>1, <2>2 DEF Last
  <2>5. IsText(s)
    <3>1. \A i \in 1..n : s[i] < 128
      BY <2>1, <2>2, <2>3
    <3> QED BY <2>2, <3>1 DEF IsText
  <2>6. ~Contains(Front(s), 0)
    <3>1. Len(Front(s)) = n - 1 /\ \A i \in 1..n - 1 : Front(s)[i] = s[i]
      BY <2>1, <2>2 DEF Front
    <3> QED BY <2>1, <2>2, <3>1 DEF Contains
  <2> QED BY <1>5, <2>1, <2>4, <2>5, <2>6 DEF Encodes, s
<1>6. CASE type = "other"
  BY <1>6 DEF Consumed
<1> QED BY <1>1, <1>2, <1>3, <1>4, <1>5, <1>6 DEF BinaryTypes

\* Whatever encodes a value is what the decoder consumes, if bytes are the last ones.
LEMMA EncodesConsumed ==
    ASSUME NEW type \in BinaryTypes, NEW rest \in Seq(Bytes), NEW n \in 0..Len(rest),
           Encodes(type, SubSeq(rest, 1, n)), type = "bytes" => n = Len(rest)
    PROVE  n \in Consumed(type, rest)
<1> DEFINE s == SubSeq(rest, 1, n)
<1>0. s \in Seq(Bytes) /\ Len(s) = n /\ n \in Nat /\ \A i \in 1..n : s[i] = rest[i]
  OBVIOUS
<1>s. Encodes(type, s)
  OBVIOUS
<1> HIDE DEF s
<1>1. CASE type = "bytes"
  BY <1>1 DEF Consumed
<1>2. CASE type = "int"
  BY <1>0, <1>s, <1>2 DEF Consumed, Fixed, Encodes
<1>3. CASE type = "bool"
  <2>1. s = <<0>> \/ s = <<1>>
    BY <1>s, <1>3 DEF Encodes
  <2>2. n = 1 /\ s[1] \in {0, 1}
    BY <1>0, <2>1
  <2>3. rest[1] \in {0, 1} /\ 1 <= Len(rest)
    BY <1>0, <2>2
  <2> QED BY <1>3, <2>2, <2>3 DEF Consumed, Fixed
<1>4. CASE type = "ctypes"
  BY <1>0, <1>s, <1>4, BinaryAssumption DEF Consumed, Fixed, Encodes
<1>5. CASE type = "str"
  <2>1. s # <<>> /\ Last(s) = 0 /\ IsText(s) /\ ~Contains(Front(s), 0)
    BY <1>s, <1>5 DEF Encodes
  <2>2. n \in 1..Len(rest) /\ rest[n] = 0
    BY <1>0, <2>1 DEF Last
  <2>3. Len(Front(s)) = n - 1 /\ \A i \in 1..n - 1 : Front(s)[i] = s[i]
    BY <1>0, <2>2 DEF Front
  <2>4. \A i \in 1..n - 1 : rest[i] # 0
    BY <1>0, <2>1, <2>2, <2>3 DEF Contains
  <2>5. IsText(SubSeq(rest, 1, n - 1))
    <3>1. \A i \in 1..n : rest[i] < 128
      BY <1>0, <2>1 DEF IsText
    <3>2. Len(SubSeq(rest, 1, n - 1)) = n - 1 /\ \A i \in 1..n - 1 : SubSeq(rest, 1, n - 1)[i] = rest[i]
      BY <2>2
    <3> QED BY <2>2, <3>1, <3>2 DEF IsText
  <2> QED BY <1>5, <2>2, <2>4, <2>5 DEF Consumed, Text
<1>6. CASE type = "other"
  BY <1>s, <1>6 DEF Encodes
<1> QED BY <1>1, <1>2, <1>3, <1>4, <1>5, <1>6 DEF BinaryTypes

LEMMA ConsumedOnce ==
    ASSUME NEW type \in BinaryTypes, NEW rest \in Seq(Bytes), NEW n \in Consumed(type, rest),
           NEW k \in Consumed(type, rest)
    PROVE  n = k
<1>1. CASE type = "str"
  <2>1. /\ n \in 1..Len(rest) /\ rest[n] = 0 /\ \A i \in 1..n - 1 : rest[i] # 0
        /\ k \in 1..Len(rest) /\ rest[k] = 0 /\ \A i \in 1..k - 1 : rest[i] # 0
    BY <1>1 DEF Consumed, Text
  <2> QED BY <2>1
<1>2. CASE type = "bool"
  BY <1>2 DEF Consumed, Fixed
<1>3. CASE type \notin {"str", "bool"}
  BY <1>3 DEF Consumed, Fixed, BinaryTypes
<1> QED BY <1>1, <1>2, <1>3

\* d is c with one more piece, of n bytes.
Grows(types, s, m, c, n, d) ==
    /\ d \in Cuts(types, s, m + 1)
    /\ d[m + 1] = c[m] + n
    /\ Piece(s, d, m + 1) = SubSeq(s, c[m] + 1, c[m] + n)
    /\ \A i \in 1..m : Piece(s, d, i) = Piece(s, c, i)

LEMMA CutGrows ==
    ASSUME NEW s \in Seq(Bytes), NEW types, NEW m \in Nat, NEW c \in Cuts(types, s, m),
           NEW n \in Nat, c[m] + n <= Len(s),
           Encodes(types[m + 1], SubSeq(s, c[m] + 1, c[m] + n))
    PROVE  \E d : Grows(types, s, m, c, n, d)
<1> DEFINE d == [i \in 0..m + 1 |-> IF i = m + 1 THEN c[m] + n ELSE c[i]]
<1>1. /\ c \in [0..m -> 0..Len(s)] /\ c[0] = 0 /\ c[m] \in 0..Len(s)
      /\ \A i \in 1..m : c[i - 1] <= c[i] /\ Encodes(types[i], Piece(s, c, i))
  BY DEF Cuts
<1>2. d \in [0..m + 1 -> 0..Len(s)]
  BY <1>1
<1>3. /\ d[m + 1] = c[m] + n /\ d[m] = c[m] /\ d[0] = 0
      /\ \A i \in 1..m : d[i] = c[i] /\ d[i - 1] = c[i - 1]
  BY <1>1
<1> HIDE DEF d
<1>4. \A i \in 1..m : Piece(s, d, i) = Piece(s, c, i)
  BY <1>3 DEF Piece
<1>5. Piece(s, d, m + 1) = SubSeq(s, c[m] + 1, c[m] + n)
  <2>1. (m + 1) - 1 = m
    OBVIOUS
  <2> QED BY <1>3, <2>1 DEF Piece
<1>6. \A i \in 1..m + 1 : d[i - 1] <= d[i] /\ Encodes(types[i], Piece(s, d, i))
  <2>1. d[(m + 1) - 1] <= d[m + 1] /\ Encodes(types[m + 1], Piece(s, d, m + 1))
    <3>1. (m + 1) - 1 = m /\ c[m] \in Nat
      BY <1>1
    <3>2. c[m] <= c[m] + n
      BY <3>1
    <3>3. Encodes(types[m + 1], Piece(s, d, m + 1))
      BY <1>5
    <3>4. d[(m + 1) - 1] = c[m]
      BY <1>3, <3>1
    <3> QED BY <1>3, <3>2, <3>3, <3>4
  <2>2. \A i \in 1..m : d[i - 1] <= d[i] /\ Encodes(types[i], Piece(s, d, i))
    BY <1>1, <1>3, <1>4
  <2> QED BY <2>1, <2>2
<1>7. d \in Cuts(types, s, m + 1)
  BY <1>2, <1>3, <1>6 DEF Cuts
<1>8. Grows(types, s, m, c, n, d)
  BY <1>3, <1>4, <1>5, <1>7 DEF Grows
<1> QED BY <1>8

\* The next parameter of a cut is where the decoder looks for it.
LEMMA NextForced ==
    ASSUME NEW s \in Seq(Bytes), NEW types \in Seq(BinaryTypes), NEW m \in 1..Len(types),
           NEW c \in FullCuts(types, s), \A i \in 1..Len(types) - 1 : types[i] # "bytes"
    PROVE  LET o == c[m - 1]
               rest == SubSeq(s, o + 1, Len(s))
           IN  c[m] - o \in Consumed(types[m], rest)
<1> DEFINE o == c[m - 1]
           rest == SubSeq(s, o + 1, Len(s))
           n == c[m] - o
<1>1. /\ c \in [0..Len(types) -> 0..Len(s)] /\ c[Len(types)] = Len(s)
      /\ \A i \in 1..Len(types) : c[i - 1] <= c[i] /\ Encodes(types[i], Piece(s, c, i))
  BY DEF FullCuts, Cuts
<1>2. Len(s) \in Nat /\ Len(types) \in Nat /\ m \in Nat /\ m - 1 \in 0..Len(types) /\ m \in 0..Len(types)
  OBVIOUS
<1>3. c[m] \in 0..Len(s) /\ o \in 0..Len(s)
  BY <1>1, <1>2
<1>4. o <= c[m] /\ Encodes(types[m], SubSeq(s, o + 1, c[m]))
  BY <1>1 DEF Piece
<1> HIDE DEF o
<1>5. n \in 0..Len(s) - o /\ o + n = c[m] /\ n \in Nat
  BY <1>2, <1>3, <1>4
<1> HIDE DEF n
<1>6. rest \in Seq(Bytes) /\ Len(rest) = Len(s) - o /\ SubSeq(rest, 1, n) = SubSeq(s, o + 1, o + n)
  BY <1>3, <1>5, SubSeqTwice
<1> HIDE DEF rest
<1>7. types[m] = "bytes" => n = Len(rest)
  <2> SUFFICES ASSUME types[m] = "bytes" PROVE n = Len(rest)
    OBVIOUS
  <2>1. m = Len(types)
    BY <1>2
  <2>2. c[m] = Len(s)
    BY <1>1, <2>1
  <2> QED BY <1>2, <1>3, <1>5, <1>6, <2>2
<1>8. types[m] \in BinaryTypes /\ n \in 0..Len(rest) /\ Encodes(types[m], SubSeq(rest, 1, n))
  <2>1. Encodes(types[m], SubSeq(s, o + 1, o + n))
    BY <1>4, <1>5
  <2>2. Encodes(types[m], SubSeq(rest, 1, n))
    BY <1>6, <2>1
  <2>3. types[m] \in BinaryTypes
    OBVIOUS
  <2> QED BY <1>5, <1>6, <2>2, <2>3
<1>9. n \in Consumed(types[m], rest)
  BY <1>6, <1>7, <1>8, EncodesConsumed
<1> QED BY <1>9 DEF n, rest, o

LEMMA BinaryInvInit == BinaryInit => BinaryInv
<1> SUFFICES ASSUME BinaryInit PROVE BinaryInv
  OBVIOUS
<1>1. BinaryTypeOK
  BY DEF BinaryInit, BinaryTypeOK
<1>2. Len(pieces) = 0 /\ Len(parameter_bytes) = 0 /\ offset = 0
  BY DEF BinaryInit
<1>3. CutSoFar
  <2> DEFINE c == [i \in 0..0 |-> 0]
  <2>1. c \in Cuts(parameters, parameter_bytes, 0) /\ c[0] = 0
    BY <1>2 DEF Cuts
  <2> QED BY <1>2, <2>1 DEF CutSoFar
<1>4. ForcedSoFar
  BY <1>2 DEF ForcedSoFar, FullCuts, Cuts
<1>5. ReadingEnded
  BY DEF BinaryInit, ReadingEnded
<1> QED BY <1>1, <1>3, <1>4, <1>5 DEF BinaryInv

\* The steps that decode nothing.
LEMMA ArgumentsKeep == BinaryInv /\ DecodeArguments => BinaryInv'
<1> SUFFICES ASSUME BinaryInv, DecodeArguments PROVE BinaryInv'
  OBVIOUS
<1>1. /\ offset' = 0 /\ pieces' = <<>> /\ decoded' = "decoding"
  BY DEF BinaryInv, ReadingEnded, DecodeArguments
<1>2. PICK n \in 0..MaxParameters : parameters' \in [1..n -> BinaryTypes] /\ defaults' \in 0..n
  BY DEF DecodeArguments
<1>3. PICK k \in 0..MaxBytes : parameter_bytes' \in [1..k -> Bytes]
  BY DEF DecodeArguments
<1>4. n \in Nat /\ k \in Nat
  BY BinaryAssumption
<1>5. /\ parameters' \in Seq(BinaryTypes) /\ Len(parameters') = n
      /\ parameter_bytes' \in Seq(Bytes) /\ Len(parameter_bytes') = k
  BY <1>2, <1>3, <1>4
<1>6. Len(pieces') = 0
  BY <1>1
<1>7. BinaryTypeOK'
  <2>1. pieces' \in Seq(Seq(Bytes)) /\ 0 \in 0..k /\ 0 <= n
    BY <1>1, <1>4
  <2> QED BY <1>1, <1>2, <1>5, <1>6, <2>1 DEF BinaryTypeOK
<1>8. CutSoFar'
  <2> DEFINE c == [i \in 0..0 |-> 0]
  <2>1. c \in Cuts(parameters', parameter_bytes', 0) /\ c[0] = 0
    BY <1>4, <1>5 DEF Cuts
  <2> QED BY <1>1, <1>6, <2>1 DEF CutSoFar
<1>9. ForcedSoFar'
  BY <1>1, <1>6 DEF ForcedSoFar, FullCuts, Cuts
<1>10. ReadingEnded'
  BY <1>1 DEF ReadingEnded
<1> QED BY <1>7, <1>8, <1>9, <1>10 DEF BinaryInv

LEMMA EndKeeps == BinaryInv /\ End => BinaryInv'
<1> SUFFICES ASSUME BinaryInv, End PROVE BinaryInv'
  OBVIOUS
<1>1. /\ Len(pieces) = Len(parameters)
      /\ decoded' = IF offset # Len(parameter_bytes) THEN "ValueError" ELSE "values"
      /\ UNCHANGED <<parameters, defaults, parameter_bytes, offset, pieces>>
  BY DEF End
<1>2. BinaryTypeOK'
  BY <1>1 DEF BinaryInv, BinaryTypeOK
<1>3. CutSoFar'
  BY <1>1 DEF BinaryInv, CutSoFar
<1>4. ForcedSoFar'
  BY <1>1 DEF BinaryInv, ForcedSoFar, BytesLast
<1>5. ReadingEnded'
  <2>1. decoded' = "values" => offset = Len(parameter_bytes)
    BY <1>1
  <2>2. BytesLast /\ decoded' = "ValueError" => FullCuts(parameters, parameter_bytes) = {}
    <3>1. \A c \in FullCuts(parameters, parameter_bytes) : c[Len(parameters)] = Len(parameter_bytes)
      BY DEF FullCuts
    <3> QED BY <1>1, <3>1 DEF BinaryInv, ForcedSoFar
  <2> QED BY <1>1, <2>1, <2>2 DEF ReadingEnded, BytesLast
<1> QED BY <1>2, <1>3, <1>4, <1>5 DEF BinaryInv

LEMMA DecodeKeeps == BinaryInv /\ DecodeOne => BinaryInv'
<1> SUFFICES ASSUME BinaryInv, DecodeOne PROVE BinaryInv'
  OBVIOUS
<1>1. PICK s, types, q, o, m :
          /\ s = parameter_bytes /\ types = parameters /\ q = pieces /\ o = offset
          /\ m = Len(q) + 1
  OBVIOUS
<1> DEFINE rest == SubSeq(s, o + 1, Len(s))
<1>2. /\ s \in Seq(Bytes) /\ types \in Seq(BinaryTypes) /\ q \in Seq(Seq(Bytes))
      /\ o \in 0..Len(s) /\ Len(q) \in Nat /\ m \in 1..Len(types) /\ m - 1 = Len(q)
      /\ decoded = "decoding" /\ UNCHANGED <<parameters, defaults, parameter_bytes>>
  BY <1>1 DEF BinaryInv, BinaryTypeOK, DecodeOne
<1>3. \/ /\ Consumed(types[m], rest) = {} /\ decoded' = "ValueError"
         /\ UNCHANGED <<offset, pieces>>
      \/ /\ \E n \in Consumed(types[m], rest) :
                offset' = o + n /\ pieces' = Append(q, SubSeq(rest, 1, n))
         /\ UNCHANGED decoded
  BY <1>1 DEF DecodeOne
<1>4. BytesLast => /\ \A i \in 1..Len(types) - 1 : types[i] # "bytes"
                   /\ \A c \in FullCuts(types, s) :
                          /\ c[Len(q)] = o
                          /\ \A i \in 1..Len(q) : q[i] = Piece(s, c, i)
  BY <1>1 DEF BinaryInv, ForcedSoFar, BytesLast
<1>5. BytesLast => \A c \in FullCuts(types, s) : c[m - 1] = o /\ c[m] - o \in Consumed(types[m], rest)
  <2> SUFFICES ASSUME BytesLast, NEW c \in FullCuts(types, s)
               PROVE  c[m - 1] = o /\ c[m] - o \in Consumed(types[m], rest)
    OBVIOUS
  <2>1. c[m - 1] = o
    BY <1>2, <1>4
  <2> QED BY <1>2, <1>4, <2>1, NextForced
<1>6. rest \in Seq(Bytes) /\ Len(rest) = Len(s) - o /\ types[m] \in BinaryTypes
  BY <1>2
<1>7. BytesLast' <=> BytesLast
  BY <1>2 DEF BytesLast
<1> HIDE DEF rest
<1>8. CASE Consumed(types[m], rest) = {} /\ decoded' = "ValueError" /\ UNCHANGED <<offset, pieces>>
  <2>1. BinaryTypeOK'
    BY <1>2, <1>8 DEF BinaryInv, BinaryTypeOK
  <2>2. CutSoFar'
    BY <1>2, <1>8 DEF BinaryInv, CutSoFar
  <2>3. ForcedSoFar'
    BY <1>2, <1>7, <1>8 DEF BinaryInv, ForcedSoFar
  <2>4. ReadingEnded'
    <3>1. BytesLast => FullCuts(types, s) = {}
      BY <1>5, <1>8
    <3> QED BY <1>1, <1>2, <1>7, <1>8, <3>1 DEF ReadingEnded
  <2> QED BY <2>1, <2>2, <2>3, <2>4 DEF BinaryInv
<1>9. ASSUME NEW n \in Consumed(types[m], rest), offset' = o + n,
             pieces' = Append(q, SubSeq(rest, 1, n)), UNCHANGED decoded
      PROVE  BinaryInv'
  <2>1. n \in 0..Len(rest) /\ Encodes(types[m], SubSeq(rest, 1, n))
    BY <1>6, ConsumedEncodes
  <2>2. n \in Nat /\ o \in Nat /\ Len(s) \in Nat /\ n \in 0..Len(s) - o /\ o + n <= Len(s)
    BY <1>2, <1>6, <2>1
  <2>3. SubSeq(rest, 1, n) = SubSeq(s, o + 1, o + n)
    BY <1>2, <2>2, SubSeqTwice DEF rest
  <2> DEFINE piece == SubSeq(s, o + 1, o + n)
  <2>4. piece \in Seq(Bytes) /\ Encodes(types[m], piece) /\ pieces' = Append(q, piece)
    <3>1. piece \in Seq(Bytes)
      BY <1>2, <2>2
    <3>2. Encodes(types[m], piece)
      BY <2>1, <2>3
    <3> QED BY <1>9, <2>3, <3>1, <3>2
  <2> HIDE DEF piece
  <2>5. /\ pieces' \in Seq(Seq(Bytes)) /\ Len(pieces') = m
        /\ pieces'[m] = piece /\ \A i \in 1..m - 1 : pieces'[i] = q[i]
    BY <1>2, <2>4
  <2>6. BinaryTypeOK'
    <3>1. offset' \in 0..Len(s)
      BY <1>9, <2>2
    <3> QED BY <1>1, <1>2, <1>9, <2>5, <3>1 DEF BinaryInv, BinaryTypeOK
  <2>7. CutSoFar'
    <3>1. PICK c \in Cuts(types, s, m - 1) :
              c[m - 1] = o /\ \A i \in 1..m - 1 : q[i] = Piece(s, c, i)
      BY <1>1, <1>2 DEF BinaryInv, CutSoFar
    <3>2. m - 1 \in Nat /\ (m - 1) + 1 = m
      BY <1>2
    <3>4. PICK d \in Cuts(types, s, m) :
              /\ d[m] = o + n /\ Piece(s, d, m) = piece
              /\ \A i \in 1..m - 1 : Piece(s, d, i) = Piece(s, c, i)
      <4>1. PICK k : k = m - 1
        OBVIOUS
      <4>2. k \in Nat /\ k + 1 = m /\ c \in Cuts(types, s, k) /\ c[k] = o
        BY <3>1, <3>2, <4>1
      <4>3. c[k] + n <= Len(s) /\ Encodes(types[k + 1], SubSeq(s, c[k] + 1, c[k] + n))
        BY <2>2, <2>4, <4>2 DEF piece
      <4>4. \E d : Grows(types, s, k, c, n, d)
        BY <1>2, <2>2, <4>2, <4>3, CutGrows
      <4> QED BY <4>1, <4>2, <4>4 DEF Grows, piece
    <3>5. \A i \in 1..m : pieces'[i] = Piece(s, d, i)
      <4>1. pieces'[m] = Piece(s, d, m)
        BY <2>5, <3>4
      <4>2. \A i \in 1..m - 1 : pieces'[i] = Piece(s, d, i)
        BY <2>5, <3>1, <3>4
      <4>3. \A i \in 1..m : i = m \/ i \in 1..m - 1
        BY <1>2
      <4> QED BY <4>1, <4>2, <4>3
    <3> QED BY <1>1, <1>2, <1>9, <2>5, <3>4, <3>5 DEF CutSoFar
  <2>8. ForcedSoFar'
    <3> SUFFICES ASSUME BytesLast, NEW c \in FullCuts(types, s)
                 PROVE  c[m] = o + n /\ \A i \in 1..m : pieces'[i] = Piece(s, c, i)
      BY <1>1, <1>2, <1>7, <1>9, <2>5 DEF ForcedSoFar
    <3>1. c[m - 1] = o /\ c[m] - o \in Consumed(types[m], rest)
      BY <1>5
    <3>2. c[m] - o = n
      BY <1>6, <3>1, ConsumedOnce
    <3>3. c[m] \in 0..Len(s)
      BY <1>2 DEF FullCuts, Cuts
    <3>4. c[m] = o + n
      BY <2>2, <3>2, <3>3
    <3>5. Piece(s, c, m) = piece
      BY <3>1, <3>4 DEF Piece, piece
    <3>6. \A i \in 1..m - 1 : q[i] = Piece(s, c, i)
      BY <1>2, <1>4
    <3>7. pieces'[m] = Piece(s, c, m)
      BY <2>5, <3>5
    <3>8. \A i \in 1..m - 1 : pieces'[i] = Piece(s, c, i)
      BY <2>5, <1>2, <3>6
    <3>9. \A i \in 1..m : i = m \/ i \in 1..m - 1
      BY <1>2
    <3> QED BY <3>4, <3>7, <3>8, <3>9
  <2>9. ReadingEnded'
    BY <1>2, <1>9 DEF ReadingEnded
  <2> QED BY <2>6, <2>7, <2>8, <2>9 DEF BinaryInv
<1> QED BY <1>3, <1>8, <1>9

LEMMA BinaryInvNext == BinaryInv /\ [BinaryNext]_binaryVars => BinaryInv'
<1>1. BinaryInv /\ UNCHANGED binaryVars => BinaryInv'
  BY DEF BinaryInv, BinaryTypeOK, CutSoFar, ForcedSoFar, ReadingEnded, BytesLast, binaryVars
<1> QED BY <1>1, ArgumentsKeep, DecodeKeeps, EndKeeps DEF BinaryNext

\* The readings of a payload are its full cuts.
LEMMA ReadingsAreCuts ==
    ASSUME NEW types, NEW s, NEW r
    PROVE  r \in Readings(types, s) <=>
               \E c \in FullCuts(types, s) : r = [i \in 1..Len(types) |-> Piece(s, c, i)]
BY DEF Readings, FullCuts, Cuts, Piece

LEMMA BinaryInvReads == BinaryInv => DecodesTheReading
<1> SUFFICES ASSUME BinaryInv PROVE DecodesTheReading
  OBVIOUS
<1>1. PICK s, types, q : s = parameter_bytes /\ types = parameters /\ q = pieces
  OBVIOUS
<1>2. q \in Seq(Seq(Bytes))
  BY <1>1 DEF BinaryInv, BinaryTypeOK
<1>3. ASSUME decoded = "values" PROVE q \in Readings(types, s)
  <2>1. Len(q) = Len(types) /\ offset = Len(s)
    BY <1>1, <1>3 DEF BinaryInv, ReadingEnded
  <2>2. PICK c \in Cuts(types, s, Len(types)) :
            c[Len(types)] = Len(s) /\ \A i \in 1..Len(q) : q[i] = Piece(s, c, i)
    BY <1>1, <2>1 DEF BinaryInv, CutSoFar
  <2>3. q = [i \in 1..Len(types) |-> Piece(s, c, i)]
    BY <1>2, <2>1, <2>2
  <2>4. c \in FullCuts(types, s)
    BY <2>2 DEF FullCuts
  <2> QED BY <2>3, <2>4, ReadingsAreCuts
<1>4. ASSUME BytesLast, decoded = "values", NEW r \in Readings(types, s) PROVE r = q
  <2>1. PICK c \in FullCuts(types, s) : r = [i \in 1..Len(types) |-> Piece(s, c, i)]
    BY ReadingsAreCuts
  <2>2. Len(q) = Len(types)
    BY <1>1, <1>4 DEF BinaryInv, ReadingEnded
  <2>3. \A i \in 1..Len(q) : q[i] = Piece(s, c, i)
    BY <1>1, <1>4 DEF BinaryInv, ForcedSoFar
  <2> QED BY <1>2, <2>1, <2>2, <2>3
<1>5. ASSUME BytesLast, decoded = "ValueError" PROVE Readings(types, s) = {}
  <2>1. FullCuts(types, s) = {}
    BY <1>1, <1>5 DEF BinaryInv, ReadingEnded
  <2> QED BY <2>1, ReadingsAreCuts
<1> QED BY <1>1, <1>3, <1>4, <1>5 DEF DecodesTheReading

\* For all payloads and all types of parameters the decoder computes the reading.
THEOREM ReadingDecoded == BinarySpec => []DecodesTheReading
BY BinaryInvInit, BinaryInvNext, BinaryInvReads, PTL DEF BinarySpec

-----------------------------------------------------------------------------
(* JsonFraming: the reader keeps in step with the frames.                  *)

\* "lengths" gives the length of each frame the peer has sent.
LengthsOf(lengths, sorts) ==
    /\ lengths \in [1..Len(sorts) -> 0..TooLong]
    /\ \A n \in 1..Len(sorts) : lengths[n] \in Lengths(sorts[n])

\* A word of the n-th frame sent.
Placed(lengths, sorts, w) ==
    /\ w.frame \in 1..Len(sorts) /\ w.index \in 0..lengths[w.frame]
    /\ w.index = 0 => w.as = lengths[w.frame]
    /\ w.index = 1 /\ sorts[w.frame] = "noBrace" => w.as # Brace
    /\ w.index = 1 /\ sorts[w.frame] = "valid" => w.as = Brace

\* What comes d words after a word of a frame: the frame's other words, then the
\* prefix of the next frame.
Continues(lengths, w, d, v) ==
    /\ d <= lengths[w.frame] - w.index => v.frame = w.frame /\ v.index = w.index + d
    /\ d = lengths[w.frame] - w.index + 1 => v.frame = w.frame + 1 /\ v.index = 0

Chained(lengths, sorts, s) ==
    /\ \A i \in 1..Len(s) : Placed(lengths, sorts, s[i])
    /\ \A i, j \in 1..Len(s) : i <= j => Continues(lengths, s[i], j - i, s[j])

\* The stream ends with the last word that was sent.
EndsAt(lengths, sorts, s) ==
    s # <<>> => s[Len(s)].frame = Len(sorts) /\ s[Len(s)].index = lengths[Len(sorts)]

\* The next word to be read is the k-th of frame n.
NextWord(n, k) ==
    IF stream = <<>> THEN eof \/ (n = Len(sent_frames) + 1 /\ k = 0)
    ELSE stream[1].frame = n /\ stream[1].index = k

\* decode() is in frame n.
InFrame(lengths, n) ==
    \/ /\ reading = "length" /\ payload = <<>> /\ NextWord(n, 0)
    \/ /\ reading = "first" /\ payload = <<>> /\ NextWord(n, 1)
       /\ n <= Len(sent_frames) /\ size = lengths[n] /\ size \in 1..MaxFrameSize
    \/ /\ reading = "rest" /\ payload # <<>>
       /\ payload[1].frame = n /\ payload[1].index = 1
       /\ n <= Len(sent_frames) /\ size = lengths[n] /\ size \in 1..MaxFrameSize
       /\ sent_frames[n] # "noBrace"
       /\ IF size = 1 THEN NextWord(n + 1, 0) ELSE NextWord(n, 2)

\* Exactly the valid ones of the frames before the n-th have been accepted.
AcceptedBefore(n) ==
    /\ \A i \in 1..Len(accepted) :
           /\ accepted[i] # <<>> /\ Whole(accepted[i])
           /\ accepted[i][1].frame \in 1..n - 1
           /\ sent_frames[accepted[i][1].frame] = "valid"
    /\ \A i, j \in 1..Len(accepted) : i < j => accepted[i][1].frame < accepted[j][1].frame
    /\ \A k \in 1..n - 1 : sent_frames[k] = "valid" =>
                               \E i \in 1..Len(accepted) : accepted[i][1].frame = k

InStep(lengths, n) ==
    /\ LengthsOf(lengths, sent_frames)
    /\ Chained(lengths, sent_frames, stream)
    /\ ~eof => EndsAt(lengths, sent_frames, stream)
    /\ InFrame(lengths, n)
    /\ AcceptedBefore(n)

Sized == reading \in {"first", "rest"} => size # 0

SomewhereInStep ==
    \E lengths \in [1..Len(sent_frames) -> 0..TooLong] :
        \E n \in 1..Len(sent_frames) + 1 : InStep(lengths, n)

FramingInv ==
    /\ FramingTypeOK /\ Sized
    /\ reading # "closed" /\ ~unread => SomewhereInStep

\* What is left of the stream when its beginning has been read, or its end is lost.
LEMMA ChainSuffix ==
    ASSUME NEW lengths, NEW sorts, NEW s \in Seq(Words), NEW t \in Seq(Words), NEW k \in Nat,
           Len(s) = Len(t) + k, \A i \in 1..Len(t) : t[i] = s[i + k],
           Chained(lengths, sorts, s)
    PROVE  /\ Chained(lengths, sorts, t)
           /\ EndsAt(lengths, sorts, s) => EndsAt(lengths, sorts, t)
<1>1. Len(s) \in Nat /\ Len(t) \in Nat
  OBVIOUS
<1>2. \A i \in 1..Len(t) : i + k \in 1..Len(s) /\ t[i] = s[i + k]
  BY <1>1
<1>3. \A i \in 1..Len(t) : Placed(lengths, sorts, t[i])
  BY <1>2 DEF Chained
<1>4. ASSUME NEW i \in 1..Len(t), NEW j \in 1..Len(t), i <= j
      PROVE  Continues(lengths, t[i], j - i, t[j])
  <2>1. (j + k) - (i + k) = j - i /\ i + k <= j + k
    BY <1>1, <1>4
  <2> QED BY <1>2, <2>1 DEF Chained
<1>5. EndsAt(lengths, sorts, s) => EndsAt(lengths, sorts, t)
  <2> SUFFICES ASSUME EndsAt(lengths, sorts, s), t # <<>> PROVE EndsAt(lengths, sorts, t)
    BY DEF EndsAt
  <2>1. Len(t) \in 1..Len(t) /\ s # <<>>
    BY <1>1
  <2> QED BY <1>1, <1>2, <2>1 DEF EndsAt
<1> QED BY <1>3, <1>4, <1>5 DEF Chained

LEMMA ChainPrefix ==
    ASSUME NEW lengths, NEW sorts, NEW s \in Seq(Words), NEW t \in Seq(Words),
           Len(t) <= Len(s), \A i \in 1..Len(t) : t[i] = s[i],
           Chained(lengths, sorts, s)
    PROVE  Chained(lengths, sorts, t)
<1>1. Len(s) \in Nat /\ Len(t) \in Nat
  OBVIOUS
<1>2. \A i \in 1..Len(t) : i \in 1..Len(s) /\ t[i] = s[i]
  BY <1>1
<1>3. \A i \in 1..Len(t) : Placed(lengths, sorts, t[i])
  BY <1>2 DEF Chained
<1>4. \A i, j \in 1..Len(t) : i <= j => Continues(lengths, t[i], j - i, t[j])
  BY <1>2 DEF Chained
<1> QED BY <1>3, <1>4 DEF Chained

\* The words of one frame.
LEMMA ContentsWords ==
    ASSUME NEW kind \in FrameKinds, NEW length \in Lengths(kind), NEW n \in 1..MaxSent,
           NEW words \in Contents(kind, length, n)
    PROVE  /\ words \in Seq(Words) /\ Len(words) = length + 1 /\ length \in 0..TooLong
           /\ \A i \in 1..length + 1 : words[i].frame = n /\ words[i].index = i - 1
           /\ words[1].as = length
           /\ length > 0 /\ kind = "noBrace" => words[2].as # Brace
           /\ length > 0 /\ kind = "valid" => words[2].as = Brace
<1>1. length \in 0..TooLong /\ MaxFrameSize \in Nat /\ TooLong \in Nat /\ Brace \in Nat
      /\ Brace = TooLong + 1
  BY FramingAssumption DEF Lengths, TooLong, Brace
<1>2. PICK as \in [1..length + 1 -> 0..Brace] :
          /\ as[1] = length
          /\ length > 0 /\ kind # "oversized" => ((as[2] = Brace) = (kind # "noBrace"))
          /\ words = [i \in 1..length + 1 |-> [as |-> as[i], frame |-> n, index |-> i - 1]]
  BY DEF Contents
<1>3. \A i \in 1..length + 1 : i - 1 \in 0..TooLong
  BY <1>1
<1>4. \A i \in 1..length + 1 : [as |-> as[i], frame |-> n, index |-> i - 1] \in Words
  BY <1>2, <1>3 DEF Words
<1>5. words \in Seq(Words) /\ Len(words) = length + 1
  <2>1. words \in [1..length + 1 -> Words]
    BY <1>2, <1>4
  <2>2. length + 1 \in Nat
    BY <1>1
  <2>3. \A m \in Nat : \A w \in [1..m -> Words] : w \in Seq(Words) /\ Len(w) = m
    OBVIOUS
  <2> QED BY <2>1, <2>2, <2>3
<1>6. \A i \in 1..length + 1 : words[i].frame = n /\ words[i].index = i - 1 /\ words[i].as = as[i]
  BY <1>2
<1>7. 1 \in 1..length + 1 /\ (length > 0 => 2 \in 1..length + 1)
  BY <1>1
<1> QED BY <1>1, <1>2, <1>5, <1>6, <1>7

LEMMA ChainGrows ==
    ASSUME NEW sorts \in Seq(FrameKinds), NEW lengths, LengthsOf(lengths, sorts),
           NEW s \in Seq(Words), Chained(lengths, sorts, s), EndsAt(lengths, sorts, s),
           NEW kind \in FrameKinds, NEW length \in Lengths(kind), Len(sorts) < MaxSent,
           NEW words \in Contents(kind, length, Len(sorts) + 1),
           NEW more, more = [i \in 1..Len(sorts) + 1 |-> IF i = Len(sorts) + 1 THEN length ELSE lengths[i]]
    PROVE  /\ LengthsOf(more, Append(sorts, kind))
           /\ Chained(more, Append(sorts, kind), s \o words)
           /\ EndsAt(more, Append(sorts, kind), s \o words)
<1> DEFINE n == Len(sorts) + 1
           all == Append(sorts, kind)
           t == s \o words
<1>1. /\ Len(sorts) \in Nat /\ n \in Nat /\ n \in 1..MaxSent /\ Len(s) \in Nat
      /\ all \in Seq(FrameKinds) /\ Len(all) = n /\ all[n] = kind
      /\ \A i \in 1..Len(sorts) : all[i] = sorts[i]
  BY FramingAssumption
<1>2. /\ words \in Seq(Words) /\ Len(words) = length + 1 /\ length \in 0..TooLong
      /\ \A i \in 1..length + 1 : words[i].frame = n /\ words[i].index = i - 1
      /\ words[1].as = length
      /\ length > 0 /\ kind = "noBrace" => words[2].as # Brace
      /\ length > 0 /\ kind = "valid" => words[2].as = Brace
  BY <1>1, ContentsWords
<1>3. more[n] = length /\ \A i \in 1..Len(sorts) : more[i] = lengths[i]
  BY <1>1
<1>4. /\ length \in Nat /\ t \in Seq(Words) /\ Len(t) = Len(s) + length + 1
      /\ \A i \in 1..Len(s) : t[i] = s[i]
      /\ \A i \in 1..length + 1 : t[Len(s) + i] = words[i]
  <2>1. length \in Nat
    BY <1>2, FramingAssumption DEF TooLong
  <2>2. \A m \in Nat : \A w \in Seq(Words) :
            Len(w) = m + 1 =>
                /\ s \o w \in Seq(Words) /\ Len(s \o w) = Len(s) + m + 1
                /\ \A i \in 1..Len(s) : (s \o w)[i] = s[i]
                /\ \A i \in 1..m + 1 : (s \o w)[Len(s) + i] = w[i]
    <3> SUFFICES ASSUME NEW m \in Nat, NEW w \in Seq(Words), Len(w) = m + 1
                 PROVE  /\ s \o w \in Seq(Words) /\ Len(s \o w) = Len(s) + m + 1
                        /\ \A i \in 1..Len(s) : (s \o w)[i] = s[i]
                        /\ \A i \in 1..m + 1 : (s \o w)[Len(s) + i] = w[i]
      OBVIOUS
    <3>1. s \o w \in Seq(Words) /\ Len(s \o w) = Len(s) + m + 1
      OBVIOUS
    <3>2. \A i \in 1..Len(s) : (s \o w)[i] = s[i]
      OBVIOUS
    <3>3. \A i \in 1..m + 1 : (s \o w)[Len(s) + i] = w[i]
      OBVIOUS
    <3> QED BY <3>1, <3>2, <3>3
  <2> QED BY <1>2, <2>1, <2>2
<1>5. LengthsOf(more, all)
  <2>1. more \in [1..n -> 0..TooLong]
    BY <1>1, <1>2 DEF LengthsOf
  <2>2. \A i \in 1..n : more[i] \in Lengths(all[i])
    BY <1>1, <1>3 DEF LengthsOf
  <2> QED BY <1>1, <2>1, <2>2 DEF LengthsOf
<1> HIDE DEF all, t, n
<1>6. \A i \in 1..Len(s) : /\ Placed(lengths, sorts, s[i]) /\ s[i].frame \in 1..Len(sorts)
                           /\ more[s[i].frame] = lengths[s[i].frame]
                           /\ s[i].index \in 0..lengths[s[i].frame]
  BY <1>3 DEF Chained, Placed
<1>7. \A i \in 1..Len(s) : Placed(more, all, s[i])
  <2> SUFFICES ASSUME NEW i \in 1..Len(s) PROVE Placed(more, all, s[i])
    OBVIOUS
  <2>1. s[i].frame \in 1..Len(all) /\ all[s[i].frame] = sorts[s[i].frame]
    BY <1>1, <1>6 DEF n
  <2> QED BY <1>6, <2>1 DEF Placed
<1>8. \A i \in 1..length + 1 : Placed(more, all, words[i])
  <2> SUFFICES ASSUME NEW i \in 1..length + 1 PROVE Placed(more, all, words[i])
    OBVIOUS
  <2>1. words[i].frame = n /\ words[i].index = i - 1 /\ i - 1 \in 0..length
    BY <1>2, <1>4
  <2>2. words[i].index = 0 => words[i].as = length
    BY <1>2, <2>1
  <2>3. words[i].index = 1 => /\ kind = "noBrace" => words[i].as # Brace
                              /\ kind = "valid" => words[i].as = Brace
    <3>1. i - 1 = 1 => i = 2 /\ length > 0
      BY <1>4
    <3> QED BY <1>2, <2>1, <3>1
  <2> QED BY <1>1, <1>3, <2>1, <2>2, <2>3 DEF Placed
<1>9. \A i \in 1..Len(t) : i \in 1..Len(s) \/ \E k \in 1..length + 1 : i = Len(s) + k
  <2> SUFFICES ASSUME NEW i \in 1..Len(t), i \notin 1..Len(s)
               PROVE  i - Len(s) \in 1..length + 1 /\ i = Len(s) + (i - Len(s))
    OBVIOUS
  <2> QED BY <1>1, <1>4
<1>10. \A i \in 1..Len(t) : Placed(more, all, t[i])
  BY <1>4, <1>7, <1>8, <1>9
<1>11. ASSUME NEW i \in 1..Len(t), NEW j \in 1..Len(t), i <= j
       PROVE  Continues(more, t[i], j - i, t[j])
  <2>1. CASE i \in 1..Len(s) /\ j \in 1..Len(s)
    <3>1. Continues(lengths, s[i], j - i, s[j])
      BY <1>11, <2>1 DEF Chained
    <3> QED BY <1>4, <1>6, <2>1, <3>1 DEF Continues
  <2>2. ASSUME NEW k \in 1..length + 1, i = Len(s) + k, NEW l \in 1..length + 1, j = Len(s) + l
        PROVE  Continues(more, t[i], j - i, t[j])
    <3>1. j - i = l - k /\ l \in Nat /\ k \in Nat /\ l - 1 = (k - 1) + (l - k) /\ l - k # length - (k - 1) + 1
      BY <1>1, <1>4, <2>2
    <3>2. t[i].frame = n /\ t[i].index = k - 1 /\ t[j].frame = n /\ t[j].index = l - 1
      BY <1>2, <1>4, <2>2
    <3> QED BY <1>3, <3>1, <3>2 DEF Continues
  <2>3. ASSUME i \in 1..Len(s), NEW l \in 1..length + 1, j = Len(s) + l
        PROVE  Continues(more, t[i], j - i, t[j])
    <3> DEFINE f == s[i].frame
               x == s[i].index
               L == lengths[f]
    <3>1. f \in 1..Len(sorts) /\ x \in 0..L /\ L \in Nat /\ x \in Nat /\ more[f] = L
      <4>1. L \in 0..TooLong /\ TooLong \in Nat
        BY <1>6, <2>3, FramingAssumption DEF LengthsOf, TooLong
      <4> QED BY <1>6, <2>3, <4>1
    <3>2. s[Len(s)].frame = Len(sorts) /\ s[Len(s)].index = lengths[Len(sorts)]
      BY <1>1, <2>3 DEF EndsAt
    <3>3. Continues(lengths, s[i], Len(s) - i, s[Len(s)])
      BY <1>1, <2>3 DEF Chained
    <3>4. t[i] = s[i] /\ t[j] = words[l] /\ words[l].frame = n /\ words[l].index = l - 1
      BY <1>2, <1>4, <2>3
    <3> HIDE DEF f, x, L
    <3>5. /\ Len(s) - i <= L - x => Len(sorts) = f /\ lengths[Len(sorts)] = x + (Len(s) - i)
          /\ Len(s) - i = L - x + 1 => Len(sorts) = f + 1 /\ lengths[Len(sorts)] = 0
      BY <3>2, <3>3 DEF Continues, f, x, L
    <3>6. Len(s) - i <= L - x => Len(sorts) = f /\ L = x + (Len(s) - i)
      BY <3>5 DEF L
    <3>7. Len(s) - i \in Nat /\ j - i = (Len(s) - i) + l /\ l \in Nat /\ l >= 1
      BY <1>1, <1>4, <2>3
    <3>8. ~(j - i <= L - x)
      BY <3>1, <3>6, <3>7
    <3>9. j - i = L - x + 1 => l = 1 /\ f = Len(sorts)
      BY <3>1, <3>6, <3>7
    <3>10. j - i = L - x + 1 => t[j].frame = f + 1 /\ t[j].index = 0
      BY <3>4, <3>9 DEF n
    <3> QED BY <3>1, <3>4, <3>8, <3>10 DEF Continues, f, x
  <2>4. ~(j \in 1..Len(s) /\ i \notin 1..Len(s))
    BY <1>1, <1>11
  <2> QED BY <1>9, <2>1, <2>2, <2>3, <2>4
<1>12. Chained(more, all, t)
  BY <1>10, <1>11 DEF Chained
<1>13. EndsAt(more, all, t)
  <2>1. Len(t) = Len(s) + (length + 1) /\ length + 1 \in 1..length + 1 /\ (length + 1) - 1 = length
    BY <1>1, <1>4
  <2>2. t[Len(t)].frame = n /\ t[Len(t)].index = length
    BY <1>2, <1>4, <2>1
  <2> QED BY <1>1, <1>3, <2>2 DEF EndsAt
<1> QED BY <1>5, <1>12, <1>13 DEF all, t

\* The peer sends another frame; the reader's place is the same.
LEMMA SendKeeps ==
    ASSUME FramingTypeOK, NEW lengths, NEW n \in 1..Len(sent_frames) + 1, InStep(lengths, n), SendFrame
    PROVE  SomewhereInStep'
<1>1. PICK s, sorts : s = stream /\ sorts = sent_frames
  OBVIOUS
<1>0. PICK kind \in FrameKinds :
          \E length \in Lengths(kind) :
              \E words \in Contents(kind, length, Len(sorts) + 1) :
                  sent_frames' = Append(sorts, kind) /\ stream' = s \o words
  BY <1>1 DEF SendFrame
<1>2. PICK length \in Lengths(kind) :
          \E words \in Contents(kind, length, Len(sorts) + 1) :
              sent_frames' = Append(sorts, kind) /\ stream' = s \o words
  BY <1>0
<1>3. PICK words \in Contents(kind, length, Len(sorts) + 1) :
          sent_frames' = Append(sorts, kind) /\ stream' = s \o words
  BY <1>2
<1>4. ~eof /\ Len(sorts) < MaxSent /\ UNCHANGED <<eof, reading, size, payload, accepted, unread>>
  BY <1>1 DEF SendFrame
<1>5. /\ sorts \in Seq(FrameKinds) /\ Len(sorts) \in Nat /\ s \in Seq(Words)
      /\ LengthsOf(lengths, sorts) /\ Chained(lengths, sorts, s) /\ EndsAt(lengths, sorts, s)
      /\ n \in 1..Len(sorts) + 1
  BY <1>1, <1>4 DEF FramingTypeOK, InStep
<1> DEFINE more == [i \in 1..Len(sorts) + 1 |-> IF i = Len(sorts) + 1 THEN length ELSE lengths[i]]
<1>6. \A i \in 1..Len(sorts) : more[i] = lengths[i]
  BY <1>5
<1>7. PICK m : m = more
  OBVIOUS
<1>8. LengthsOf(m, sent_frames') /\ Chained(m, sent_frames', stream') /\ EndsAt(m, sent_frames', stream')
  <2>1. /\ LengthsOf(m, Append(sorts, kind)) /\ Chained(m, Append(sorts, kind), s \o words)
        /\ EndsAt(m, Append(sorts, kind), s \o words)
    BY <1>4, <1>5, <1>7, ChainGrows
  <2> QED BY <1>3, <2>1
<1>9. \A i \in 1..Len(sorts) : m[i] = lengths[i]
  BY <1>6, <1>7
<1> HIDE DEF more
<1>10. /\ Len(sorts) + 1 \in 1..MaxSent /\ Len(sent_frames') = Len(sorts) + 1
       /\ \A i \in 1..Len(sorts) : sent_frames'[i] = sorts[i]
  BY <1>3, <1>4, <1>5, FramingAssumption
<1>11. /\ stream' # <<>>
       /\ s = <<>> => stream'[1].frame = Len(sorts) + 1 /\ stream'[1].index = 0
       /\ s # <<>> => stream'[1] = s[1]
  <2>1. /\ words \in Seq(Words) /\ Len(words) = length + 1 /\ length \in 0..TooLong
        /\ \A i \in 1..length + 1 : words[i].frame = Len(sorts) + 1 /\ words[i].index = i - 1
    BY <1>10, ContentsWords
  <2>2. length \in Nat /\ 1 \in 1..length + 1 /\ words # <<>>
    BY <2>1, FramingAssumption DEF TooLong
  <2>3. s = <<>> => s \o words = words
    BY <2>1
  <2>4. s # <<>> => (s \o words)[1] = s[1]
    BY <1>5, <2>1
  <2>5. Len(s \o words) = Len(s) + Len(words) /\ s \o words \in Seq(Words)
    <3>1. \A u, v \in Seq(Words) : Len(u \o v) = Len(u) + Len(v) /\ u \o v \in Seq(Words)
      OBVIOUS
    <3> QED BY <1>5, <2>1, <3>1
  <2>6. s \o words # <<>>
    BY <1>5, <2>1, <2>2, <2>5
  <2> QED BY <1>3, <2>1, <2>2, <2>3, <2>4, <2>6
<1>12. ASSUME NEW f, NEW k, NextWord(f, k) PROVE NextWord(f, k)'
  BY <1>1, <1>4, <1>11, <1>12 DEF NextWord
<1>13. n <= Len(sorts) => m[n] = lengths[n] /\ sent_frames'[n] = sent_frames[n]
  BY <1>1, <1>5, <1>9, <1>10
<1>14. InFrame(m, n)'
  <2>1. InFrame(lengths, n)
    BY DEF InStep
  <2>2. n <= Len(sorts) => n <= Len(sent_frames')
    BY <1>5, <1>10
  <2>3. CASE reading = "length" /\ payload = <<>> /\ NextWord(n, 0)
    BY <1>4, <1>12, <2>3 DEF InFrame
  <2>4. CASE /\ reading = "first" /\ payload = <<>> /\ NextWord(n, 1)
             /\ n <= Len(sent_frames) /\ size = lengths[n] /\ size \in 1..MaxFrameSize
    BY <1>1, <1>4, <1>12, <1>13, <2>2, <2>4 DEF InFrame
  <2>5. CASE /\ reading = "rest" /\ payload # <<>>
             /\ payload[1].frame = n /\ payload[1].index = 1
             /\ n <= Len(sent_frames) /\ size = lengths[n] /\ size \in 1..MaxFrameSize
             /\ sent_frames[n] # "noBrace"
             /\ IF size = 1 THEN NextWord(n + 1, 0) ELSE NextWord(n, 2)
    <3>1. IF size' = 1 THEN NextWord(n + 1, 0)' ELSE NextWord(n, 2)'
      BY <1>4, <1>12, <2>5
    <3>2. n <= Len(sent_frames') /\ size' = m[n] /\ sent_frames'[n] # "noBrace"
      BY <1>1, <1>4, <1>13, <2>2, <2>5
    <3> QED BY <1>4, <2>5, <3>1, <3>2 DEF InFrame
  <2> QED BY <2>1, <2>3, <2>4, <2>5 DEF InFrame
<1>15. AcceptedBefore(n)'
  <2>1. AcceptedBefore(n) /\ accepted' = accepted
    BY <1>4 DEF InStep
  <2>2. \A k \in 1..n - 1 : sent_frames'[k] = sent_frames[k]
    BY <1>1, <1>5, <1>10
  <2> QED BY <2>1, <2>2 DEF AcceptedBefore
<1>16. InStep(m, n)'
  BY <1>8, <1>14, <1>15 DEF InStep
<1>17. m \in [1..Len(sent_frames') -> 0..TooLong] /\ n \in 1..Len(sent_frames') + 1
  BY <1>5, <1>8, <1>10 DEF LengthsOf
<1> QED BY <1>16, <1>17 DEF SomewhereInStep

\* The end of the stream is lost.
LEMMA CloseKeeps ==
    ASSUME FramingTypeOK, NEW lengths, NEW n \in 1..Len(sent_frames) + 1, InStep(lengths, n), PeerCloses
    PROVE  SomewhereInStep'
<1>1. PICK s, sorts : s = stream /\ sorts = sent_frames
  OBVIOUS
<1>2. PICK k \in 0..Len(s) : stream' = SubSeq(s, 1, k)
  BY <1>1 DEF PeerCloses
<1>3. eof' = TRUE /\ UNCHANGED <<sent_frames, reading, size, payload, accepted, unread>>
  BY DEF PeerCloses
<1>4. s \in Seq(Words) /\ Len(s) \in Nat /\ Chained(lengths, sorts, s) /\ LengthsOf(lengths, sorts)
  BY <1>1 DEF FramingTypeOK, InStep
<1>5. PICK t : t = SubSeq(s, 1, k)
  OBVIOUS
<1>6. t \in Seq(Words) /\ Len(t) = k /\ k <= Len(s) /\ \A i \in 1..k : t[i] = s[i]
  BY <1>4, <1>5
<1>7. Chained(lengths, sorts, t)
  BY <1>4, <1>6, ChainPrefix
<1>8. t # <<>> => s # <<>> /\ t[1] = s[1]
  BY <1>4, <1>6
<1>9. ASSUME NEW f, NEW d, NextWord(f, d) PROVE NextWord(f, d)'
  BY <1>1, <1>2, <1>3, <1>5, <1>8, <1>9 DEF NextWord
<1>10. InFrame(lengths, n)'
  BY <1>3, <1>9 DEF InStep, InFrame
<1>11. AcceptedBefore(n)'
  BY <1>3 DEF InStep, AcceptedBefore
<1>12. InStep(lengths, n)'
  BY <1>1, <1>2, <1>3, <1>4, <1>5, <1>7, <1>10, <1>11 DEF InStep
<1> QED BY <1>1, <1>3, <1>4, <1>12 DEF SomewhereInStep, LengthsOf

\* A frame was read, and the next one follows; "unread" is still false.
LEMMA FrameEnds ==
    ASSUME NEW n \in 1..Len(sent_frames), NEW lengths, NEW t \in Seq(Words), sent_frames \in Seq(FrameKinds),
           UNCHANGED <<sent_frames, eof>>, stream' = t,
           LengthsOf(lengths, sent_frames), Chained(lengths, sent_frames, t),
           ~eof => EndsAt(lengths, sent_frames, t),
           t # <<>> => t[1].frame = n + 1 /\ t[1].index = 0,
           t = <<>> => eof \/ n = Len(sent_frames),
           Restart(t), AcceptedBefore(n + 1)'
    PROVE  reading' # "closed" => SomewhereInStep'
<1> SUFFICES ASSUME reading' # "closed" PROVE SomewhereInStep'
  OBVIOUS
<1>1. reading' = "length" /\ payload' = <<>>
  BY DEF Restart
<1>2. Len(sent_frames) \in Nat
  OBVIOUS
<1>3. NextWord(n + 1, 0)'
  <2>1. CASE t = <<>>
    BY <1>2, <2>1 DEF NextWord
  <2>2. CASE t # <<>>
    BY <2>2 DEF NextWord
  <2> QED BY <2>1, <2>2
<1>4. InFrame(lengths, n + 1)'
  BY <1>1, <1>3 DEF InFrame
<1>5. InStep(lengths, n + 1)'
  BY <1>4 DEF InStep
<1>6. n + 1 \in 1..Len(sent_frames') + 1 /\ lengths \in [1..Len(sent_frames') -> 0..TooLong]
  BY <1>2 DEF LengthsOf
<1> QED BY <1>5, <1>6 DEF SomewhereInStep

\* A word is read, the k-th of frame n: s becomes t.
AfterWord(lengths, sorts, s, t, n, k) ==
    /\ t \in Seq(Words) /\ Chained(lengths, sorts, t)
    /\ EndsAt(lengths, sorts, s) => EndsAt(lengths, sorts, t)
    /\ n \in 1..Len(sorts) /\ Placed(lengths, sorts, s[1]) /\ Head(s) = s[1] /\ s[1] \in Words
    /\ t # <<>> /\ k < lengths[n] => t[1].frame = n /\ t[1].index = k + 1
    /\ t # <<>> /\ k = lengths[n] => t[1].frame = n + 1 /\ t[1].index = 0
    /\ t = <<>> /\ EndsAt(lengths, sorts, s) => n = Len(sorts) /\ k = lengths[n]

LEMMA WordRead ==
    ASSUME NEW lengths, NEW sorts \in Seq(FrameKinds), LengthsOf(lengths, sorts),
           NEW s \in Seq(Words), s # <<>>, Chained(lengths, sorts, s), NEW t, t = Tail(s),
           NEW n, NEW k, s[1].frame = n, s[1].index = k
    PROVE  AfterWord(lengths, sorts, s, t, n, k)
<1>1. /\ Len(s) \in Nat /\ Len(s) >= 1 /\ t \in Seq(Words) /\ Len(t) = Len(s) - 1
      /\ \A i \in 1..Len(t) : t[i] = s[i + 1]
  OBVIOUS
<1>2. Len(t) \in Nat /\ Len(s) = Len(t) + 1
  BY <1>1
<1>3. Chained(lengths, sorts, t) /\ (EndsAt(lengths, sorts, s) => EndsAt(lengths, sorts, t))
  BY <1>1, <1>2, ChainSuffix
<1>4. Placed(lengths, sorts, s[1]) /\ s[1] \in Words /\ Head(s) = s[1]
  BY <1>1 DEF Chained
<1>5. n \in 1..Len(sorts) /\ k \in 0..lengths[n]
  BY <1>4 DEF Placed
<1>6. lengths[n] \in Nat /\ k \in Nat
  <2>1. lengths[n] \in 0..TooLong /\ TooLong \in Nat
    BY <1>5, FramingAssumption DEF LengthsOf, TooLong
  <2> QED BY <1>5, <2>1
<1>7. t # <<>> => Continues(lengths, s[1], 1, t[1])
  <2> SUFFICES ASSUME t # <<>> PROVE Continues(lengths, s[1], 1, t[1])
    OBVIOUS
  <2>1. 1 \in 1..Len(s) /\ 2 \in 1..Len(s) /\ 1 \in 1..Len(t) /\ t[1] = s[2]
    BY <1>1, <1>2
  <2>2. Continues(lengths, s[1], 2 - 1, s[2])
    BY <2>1 DEF Chained
  <2> QED BY <2>1, <2>2
<1>8. t # <<>> /\ k < lengths[n] => t[1].frame = n /\ t[1].index = k + 1
  BY <1>5, <1>6, <1>7 DEF Continues
<1>9. t # <<>> /\ k = lengths[n] => t[1].frame = n + 1 /\ t[1].index = 0
  BY <1>5, <1>6, <1>7 DEF Continues
<1>10. t = <<>> /\ EndsAt(lengths, sorts, s) => n = Len(sorts) /\ k = lengths[n]
  <2> SUFFICES ASSUME t = <<>>, EndsAt(lengths, sorts, s) PROVE n = Len(sorts) /\ k = lengths[n]
    OBVIOUS
  <2>1. Len(s) = 1
    <3>1. \A u \in Seq(Words) : u = <<>> => Len(u) = 0
      OBVIOUS
    <3>2. t \in Seq(Words) /\ t = <<>>
      BY <1>1
    <3>3. Len(t) = 0
      BY <3>1, <3>2, Zenon
    <3> QED BY <1>2, <3>3
  <2> QED BY <2>1 DEF EndsAt
<1> QED BY <1>1, <1>3, <1>4, <1>5, <1>8, <1>9, <1>10 DEF AfterWord

\* A frame that is not valid is passed without being accepted; a valid one is accepted.
LEMMA FrameSkipped ==
    ASSUME NEW n \in Nat, AcceptedBefore(n), UNCHANGED <<accepted, sent_frames>>, sent_frames[n] # "valid"
    PROVE  AcceptedBefore(n + 1)'
<1>1. \A k \in 1..n + 1 - 1 : k = n \/ k \in 1..n - 1
  OBVIOUS
<1>2. \A k \in 1..n - 1 : k \in 1..n + 1 - 1
  OBVIOUS
<1>3. \A i \in 1..Len(accepted) : /\ accepted[i] # <<>> /\ Whole(accepted[i])
                                   /\ accepted[i][1].frame \in 1..n + 1 - 1
                                   /\ sent_frames[accepted[i][1].frame] = "valid"
  BY <1>2 DEF AcceptedBefore
<1>4. \A k \in 1..n + 1 - 1 : sent_frames[k] = "valid" =>
                                  \E i \in 1..Len(accepted) : accepted[i][1].frame = k
  BY <1>1 DEF AcceptedBefore
<1>5. \A i, j \in 1..Len(accepted) : i < j => accepted[i][1].frame < accepted[j][1].frame
  BY DEF AcceptedBefore
<1> QED BY <1>3, <1>4, <1>5 DEF AcceptedBefore

LEMMA FrameAccepted ==
    ASSUME NEW n \in Nat \ {0}, AcceptedBefore(n), accepted \in Seq(Seq(Words)), NEW words \in Seq(Words),
           words # <<>>, Whole(words), words[1].frame = n, sent_frames[n] = "valid",
           accepted' = Append(accepted, words), UNCHANGED sent_frames
    PROVE  AcceptedBefore(n + 1)'
<1>1. PICK a, b : a = accepted /\ b = accepted'
  OBVIOUS
<1>2. PICK l : l = Len(a)
  OBVIOUS
<1>3. /\ l \in Nat /\ Len(b) = l + 1 /\ b[l + 1] = words /\ \A i \in 1..l : b[i] = a[i]
  BY <1>1, <1>2
<1>4. /\ \A i \in 1..l : /\ a[i] # <<>> /\ Whole(a[i]) /\ a[i][1].frame \in 1..n - 1
                          /\ sent_frames[a[i][1].frame] = "valid"
      /\ \A i, j \in 1..l : i < j => a[i][1].frame < a[j][1].frame
      /\ \A k \in 1..n - 1 : sent_frames[k] = "valid" => \E i \in 1..l : a[i][1].frame = k
  BY <1>1, <1>2 DEF AcceptedBefore
<1>5. \A i \in 1..l + 1 : i = l + 1 \/ i \in 1..l
  BY <1>3
<1>6. \A k \in 1..n + 1 - 1 : k = n \/ k \in 1..n - 1
  OBVIOUS
<1>7. \A i \in 1..l + 1 : /\ b[i] # <<>> /\ Whole(b[i]) /\ b[i][1].frame \in 1..n + 1 - 1
                          /\ sent_frames[b[i][1].frame] = "valid"
  <2>1. n \in 1..n + 1 - 1 /\ \A k \in 1..n - 1 : k \in 1..n + 1 - 1
    OBVIOUS
  <2> QED BY <1>3, <1>4, <1>5, <2>1
<1>8. ASSUME NEW i \in 1..l + 1, NEW j \in 1..l + 1, i < j PROVE b[i][1].frame < b[j][1].frame
  <2>1. i \in 1..l
    BY <1>3, <1>8
  <2>2. CASE j \in 1..l
    <3>1. a[i][1].frame < a[j][1].frame
      BY <1>4, <1>8, <2>1, <2>2
    <3>2. b[i] = a[i] /\ b[j] = a[j]
      BY <1>3, <2>1, <2>2
    <3> QED BY <3>1, <3>2
  <2>3. CASE j = l + 1
    <3>1. b[i][1].frame \in 1..n - 1 /\ b[j][1].frame = n
      BY <1>3, <1>4, <2>1, <2>3
    <3> QED BY <3>1
  <2> QED BY <1>5, <2>2, <2>3
<1>9. \A k \in 1..n + 1 - 1 : sent_frames[k] = "valid" => \E i \in 1..l + 1 : b[i][1].frame = k
  <2>1. l + 1 \in 1..l + 1 /\ b[l + 1][1].frame = n /\ \A i \in 1..l : i \in 1..l + 1
    BY <1>3
  <2>2. \A k \in 1..n - 1 : sent_frames[k] = "valid" => \E i \in 1..l + 1 : b[i][1].frame = k
    BY <1>3, <1>4, <2>1
  <2> QED BY <1>6, <2>1, <2>2
<1> QED BY <1>1, <1>3, <1>7, <1>8, <1>9 DEF AcceptedBefore

\* The lengths of the sorts of frames.
LEMMA KindLengths ==
    ASSUME NEW sorts \in Seq(FrameKinds), NEW lengths, LengthsOf(lengths, sorts), NEW n \in 1..Len(sorts)
    PROVE  /\ lengths[n] \in Nat
           /\ lengths[n] = 0 => sorts[n] = "empty"
           /\ lengths[n] \in 1..MaxFrameSize => sorts[n] \in {"valid", "badJson", "noBrace"}
<1>1. lengths[n] \in Lengths(sorts[n]) /\ sorts[n] \in FrameKinds /\ lengths[n] \in 0..TooLong
  BY DEF LengthsOf
<1>2. lengths[n] \in Nat /\ MaxFrameSize \in Nat /\ TooLong = MaxFrameSize + 1
  BY <1>1, FramingAssumption DEF TooLong
<1> QED BY <1>1, <1>2 DEF Lengths, FrameKinds

LEMMA LengthKeeps ==
    ASSUME FramingTypeOK, NEW lengths, NEW n \in 1..Len(sent_frames) + 1, InStep(lengths, n),
           ReadLength, reading' # "closed", ~unread'
    PROVE  SomewhereInStep'
<1>1. PICK s, sorts, t : s = stream /\ sorts = sent_frames /\ t = Tail(s)
  OBVIOUS
<1>2. /\ s \in Seq(Words) /\ sorts \in Seq(FrameKinds) /\ s # <<>>
      /\ reading = "length" /\ stream' = t /\ UNCHANGED <<sent_frames, eof>>
  BY <1>1 DEF FramingTypeOK, ReadLength
<1>3. /\ LengthsOf(lengths, sorts) /\ Chained(lengths, sorts, s) /\ (~eof => EndsAt(lengths, sorts, s))
      /\ payload = <<>> /\ s[1].frame = n /\ s[1].index = 0 /\ AcceptedBefore(n)
  BY <1>1, <1>2 DEF InStep, InFrame, NextWord
<1>4. /\ t \in Seq(Words) /\ Chained(lengths, sorts, t)
      /\ EndsAt(lengths, sorts, s) => EndsAt(lengths, sorts, t)
      /\ n \in 1..Len(sorts) /\ Placed(lengths, sorts, s[1]) /\ Head(s) = s[1] /\ s[1] \in Words
      /\ t # <<>> /\ 0 < lengths[n] => t[1].frame = n /\ t[1].index = 0 + 1
      /\ t # <<>> /\ 0 = lengths[n] => t[1].frame = n + 1 /\ t[1].index = 0
      /\ t = <<>> /\ EndsAt(lengths, sorts, s) => n = Len(sorts) /\ 0 = lengths[n]
  <2>1. \E k : k = 0 /\ AfterWord(lengths, sorts, s, t, n, k)
    BY <1>1, <1>2, <1>3, WordRead
  <2> QED BY <2>1 DEF AfterWord
<1>5. Head(s).as = lengths[n]
  BY <1>3, <1>4 DEF Placed
<1>6. lengths[n] \in Nat /\ (lengths[n] = 0 => sorts[n] = "empty")
  BY <1>2, <1>3, <1>4, KindLengths
<1>7. ~(lengths[n] > MaxFrameSize)
  BY <1>1, <1>5 DEF ReadLength, Reject
<1>8. CASE lengths[n] = 0
  <2>1. Restart(t) /\ UNCHANGED <<accepted, sent_frames>>
    BY <1>1, <1>2, <1>5, <1>7, <1>8 DEF ReadLength, Reject
  <2>2. AcceptedBefore(n + 1)'
    <3>1. sent_frames[n] # "valid" /\ n \in Nat
      BY <1>1, <1>4, <1>6, <1>8
    <3> QED BY <1>3, <2>1, <3>1, FrameSkipped
  <2>3. t = <<>> => eof \/ n = Len(sorts)
    BY <1>3, <1>4
  <2>4. n \in 1..Len(sent_frames) /\ sent_frames \in Seq(FrameKinds)
    BY <1>1, <1>2, <1>4
  <2> QED BY <1>1, <1>2, <1>3, <1>4, <1>8, <2>1, <2>2, <2>3, <2>4, FrameEnds
<1>9. CASE lengths[n] # 0
  <2>1. reading' = "first" /\ size' = lengths[n] /\ UNCHANGED <<payload, accepted, unread>>
    BY <1>1, <1>5, <1>7, <1>9 DEF ReadLength
  <2>2. lengths[n] \in 1..MaxFrameSize /\ 0 < lengths[n]
    BY <1>6, <1>7, <1>9, FramingAssumption
  <2>3. NextWord(n, 1)'
    <3>1. t = <<>> => eof
      BY <1>3, <1>4, <1>9
    <3>2. t # <<>> => t[1].frame = n /\ t[1].index = 1
      BY <1>4, <2>2
    <3> QED BY <1>2, <3>1, <3>2 DEF NextWord
  <2>4. InFrame(lengths, n)'
    <3>1. n <= Len(sent_frames') /\ payload' = <<>>
      BY <1>1, <1>2, <1>3, <1>4, <2>1
    <3> QED BY <2>1, <2>2, <2>3, <3>1 DEF InFrame
  <2>5. AcceptedBefore(n)'
    BY <1>2, <1>3, <2>1 DEF AcceptedBefore
  <2>6. InStep(lengths, n)'
    BY <1>1, <1>2, <1>3, <1>4, <2>4, <2>5 DEF InStep
  <2> QED BY <1>1, <1>2, <1>3, <2>6 DEF SomewhereInStep, LengthsOf
<1> QED BY <1>8, <1>9

LEMMA FirstKeeps ==
    ASSUME FramingTypeOK, NEW lengths, NEW n \in 1..Len(sent_frames) + 1, InStep(lengths, n),
           ReadFirst, reading' # "closed", ~unread'
    PROVE  SomewhereInStep'
<1>1. PICK s, sorts, t : s = stream /\ sorts = sent_frames /\ t = Tail(s)
  OBVIOUS
<1>2. /\ s \in Seq(Words) /\ sorts \in Seq(FrameKinds) /\ s # <<>>
      /\ reading = "first" /\ stream' = t /\ UNCHANGED <<sent_frames, eof>>
  BY <1>1 DEF FramingTypeOK, ReadFirst
<1>3. /\ LengthsOf(lengths, sorts) /\ Chained(lengths, sorts, s) /\ (~eof => EndsAt(lengths, sorts, s))
      /\ s[1].frame = n /\ s[1].index = 1 /\ AcceptedBefore(n)
      /\ size = lengths[n] /\ size \in 1..MaxFrameSize
  BY <1>1, <1>2 DEF InStep, InFrame, NextWord
<1>4. /\ t \in Seq(Words) /\ Chained(lengths, sorts, t)
      /\ EndsAt(lengths, sorts, s) => EndsAt(lengths, sorts, t)
      /\ n \in 1..Len(sorts) /\ Placed(lengths, sorts, s[1]) /\ Head(s) = s[1] /\ s[1] \in Words
      /\ t # <<>> /\ 1 < lengths[n] => t[1].frame = n /\ t[1].index = 1 + 1
      /\ t # <<>> /\ 1 = lengths[n] => t[1].frame = n + 1 /\ t[1].index = 0
      /\ t = <<>> /\ EndsAt(lengths, sorts, s) => n = Len(sorts) /\ 1 = lengths[n]
  <2>1. \E k : k = 1 /\ AfterWord(lengths, sorts, s, t, n, k)
    BY <1>1, <1>2, <1>3, WordRead
  <2> QED BY <2>1 DEF AfterWord
<1>5. CASE s[1].as = Brace
  <2>1. /\ reading' = "rest" /\ payload' = <<s[1]>> /\ s[1].as = Brace
        /\ UNCHANGED <<size, accepted, unread>>
    BY <1>1, <1>4, <1>5 DEF ReadFirst
  <2>2. sorts[n] # "noBrace"
    BY <1>3, <1>4, <2>1 DEF Placed
  <2>3. IF size' = 1 THEN NextWord(n + 1, 0)' ELSE NextWord(n, 2)'
    <3>1. MaxFrameSize \in Nat /\ lengths[n] \in 1..MaxFrameSize /\ size' = lengths[n]
      BY <1>3, <2>1, FramingAssumption
    <3>2. CASE lengths[n] = 1
      <4>1. t = <<>> => eof \/ (n + 1 = Len(sorts) + 1)
        BY <1>3, <1>4
      <4>2. t # <<>> => t[1].frame = n + 1 /\ t[1].index = 0
        BY <1>4, <3>2
      <4>3. NextWord(n + 1, 0)'
        BY <1>1, <1>2, <4>1, <4>2 DEF NextWord
      <4> QED BY <3>1, <3>2, <4>3
    <3>3. CASE lengths[n] # 1
      <4>1. t = <<>> => eof
        BY <1>3, <1>4, <3>3
      <4>2. t # <<>> => t[1].frame = n /\ t[1].index = 2
        BY <1>4, <3>1, <3>3
      <4>3. NextWord(n, 2)'
        BY <1>1, <1>2, <4>1, <4>2 DEF NextWord
      <4> QED BY <3>1, <3>3, <4>3
    <3> QED BY <3>2, <3>3
  <2>4. InFrame(lengths, n)'
    <3>1. payload' # <<>> /\ payload'[1].frame = n /\ payload'[1].index = 1
      BY <1>3, <2>1
    <3>2. n <= Len(sent_frames') /\ sent_frames'[n] # "noBrace" /\ size' = lengths[n] /\ size' \in 1..MaxFrameSize
      BY <1>1, <1>2, <1>3, <1>4, <2>1, <2>2
    <3> QED BY <2>1, <2>3, <3>1, <3>2 DEF InFrame
  <2>5. AcceptedBefore(n)'
    BY <1>2, <1>3, <2>1 DEF AcceptedBefore
  <2>6. InStep(lengths, n)'
    BY <1>1, <1>2, <1>3, <1>4, <2>4, <2>5 DEF InStep
  <2> QED BY <1>1, <1>2, <1>3, <2>6 DEF SomewhereInStep, LengthsOf
<1>6. CASE s[1].as # Brace
  <2>1. Restart(t) /\ UNCHANGED <<accepted, sent_frames>> /\ size = 1
    <3>1. Reject(t, size > 1) /\ size \in Nat \ {0}
      BY <1>1, <1>2, <1>3, <1>4, <1>6, FramingAssumption DEF ReadFirst
    <3>2. ~(size > 1)
      BY <3>1 DEF Reject
    <3> QED BY <1>2, <3>1, <3>2 DEF Reject
  <2>2. n \in 1..Len(sent_frames) /\ sent_frames \in Seq(FrameKinds) /\ sent_frames[n] # "valid"
    BY <1>1, <1>2, <1>3, <1>4, <1>6 DEF Placed
  <2>3. AcceptedBefore(n + 1)'
    <3>1. n \in Nat
      BY <2>2
    <3> QED BY <1>3, <2>1, <2>2, <3>1, FrameSkipped
  <2>4. 1 = lengths[n]
    BY <1>3, <2>1
  <2>5. t = <<>> => eof \/ n = Len(sent_frames)
    BY <1>1, <1>3, <1>4
  <2>6. t # <<>> => t[1].frame = n + 1 /\ t[1].index = 0
    BY <1>4, <2>4
  <2> QED BY <1>1, <1>2, <1>3, <1>4, <2>1, <2>2, <2>3, <2>5, <2>6, FrameEnds
<1> QED BY <1>5, <1>6

\* The rest of a payload: the words that follow its first one, to the end of the frame.
PayloadRead(words, p, s, n, l) ==
    /\ words \in Seq(Words) /\ words # <<>> /\ Whole(words) /\ words[1] = p
    /\ l > 1 => s[l - 1].frame = n /\ s[l - 1].index = l

LEMMA PayloadWhole ==
    ASSUME NEW lengths, NEW sorts, NEW s \in Seq(Words), Chained(lengths, sorts, s),
           NEW n, NEW p \in Words, p.frame = n, p.index = 1, NEW l \in Nat \ {0}, lengths[n] = l,
           Len(s) >= l - 1, l > 1 => s[1].frame = n /\ s[1].index = 2,
           NEW words, words = <<p>> \o SubSeq(s, 1, l - 1)
    PROVE  PayloadRead(words, p, s, n, l)
<1> DEFINE u == SubSeq(s, 1, l - 1)
<1>1. u \in Seq(Words) /\ Len(u) = l - 1 /\ \A i \in 1..l - 1 : u[i] = s[i]
  OBVIOUS
<1>2. words = <<p>> \o u
  OBVIOUS
<1> HIDE DEF u
<1>3. words \in Seq(Words) /\ Len(words) = l /\ words[1] = p /\ \A i \in 1..l : i # 1 => words[i] = u[i - 1]
  BY <1>1, <1>2
<1>4. \A i \in 1..l - 1 : s[i].frame = n /\ s[i].index = i + 1
  <2> SUFFICES ASSUME NEW i \in 1..l - 1 PROVE s[i].frame = n /\ s[i].index = i + 1
    OBVIOUS
  <2>1. i \in 1..Len(s) /\ 1 \in 1..Len(s) /\ 1 <= i /\ l > 1
    OBVIOUS
  <2>2. Continues(lengths, s[1], i - 1, s[i])
    BY <2>1 DEF Chained
  <2>3. s[1].frame = n /\ s[1].index = 2 /\ i - 1 <= l - 2 /\ 2 + (i - 1) = i + 1
    BY <2>1
  <2> QED BY <2>2, <2>3 DEF Continues
<1>5. \A i \in 1..l : words[i].frame = n /\ words[i].index = i
  <2> SUFFICES ASSUME NEW i \in 1..l PROVE words[i].frame = n /\ words[i].index = i
    OBVIOUS
  <2>1. CASE i = 1
    BY <1>3, <2>1
  <2>2. CASE i # 1
    <3>1. i - 1 \in 1..l - 1 /\ (i - 1) + 1 = i
      BY <2>2
    <3>2. words[i] = s[i - 1]
      BY <1>1, <1>3, <2>2, <3>1
    <3> QED BY <1>4, <3>1, <3>2
  <2> QED BY <2>1, <2>2
<1>6. Whole(words)
  <2>1. Len(words) = l /\ 1 \in 1..l
    BY <1>3
  <2> QED BY <1>5, <2>1 DEF Whole
<1>7. l > 1 => s[l - 1].frame = n /\ s[l - 1].index = l
  <2>1. l > 1 => l - 1 \in 1..l - 1 /\ (l - 1) + 1 = l
    OBVIOUS
  <2> QED BY <1>4, <2>1
<1>8. words # <<>>
  BY <1>2, <1>3
<1> QED BY <1>3, <1>6, <1>7, <1>8 DEF PayloadRead

LEMMA RestKeeps ==
    ASSUME FramingTypeOK, NEW lengths, NEW n \in 1..Len(sent_frames) + 1, InStep(lengths, n),
           ReadRest, reading' # "closed", ~unread'
    PROVE  SomewhereInStep'
<1>1. PICK s, sorts, l : s = stream /\ sorts = sent_frames /\ l = size
  OBVIOUS
<1>2. PICK words, t : words = payload \o SubSeq(s, 1, l - 1) /\ t = SubSeq(s, l, Len(s))
  OBVIOUS
<1>3. /\ s \in Seq(Words) /\ sorts \in Seq(FrameKinds) /\ Len(s) \in Nat /\ Len(sorts) \in Nat
      /\ payload \in Seq(Words) /\ Len(payload) <= 1 /\ accepted \in Seq(Seq(Words))
  BY <1>1 DEF FramingTypeOK
<1>4. /\ reading = "rest" /\ Len(s) >= l - 1 /\ stream' = t /\ UNCHANGED <<sent_frames, eof>>
      /\ Restart(t)
      /\ \/ MayParse(words) /\ accepted' = Append(accepted, words)
         \/ ~MustParse(words) /\ UNCHANGED accepted
  BY <1>1, <1>2 DEF ReadRest, Reject
<1>5. /\ LengthsOf(lengths, sorts) /\ Chained(lengths, sorts, s) /\ (~eof => EndsAt(lengths, sorts, s))
      /\ AcceptedBefore(n) /\ payload # <<>> /\ payload[1].frame = n /\ payload[1].index = 1
      /\ n <= Len(sorts) /\ l = lengths[n] /\ l \in 1..MaxFrameSize /\ sorts[n] # "noBrace"
      /\ IF l = 1 THEN NextWord(n + 1, 0) ELSE NextWord(n, 2)
  BY <1>1, <1>4 DEF InStep, InFrame
<1>6. n \in 1..Len(sorts) /\ n \in Nat \ {0} /\ l \in Nat \ {0} /\ l - 1 \in Nat
  BY <1>1, <1>3, <1>5, FramingAssumption
<1>7. PICK p \in Words : payload = <<p>>
  <2>1. \A u \in Seq(Words) : u # <<>> /\ Len(u) <= 1 => u[1] \in Words /\ u = <<u[1]>>
    <3> SUFFICES ASSUME NEW u \in Seq(Words), u # <<>>, Len(u) <= 1
                 PROVE  u[1] \in Words /\ u = <<u[1]>>
      OBVIOUS
    <3>1. Len(u) = 1
      OBVIOUS
    <3> QED BY <3>1
  <2> QED BY <1>3, <1>5, <2>1
<1>8. p.frame = n /\ p.index = 1
  BY <1>5, <1>7
<1>9. s # <<>> => /\ l = 1 => s[1].frame = n + 1 /\ s[1].index = 0
                  /\ l > 1 => s[1].frame = n /\ s[1].index = 2
  BY <1>1, <1>5, <1>6 DEF NextWord
<1>10. s = <<>> => eof \/ n = Len(sorts)
  BY <1>1, <1>3, <1>5, <1>6 DEF NextWord
<1>11. l > 1 => s # <<>>
  BY <1>3, <1>4, <1>6
<1>12. /\ words \in Seq(Words) /\ words # <<>> /\ Whole(words) /\ words[1] = p
       /\ l > 1 => s[l - 1].frame = n /\ s[l - 1].index = l
  <2>1. words = <<p>> \o SubSeq(s, 1, l - 1)
    BY <1>2, <1>7
  <2>2. l > 1 => s[1].frame = n /\ s[1].index = 2
    BY <1>9, <1>11
  <2>3. s \in Seq(Words) /\ Chained(lengths, sorts, s) /\ lengths[n] = l /\ Len(s) >= l - 1
    BY <1>3, <1>4, <1>5
  <2>4. PayloadRead(words, p, s, n, l)
    BY <1>6, <1>8, <2>1, <2>2, <2>3, PayloadWhole
  <2> QED BY <2>4 DEF PayloadRead
<1>13. /\ t \in Seq(Words) /\ Len(t) = Len(s) - (l - 1) /\ Len(s) = Len(t) + (l - 1)
       /\ \A i \in 1..Len(t) : t[i] = s[i + (l - 1)]
  <2>1. \A m \in 1..Len(s) + 1 :
            /\ SubSeq(s, m, Len(s)) \in Seq(Words) /\ Len(SubSeq(s, m, Len(s))) = Len(s) - (m - 1)
            /\ \A i \in 1..Len(SubSeq(s, m, Len(s))) : SubSeq(s, m, Len(s))[i] = s[i + (m - 1)]
    BY <1>3
  <2>2. l \in 1..Len(s) + 1
    BY <1>3, <1>4, <1>6
  <2>3. t \in Seq(Words) /\ Len(t) = Len(s) - (l - 1) /\ \A i \in 1..Len(t) : t[i] = s[i + (l - 1)]
    BY <1>2, <2>1, <2>2
  <2>4. (Len(s) - (l - 1)) + (l - 1) = Len(s)
    BY <1>3, <1>6
  <2>5. Len(t) + (l - 1) = Len(s)
    BY <2>3, <2>4, Zenon
  <2> QED BY <2>3, <2>5, Zenon
<1>14. Chained(lengths, sorts, t) /\ (~eof => EndsAt(lengths, sorts, t))
  BY <1>3, <1>5, <1>6, <1>13, ChainSuffix
<1>15. t # <<>> => t[1].frame = n + 1 /\ t[1].index = 0
  <2> SUFFICES ASSUME t # <<>> PROVE t[1].frame = n + 1 /\ t[1].index = 0
    OBVIOUS
  <2>1. 1 \in 1..Len(t) /\ s # <<>> /\ t[1] = s[1 + (l - 1)] /\ 1 + (l - 1) = l /\ l \in 1..Len(s)
    <3>1. /\ Len(t) \in Nat /\ Len(s) \in Nat /\ l \in Int /\ l >= 1
          /\ Len(s) = Len(t) + (l - 1) /\ Len(t) # 0
      BY <1>3, <1>6, <1>13
    <3>2. 1 \in 1..Len(t) /\ 1 + (l - 1) = l /\ l \in 1..Len(s)
      BY <3>1
    <3> QED BY <1>13, <3>1, <3>2
  <2>2. CASE l = 1
    BY <1>9, <2>1, <2>2
  <2>3. CASE l > 1
    <3>1. Continues(lengths, s[1], l - 1, s[l])
      <4>1. 1 \in 1..Len(s) /\ l \in 1..Len(s) /\ 1 <= l
        BY <1>3, <1>6, <2>1
      <4> QED BY <1>5, <4>1 DEF Chained
    <3>2. s[1].frame = n /\ s[1].index = 2 /\ l - 1 = (l - 2) + 1 /\ lengths[n] = l
      BY <1>5, <1>6, <1>9, <2>1, <2>3
    <3> QED BY <2>1, <3>1, <3>2 DEF Continues
  <2> QED BY <1>6, <2>2, <2>3
<1>16. t = <<>> => eof \/ n = Len(sorts)
  <2> SUFFICES ASSUME t = <<>>, ~eof PROVE n = Len(sorts)
    OBVIOUS
  <2>1. Len(t) = 0
    <3>1. \A u \in Seq(Words) : u = <<>> => Len(u) = 0
      OBVIOUS
    <3>2. t \in Seq(Words) /\ t = <<>>
      BY <1>13
    <3> QED BY <3>1, <3>2, Zenon
  <2>2. Len(s) = l - 1
    BY <1>3, <1>6, <1>13, <2>1
  <2>3. CASE s = <<>>
    BY <1>10, <2>3
  <2>4. CASE s # <<>>
    <3>1. l > 1
      BY <1>3, <1>6, <2>2, <2>4
    <3> QED BY <1>5, <1>12, <2>2, <2>4, <3>1 DEF EndsAt
  <2> QED BY <2>3, <2>4
<1>17. sorts[n] \in {"valid", "badJson"}
  <2>1. lengths[n] \in 1..MaxFrameSize => sorts[n] \in {"valid", "badJson", "noBrace"}
    BY <1>3, <1>5, <1>6, KindLengths
  <2> QED BY <1>5, <2>1
<1>18. words[1].frame = n
  BY <1>8, <1>12
<1>19. AcceptedBefore(n + 1)'
  <2>1. CASE MayParse(words) /\ accepted' = Append(accepted, words)
    <3>1. sent_frames[n] = "valid"
      BY <1>1, <1>12, <1>17, <1>18, <2>1 DEF MayParse
    <3> QED BY <1>3, <1>4, <1>5, <1>6, <1>12, <1>18, <2>1, <3>1, FrameAccepted
  <2>2. CASE ~MustParse(words) /\ UNCHANGED accepted
    <3>1. sent_frames[n] # "valid"
      BY <1>12, <1>18, <2>2 DEF MustParse
    <3> QED BY <1>4, <1>5, <1>6, <2>2, <3>1, FrameSkipped
  <2> QED BY <1>4, <2>1, <2>2
<1>20. n \in 1..Len(sent_frames) /\ sent_frames \in Seq(FrameKinds) /\ LengthsOf(lengths, sent_frames)
       /\ Chained(lengths, sent_frames, t) /\ (~eof => EndsAt(lengths, sent_frames, t))
       /\ (t = <<>> => eof \/ n = Len(sent_frames))
  BY <1>1, <1>3, <1>5, <1>6, <1>14, <1>16
<1> QED BY <1>4, <1>13, <1>15, <1>19, <1>20, FrameEnds

\* The steps keep the variables' types.
LEMMA FramingTypesNext ==
    FramingTypeOK /\ Sized /\ [FramingNext]_framingVars => FramingTypeOK' /\ Sized'
<1> SUFFICES ASSUME FramingTypeOK, Sized, [FramingNext]_framingVars PROVE FramingTypeOK' /\ Sized'
  OBVIOUS
<1> USE DEF FramingTypeOK, Sized
<1>0. MaxFrameSize \in Nat \ {0} /\ MaxSent \in Nat
  BY FramingAssumption
<1>8. <<>> \in Seq(Words) /\ Len(<<>>) <= 1
  OBVIOUS
<1>1. CASE SendFrame
  <2>1. PICK kind \in FrameKinds :
            \E length \in Lengths(kind) : \E words \in Contents(kind, length, Len(sent_frames) + 1) :
                sent_frames' = Append(sent_frames, kind) /\ stream' = stream \o words
    BY <1>1 DEF SendFrame
  <2>2. PICK length \in Lengths(kind) :
            \E words \in Contents(kind, length, Len(sent_frames) + 1) :
                sent_frames' = Append(sent_frames, kind) /\ stream' = stream \o words
    BY <2>1
  <2>3. PICK words \in Contents(kind, length, Len(sent_frames) + 1) :
            sent_frames' = Append(sent_frames, kind) /\ stream' = stream \o words
    BY <2>2
  <2>4. Len(sent_frames) < MaxSent /\ Len(sent_frames) \in Nat
    BY <1>1 DEF SendFrame
  <2>5. Len(sent_frames) + 1 \in 1..MaxSent
    BY <1>0, <2>4
  <2>6. words \in Seq(Words)
    BY <2>5, ContentsWords
  <2>7. stream' \in Seq(Words)
    BY <2>3, <2>6
  <2>8. sent_frames' \in Seq(FrameKinds) /\ Len(sent_frames') <= MaxSent
    BY <1>0, <2>3, <2>4
  <2> QED BY <1>1, <2>7, <2>8 DEF SendFrame
<1>2. CASE PeerCloses
  <2>1. stream' \in Seq(Words)
    BY <1>2 DEF PeerCloses
  <2> QED BY <1>2, <2>1 DEF PeerCloses
<1>3. CASE ReadLength
  <2>1. stream # <<>> /\ stream' = Tail(stream) /\ Head(stream) \in Words
    BY <1>3 DEF ReadLength
  <2>2. Head(stream).as \in 0..Brace /\ Brace \in Nat
    BY <1>0, <2>1 DEF Words, Brace
  <2>3. stream' \in Seq(Words)
    BY <2>1
  <2>4. size' \in 0..MaxFrameSize
    BY <1>0, <1>3, <2>2 DEF ReadLength, Reject, Restart
  <2>5. payload' = payload \/ payload' = <<>>
    BY <1>3 DEF ReadLength, Reject, Restart
  <2>6. payload' \in Seq(Words) /\ Len(payload') <= 1
    BY <1>8, <2>5
  <2>7. unread' \in BOOLEAN
    BY <1>3 DEF ReadLength, Reject
  <2>8. /\ UNCHANGED <<sent_frames, eof>> /\ accepted' = accepted
        /\ reading' \in {"length", "first", "rest", "closed"}
    BY <1>3 DEF ReadLength, Reject, Restart
  <2>9. Sized'
    BY <1>3 DEF ReadLength, Reject, Restart
  <2> QED BY <2>3, <2>4, <2>6, <2>7, <2>8, <2>9
<1>4. CASE ReadFirst
  <2>1. stream # <<>> /\ stream' = Tail(stream) /\ Head(stream) \in Words
    BY <1>4 DEF ReadFirst
  <2>2. stream' \in Seq(Words)
    BY <2>1
  <2>3. size' \in 0..MaxFrameSize
    BY <1>0, <1>4 DEF ReadFirst, Reject, Restart
  <2>4. payload' = <<Head(stream)>> \/ payload' = <<>>
    BY <1>4 DEF ReadFirst, Reject, Restart
  <2>5. payload' \in Seq(Words) /\ Len(payload') <= 1
    <3>1. \A x \in Words : <<x>> \in Seq(Words) /\ Len(<<x>>) <= 1
      OBVIOUS
    <3> QED BY <1>8, <2>1, <2>4, <3>1
  <2>6. unread' \in BOOLEAN
    BY <1>4 DEF ReadFirst, Reject
  <2>7. /\ UNCHANGED <<sent_frames, eof>> /\ accepted' = accepted
        /\ reading' \in {"length", "first", "rest", "closed"}
    BY <1>4 DEF ReadFirst, Reject, Restart
  <2>8. Sized'
    BY <1>4 DEF ReadFirst, Reject, Restart
  <2> QED BY <2>2, <2>3, <2>5, <2>6, <2>7, <2>8
<1>5. CASE ReadRest
  <2>0. PICK l, u, w, t : /\ l = size /\ u = SubSeq(stream, 1, l - 1) /\ w = payload \o u
                          /\ t = SubSeq(stream, l, Len(stream))
    OBVIOUS
  <2>1. l \in Nat \ {0} /\ l - 1 <= Len(stream) /\ Len(stream) \in Nat
    BY <1>0, <1>5, <2>0 DEF ReadRest
  <2>2. u \in Seq(Words) /\ t \in Seq(Words)
    <3>1. \A v \in Seq(Words) : \A i, j \in Nat :
              i >= 1 /\ j <= Len(v) => SubSeq(v, i, j) \in Seq(Words)
      OBVIOUS
    <3>2. l - 1 \in Nat /\ stream \in Seq(Words) /\ 1 \in Nat /\ l \in Nat /\ l >= 1 /\ 1 >= 1
      BY <2>1
    <3>3. u \in Seq(Words)
      BY <2>0, <2>1, <3>1, <3>2
    <3>4. Len(stream) <= Len(stream)
      BY <2>1
    <3> QED BY <2>0, <2>1, <3>1, <3>2, <3>3, <3>4
  <2>3. w \in Seq(Words)
    BY <2>0, <2>2
  <2>4. accepted' = Append(accepted, w) \/ accepted' = accepted
    BY <1>5, <2>0 DEF ReadRest, Reject
  <2>5. accepted' \in Seq(Seq(Words))
    <3>1. \A S : \A a \in Seq(S) : \A e \in S : Append(a, e) \in Seq(S)
      OBVIOUS
    <3> QED BY <2>3, <2>4, <3>1
  <2>6. stream' = t /\ UNCHANGED <<sent_frames, eof>> /\ Restart(t)
    BY <1>5, <2>0 DEF ReadRest, Reject
  <2>7. unread' \in BOOLEAN
    BY <1>5 DEF ReadRest, Reject
  <2>8. size' \in 0..MaxFrameSize /\ payload' = <<>> /\ reading' \in {"length", "closed"}
    BY <1>0, <2>6 DEF Restart
  <2>9. payload' \in Seq(Words) /\ Len(payload') <= 1
    BY <2>8, <1>8
  <2> QED BY <2>2, <2>5, <2>6, <2>7, <2>8, <2>9
<1>6. CASE Incomplete
  BY <1>6 DEF Incomplete
<1>7. CASE UNCHANGED framingVars
  BY <1>7 DEF framingVars
<1> QED BY <1>1, <1>2, <1>3, <1>4, <1>5, <1>6, <1>7 DEF FramingNext, Decode

LEMMA FramingInvInit == FramingInit => FramingInv
<1> SUFFICES ASSUME FramingInit PROVE FramingInv
  OBVIOUS
<1>1. FramingTypeOK /\ Sized
  <2>1. /\ <<>> \in Seq(FrameKinds) /\ <<>> \in Seq(Words) /\ <<>> \in Seq(Seq(Words))
        /\ Len(<<>>) = 0
    OBVIOUS
  <2>2. 0 <= MaxSent /\ 0 \in 0..MaxFrameSize
    BY FramingAssumption
  <2>3. Len(sent_frames) <= MaxSent /\ Len(payload) <= 1
    BY <2>1, <2>2 DEF FramingInit
  <2> QED BY <2>1, <2>2, <2>3 DEF FramingInit, FramingTypeOK, Sized
<1>2. PICK lengths : lengths = [n \in 1..0 |-> 0]
  OBVIOUS
<1>3. Len(sent_frames) = 0 /\ Len(stream) = 0 /\ Len(accepted) = 0
  BY DEF FramingInit
<1>4. lengths \in [1..Len(sent_frames) -> 0..TooLong]
  BY <1>2, <1>3
<1>5. LengthsOf(lengths, sent_frames)
  BY <1>3, <1>4 DEF LengthsOf
<1>6. Chained(lengths, sent_frames, stream) /\ EndsAt(lengths, sent_frames, stream)
  BY <1>3 DEF FramingInit, Chained, EndsAt
<1>7. InFrame(lengths, 1)
  BY <1>3 DEF FramingInit, InFrame, NextWord
<1>8. AcceptedBefore(1)
  BY <1>3 DEF AcceptedBefore
<1>9. InStep(lengths, 1) /\ 1 \in 1..Len(sent_frames) + 1
  BY <1>3, <1>5, <1>6, <1>7, <1>8 DEF InStep
<1> QED BY <1>1, <1>4, <1>9 DEF FramingInv, SomewhereInStep

LEMMA FramingInvNext == FramingInv /\ [FramingNext]_framingVars => FramingInv'
<1> SUFFICES ASSUME FramingInv, [FramingNext]_framingVars, reading' # "closed", ~unread'
             PROVE  SomewhereInStep'
  BY FramingTypesNext DEF FramingInv
<1>1. CASE UNCHANGED framingVars
  <2>1. PICK lengths \in [1..Len(sent_frames) -> 0..TooLong] :
            \E n \in 1..Len(sent_frames) + 1 : InStep(lengths, n)
    BY <1>1 DEF FramingInv, framingVars, SomewhereInStep
  <2>2. PICK n \in 1..Len(sent_frames) + 1 : InStep(lengths, n)
    BY <2>1
  <2>3. AcceptedBefore(n)'
    BY <1>1, <2>2 DEF framingVars, InStep, AcceptedBefore
  <2>4. InFrame(lengths, n)'
    BY <1>1, <2>2 DEF framingVars, InStep, InFrame, NextWord
  <2>5. InStep(lengths, n)'
    BY <1>1, <2>2, <2>3, <2>4 DEF framingVars, InStep
  <2> QED BY <1>1, <2>5 DEF framingVars, SomewhereInStep
<1>2. CASE FramingNext
  <2>1. reading # "closed" /\ ~unread
    BY <1>2 DEF FramingNext, SendFrame, PeerCloses, Decode, ReadLength, ReadFirst, ReadRest, Incomplete,
                Reject, FramingInv, FramingTypeOK
  <2>2. PICK lengths \in [1..Len(sent_frames) -> 0..TooLong] :
            \E n \in 1..Len(sent_frames) + 1 : InStep(lengths, n)
    BY <2>1 DEF FramingInv, SomewhereInStep
  <2>3. PICK n \in 1..Len(sent_frames) + 1 : InStep(lengths, n)
    BY <2>2
  <2>4. FramingTypeOK
    BY DEF FramingInv
  <2>5. ~Incomplete
    BY DEF Incomplete
  <2> QED BY <1>2, <2>3, <2>4, <2>5, SendKeeps, CloseKeeps, LengthKeeps, FirstKeeps, RestKeeps
          DEF FramingNext, Decode
<1> QED BY <1>1, <1>2

LEMMA FramingInvStep == FramingInv => StaysInStep
<1> SUFFICES ASSUME FramingInv, reading = "length", ~unread, ~eof \/ stream # <<>>
             PROVE  LET next == IF stream = <<>> THEN Len(sent_frames) + 1 ELSE Head(stream).frame
                    IN  /\ stream # <<>> => Head(stream).index = 0
                        /\ \A i \in 1..Len(accepted) : Whole(accepted[i])
                        /\ \A i, j \in 1..Len(accepted) :
                               i < j => accepted[i][1].frame < accepted[j][1].frame
                        /\ {accepted[i][1].frame : i \in 1..Len(accepted)}
                               = {n \in 1..next - 1 : sent_frames[n] = "valid"}
  BY DEF StaysInStep
<1>1. PICK lengths \in [1..Len(sent_frames) -> 0..TooLong] :
          \E n \in 1..Len(sent_frames) + 1 : InStep(lengths, n)
  BY DEF FramingInv, SomewhereInStep
<1>2. PICK n \in 1..Len(sent_frames) + 1 : InStep(lengths, n)
  BY <1>1
<1>3. NextWord(n, 0) /\ AcceptedBefore(n)
  BY <1>2 DEF InStep, InFrame
<1>4. stream # <<>> => Head(stream) = stream[1]
  BY DEF FramingInv, FramingTypeOK
<1>5. n = IF stream = <<>> THEN Len(sent_frames) + 1 ELSE Head(stream).frame
  BY <1>3, <1>4 DEF NextWord
<1>6. stream # <<>> => Head(stream).index = 0
  BY <1>3, <1>4 DEF NextWord
<1>7. {accepted[i][1].frame : i \in 1..Len(accepted)} = {k \in 1..n - 1 : sent_frames[k] = "valid"}
  <2>1. \A i \in 1..Len(accepted) :
            accepted[i][1].frame \in 1..n - 1 /\ sent_frames[accepted[i][1].frame] = "valid"
    BY <1>3 DEF AcceptedBefore
  <2>2. \A k \in 1..n - 1 : sent_frames[k] = "valid" =>
                                \E i \in 1..Len(accepted) : accepted[i][1].frame = k
    BY <1>3 DEF AcceptedBefore
  <2> DEFINE left == {accepted[i][1].frame : i \in 1..Len(accepted)}
             right == {k \in 1..n - 1 : sent_frames[k] = "valid"}
  <2>3. left \subseteq right
    BY <2>1
  <2>4. right \subseteq left
    BY <2>2
  <2> QED BY <2>3, <2>4
<1>8. /\ \A i \in 1..Len(accepted) : Whole(accepted[i])
      /\ \A i, j \in 1..Len(accepted) : i < j => accepted[i][1].frame < accepted[j][1].frame
  BY <1>3 DEF AcceptedBefore
<1> QED BY <1>5, <1>6, <1>7, <1>8

\* Whatever is sent and wherever the stream ends, the reader loses its place only by
\* rejecting a frame with part of it unread.
THEOREM StaysInStepCorrect == FramingSpec => []StaysInStep
BY FramingInvInit, FramingInvNext, FramingInvStep, PTL DEF FramingSpec

\* The reader's state is well typed, for any limit on the size of a frame.
THEOREM FramingTypeCorrect == FramingSpec => []FramingTypeOK
<1>1. FramingInv => FramingTypeOK
  BY DEF FramingInv
<1> QED BY <1>1, FramingInvInit, FramingInvNext, PTL DEF FramingSpec

\* The decoder's state is well typed: it never looks behind the end of the payload.
THEOREM BinaryTypeCorrect == BinarySpec => []BinaryTypeOK
<1>1. BinaryInv => BinaryTypeOK
  BY DEF BinaryInv
<1> QED BY <1>1, BinaryInvInit, BinaryInvNext, PTL DEF BinarySpec

-----------------------------------------------------------------------------
(* MCFrames: the four parts side by side.                                  *)

LEMMA PartsInit == FramesInit => Init /\ PushInit /\ FramingInit /\ BinaryInit
BY DEF FramesInit

\* A step of the whole is a step of one part, and the others stutter.
LEMMA PartsNext ==
    [FramesNext]_framesVars =>
        /\ [Next]_vars /\ [PushNext]_pushVars /\ [FramingNext]_framingVars
        /\ [BinaryNext]_binaryVars
<1> SUFFICES ASSUME [FramesNext]_framesVars
             PROVE  /\ [Next]_vars /\ [PushNext]_pushVars /\ [FramingNext]_framingVars
                    /\ [BinaryNext]_binaryVars
  OBVIOUS
<1>1. CASE Next /\ UNCHANGED <<part, pushVars, framingVars, binaryVars>>
  BY <1>1
<1>2. CASE PushNext /\ UNCHANGED <<part, vars, framingVars, binaryVars>>
  BY <1>2
<1>3. CASE FramingNext /\ UNCHANGED <<part, vars, pushVars, binaryVars>>
  BY <1>3
<1>4. CASE BinaryNext /\ UNCHANGED <<part, vars, pushVars, framingVars>>
  BY <1>4
<1>5. CASE UNCHANGED framesVars
  BY <1>5 DEF framesVars
<1> QED BY <1>1, <1>2, <1>3, <1>4, <1>5 DEF FramesNext

\* What a run of the four parts shows of each is so for it alone, and what is proved of
\* each holds of the whole: a behaviour of MCFrames is, seen through the variables of one
\* part, a behaviour of that part's specification, with its fairness.
THEOREM FramesComposed ==
    FramesSpec => FairSpec /\ PushFairSpec /\ FramingSpec /\ FramingFairness /\ BinarySpec
BY PartsInit, PartsNext, PTL
   DEF FramesSpec, FairSpec, Spec, PushFairSpec, PushSpec, FramingSpec, BinarySpec

\* No part's behaviours are left out: whatever one part does while the others rest in one of
\* their initial states is a behaviour of the run.
THEOREM FramesExplored ==
    /\ part = "responses" /\ PushInit /\ schema /\ FramingInit /\ BinaryInit /\ Spec
       /\ [][FALSE]_<<part, pushVars, framingVars, binaryVars>>
       => FramesInit /\ [][FramesNext]_framesVars
    /\ part = "pushes" /\ Init /\ ~sessioned /\ FramingInit /\ BinaryInit /\ PushSpec
       /\ [][FALSE]_<<part, vars, framingVars, binaryVars>>
       => FramesInit /\ [][FramesNext]_framesVars
    /\ part = "framing" /\ Init /\ ~sessioned /\ PushInit /\ schema /\ BinaryInit /\ FramingSpec
       /\ [][FALSE]_<<part, vars, pushVars, binaryVars>>
       => FramesInit /\ [][FramesNext]_framesVars
    /\ part = "binary" /\ Init /\ ~sessioned /\ PushInit /\ schema /\ FramingInit /\ BinarySpec
       /\ [][FALSE]_<<part, vars, pushVars, framingVars>>
       => FramesInit /\ [][FramesNext]_framesVars
<1>1. /\ part = "responses" /\ PushInit /\ schema /\ FramingInit /\ BinaryInit /\ Init => FramesInit
      /\ part = "pushes" /\ Init /\ ~sessioned /\ FramingInit /\ BinaryInit /\ PushInit => FramesInit
      /\ part = "framing" /\ Init /\ ~sessioned /\ PushInit /\ schema /\ BinaryInit /\ FramingInit
            => FramesInit
      /\ part = "binary" /\ Init /\ ~sessioned /\ PushInit /\ schema /\ FramingInit /\ BinaryInit
            => FramesInit
  BY DEF FramesInit
<1>2. part = "responses" /\ [FALSE]_<<part, pushVars, framingVars, binaryVars>> /\ [Next]_vars
         => (part = "responses")' /\ [FramesNext]_framesVars
  BY DEF FramesNext, framesVars
<1>3. part = "pushes" /\ [FALSE]_<<part, vars, framingVars, binaryVars>> /\ [PushNext]_pushVars
         => (part = "pushes")' /\ [FramesNext]_framesVars
  BY DEF FramesNext, framesVars
<1>4. part = "framing" /\ [FALSE]_<<part, vars, pushVars, binaryVars>> /\ [FramingNext]_framingVars
         => (part = "framing")' /\ [FramesNext]_framesVars
  BY DEF FramesNext, framesVars
<1>5. part = "binary" /\ [FALSE]_<<part, vars, pushVars, framingVars>> /\ [BinaryNext]_binaryVars
         => (part = "binary")' /\ [FramesNext]_framesVars
  BY DEF FramesNext, framesVars
<1> QED BY <1>1, <1>2, <1>3, <1>4, <1>5, PTL DEF Spec, PushSpec, FramingSpec, BinarySpec

\* The types of the four parts, explored in one run.
THEOREM FramesTypeCorrect == FramesSpec => []FramesTypeOK
BY FramesComposed, RequestTypeCorrect, PushTypeCorrect, FramingTypeCorrect, BinaryTypeCorrect, PTL
   DEF FairSpec, PushFairSpec, FramesTypeOK
=============================================================================
