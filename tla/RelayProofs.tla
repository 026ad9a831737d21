----------------------------- MODULE RelayProofs -----------------------------
(* Proofs about the wire: the frames of Framing, for every base and every   *)
(* body, and the message pump of Relay, for every script.                   *)
EXTENDS Relay, SequenceTheorems, Iteration, TLAPS

-----------------------------------------------------------------------------
(* Numbers.                                                                 *)

\* The powers of the base are positive, each Base times the one before.
LEMMA PowersExist ==
    ASSUME NEW n \in Nat
    PROVE  \E of \in [0 .. n -> Nat \ {0}] :
               /\ of[0] = 1
               /\ \A i \in 0 .. n - 1 : of[i + 1] = of[i] * Base
               /\ Power(n) = of[n]
<1> DEFINE S == Nat \ {0}
           step == [i \in 1 .. n |-> [p \in S |-> p * Base]]
           Powers(of) == of = [i \in 0 .. n |-> IF i = 0 THEN 1 ELSE of[i - 1] * Base]
           of == CHOOSE f : Powers(f)
<1>1. step \in [1 .. n -> [S -> S]] /\ 1 \in S
  BY FramingAssumption
<1>2. PICK f \in [0 .. n -> S] : Iterates(n, 1, step, f)
  <2> HIDE DEF S, step
  <2> QED BY <1>1, LoopsExist
<1>3. Powers(f)
  <2>1. \A i \in 0 .. n : i # 0 => step[i][f[i - 1]] = f[i - 1] * Base
    OBVIOUS
  <2> HIDE DEF step
  <2> QED BY <1>2, <2>1, Zenon DEF Iterates
<1>4. Powers(of)
  BY <1>3
<1>5. Power(n) = of[n]
  BY DEF Power
<1> HIDE DEF of
<1>6. of[0] = 1 /\ \A i \in 0 .. n - 1 : of[i + 1] = of[i] * Base
  BY <1>4
<1> DEFINE T == {i \in 0 .. n : of[i] \in S}
<1>7. 0 \in T /\ \A i \in 0 .. n - 1 : i \in T => i + 1 \in T
  BY <1>6, FramingAssumption
<1>8. 0 .. n \subseteq T
  <2> HIDE DEF T
  <2> QED BY <1>7, UpTo
<1>9. of \in [0 .. n -> S]
  BY <1>4, <1>8
<1> QED BY <1>5, <1>6, <1>9

\* What the other lemmas use of powers.
LEMMA PowerFacts ==
    ASSUME NEW n \in Nat
    PROVE  /\ Power(n) \in Nat \ {0}
           /\ Power(0) = 1
           /\ Power(n + 1) = Power(n) * Base
<1>1. Power(n) \in Nat \ {0}
  BY PowersExist
<1>2. Power(0) = 1
  BY PowersExist
<1>3. PICK f \in [0 .. n -> Nat \ {0}] :
          /\ f[0] = 1 /\ Power(n) = f[n]
          /\ \A i \in 0 .. n - 1 : f[i + 1] = f[i] * Base
  BY PowersExist
<1>4. PICK g \in [0 .. n + 1 -> Nat \ {0}] :
          /\ g[0] = 1 /\ Power(n + 1) = g[n + 1]
          /\ \A i \in 0 .. n : g[i + 1] = g[i] * Base
  <2> DEFINE m == n + 1
  <2>1. m \in Nat /\ m - 1 = n
    OBVIOUS
  <2> HIDE DEF m
  <2>2. PICK g \in [0 .. m -> Nat \ {0}] :
            /\ g[0] = 1 /\ Power(m) = g[m]
            /\ \A i \in 0 .. m - 1 : g[i + 1] = g[i] * Base
    BY <2>1, PowersExist
  <2> QED BY <2>1, <2>2 DEF m
<1> DEFINE T == {i \in 0 .. n : g[i] = f[i]}
<1>5. 0 \in T /\ \A i \in 0 .. n - 1 : i \in T => i + 1 \in T
  BY <1>3, <1>4
<1>6. 0 .. n \subseteq T
  <2> HIDE DEF T
  <2> QED BY <1>5, UpTo
<1> QED BY <1>1, <1>2, <1>3, <1>4, <1>6

\* A number of so many digits is below the power of so many.
LEMMA UnsignedFits ==
    ASSUME NEW digits \in Seq(Byte)
    PROVE  Unsigned(digits) \in Nat /\ Unsigned(digits) < Power(Len(digits))
<1> DEFINE n == Len(digits)
           step == [i \in 1 .. n |-> [p \in Nat |-> p * Base + digits[i]]]
           Sums(f) == f = [i \in 0 .. n |-> IF i = 0 THEN 0 ELSE f[i - 1] * Base + digits[i]]
           upTo == CHOOSE f : Sums(f)
<1>0. Base \in Nat /\ Byte \subseteq Nat /\ (\A b \in Byte : b <= Base - 1) /\ n \in Nat
  BY FramingAssumption DEF Byte
<1>1. step \in [1 .. n -> [Nat -> Nat]]
  <2>1. \A i \in 1 .. n : digits[i] \in Nat
    <3>1. \A i \in 1 .. n : digits[i] \in Byte
      OBVIOUS
    <3> QED BY <1>0, <3>1
  <2>2. \A i \in 1 .. n, p \in Nat : p * Base + digits[i] \in Nat
    BY <1>0, <2>1
  <2> QED BY <2>2
<1>2. PICK f \in [0 .. n -> Nat] : Iterates(n, 0, step, f)
  <2> HIDE DEF n, step
  <2> QED BY <1>0, <1>1, LoopsExist
<1>3. Sums(f)
  <2>1. \A i \in 0 .. n : i # 0 => step[i][f[i - 1]] = f[i - 1] * Base + digits[i]
    <3> HIDE DEF n
    <3> QED BY <1>0
  <2> HIDE DEF step, n
  <2> QED BY <1>2, <2>1, Zenon DEF Iterates
<1>4. Sums(upTo)
  BY <1>3
<1>5. Unsigned(digits) = upTo[n]
  BY DEF Unsigned
<1> HIDE DEF upTo
<1>6. upTo[0] = 0 /\ \A i \in 0 .. n - 1 : upTo[i + 1] = upTo[i] * Base + digits[i + 1]
  BY <1>0, <1>4
<1> DEFINE T == {i \in 0 .. n : upTo[i] \in Nat /\ upTo[i] < Power(i)}
<1>7. 0 \in T
  <2>1. Power(0) = 1
    BY PowerFacts
  <2> QED BY <1>0, <1>6, <2>1
<1>8. ASSUME NEW i \in 0 .. n - 1, i \in T
      PROVE  i + 1 \in T
  <2>0. i \in Nat /\ i + 1 \in 1 .. n
    BY <1>0
  <2>1. /\ upTo[i] \in Nat /\ Power(i) \in Nat /\ upTo[i] + 1 <= Power(i)
        /\ Power(i + 1) = Power(i) * Base
    <3>1. Power(i) \in Nat /\ Power(i + 1) = Power(i) * Base
      BY <2>0, PowerFacts
    <3> QED BY <1>8, <3>1
  <2>2. /\ digits[i + 1] \in Nat /\ digits[i + 1] <= Base - 1
    <3>1. digits[i + 1] \in Byte
      BY <2>0
    <3> QED BY <1>0, <3>1
  <2>3. (upTo[i] + 1) * Base <= Power(i) * Base
    <3>1. \A a, b, c \in Nat : a <= b => a * c <= b * c
      OBVIOUS
    <3>2. upTo[i] + 1 \in Nat
      BY <2>1
    <3> QED BY <1>0, <2>1, <3>1, <3>2
  <2>4. upTo[i] * Base + Base <= Power(i + 1) /\ upTo[i] * Base \in Nat
    BY <1>0, <2>1, <2>3
  <2> HIDE DEF n
  <2>5. upTo[i + 1] \in Nat /\ upTo[i + 1] < Power(i + 1)
    <3>1. upTo[i + 1] = upTo[i] * Base + digits[i + 1]
      BY <1>6
    <3> DEFINE a == upTo[i] * Base
    <3>2. a \in Nat /\ a + Base <= Power(i + 1) /\ upTo[i + 1] = a + digits[i + 1]
      BY <2>4, <3>1
    <3>3. Power(i + 1) \in Nat
      BY <2>0, PowerFacts
    <3> HIDE DEF a
    <3> QED BY <1>0, <2>2, <3>2, <3>3
  <2> QED BY <1>0, <2>5
<1>9. 0 .. n \subseteq T
  <2> HIDE DEF T, n
  <2> QED BY <1>0, <1>7, <1>8, UpTo
<1> QED BY <1>0, <1>5, <1>9

\* Two's complement keeps a number below the power of its digits.
LEMMA SignedFits ==
    ASSUME NEW digits \in Seq(Byte)
    PROVE  Signed(digits) \in Int /\ Signed(digits) < Power(Len(digits))
<1>1. /\ Unsigned(digits) \in Nat /\ Unsigned(digits) < Power(Len(digits))
      /\ Power(Len(digits)) \in Nat \ {0}
  BY UnsignedFits, PowerFacts
<1> QED BY <1>1 DEF Signed

-----------------------------------------------------------------------------
(* Frames.                                                                  *)

\* Bytes one after the other.
LEMMA Together ==
    /\ << >> \in Bytes
    /\ \A a \in Bytes : << >> \o a = a /\ a \o << >> = a
    /\ \A a, b \in Bytes : a \o b \in Bytes
    /\ \A a, b, c \in Bytes : (a \o b) \o c = a \o (b \o c)
  BY ConcatEmptySeq, ConcatAssociative DEF Bytes

\* Bytes are what is dropped and what is left.
LEMMA CutInTwo ==
    ASSUME NEW bytes \in Bytes, NEW n \in Nat, n <= Len(bytes)
    PROVE  /\ SubSeq(bytes, 1, n) \in Bytes /\ Drop(bytes, n) \in Bytes
           /\ bytes = SubSeq(bytes, 1, n) \o Drop(bytes, n)
<1>1. 1 \in 1 .. Len(bytes) + 1 /\ n \in 1 - 1 .. Len(bytes) /\ Len(bytes) \in n .. Len(bytes)
  BY DEF Bytes
<1>2. SubSeq(bytes, 1, n) \o SubSeq(bytes, n + 1, Len(bytes)) = SubSeq(bytes, 1, Len(bytes))
  BY <1>1, ConcatAdjacentSubSeq DEF Bytes
<1>3. SubSeq(bytes, 1, n) \in Bytes /\ SubSeq(bytes, n + 1, Len(bytes)) \in Bytes
  BY DEF Bytes
<1> QED BY <1>2, <1>3, SubSeqFull DEF Bytes, Drop

\* The length word of a buffer that has its header, and whether it can be.
LengthOf(bytes) == Signed(SubSeq(bytes, 2, 1 + Word))

HasHeader(bytes) == ~ (Len(bytes) < 1 + Word)

\* A length word that is all there is a number.
LEMMA LengthsAreNumbers ==
    ASSUME NEW bytes \in Bytes, HasHeader(bytes)
    PROVE  LengthOf(bytes) \in Int
<1>1. SubSeq(bytes, 2, 1 + Word) \in Seq(Byte)
  BY FramingAssumption DEF HasHeader, Bytes
<1> QED BY <1>1, SignedFits DEF LengthOf

Taken(f, rest) == [is |-> "frame", frame |-> f, rest |-> rest]

\* The three outcomes are told apart by their names.
LEMMA OutcomesDiffer ==
    /\ NotYet.is = "not yet" /\ NotYet.frame = << >> /\ NotYet.rest = << >>
    /\ Malformed.is = "malformed" /\ Malformed.frame = << >> /\ Malformed.rest = << >>
    /\ \A f, rest : Taken(f, rest).is = "frame" /\ Taken(f, rest).frame = f /\ Taken(f, rest).rest = rest
  BY DEF NotYet, Malformed, Taken

\* What TryTakeMessage returns, in its four cases.
LEMMA TakingCases ==
    ASSUME NEW bytes \in Bytes
    PROVE  \/ ~ HasHeader(bytes) /\ TryTakeMessage(bytes) = NotYet
           \/ /\ HasHeader(bytes) /\ LengthOf(bytes) < Word
              /\ TryTakeMessage(bytes) = Malformed
           \/ /\ HasHeader(bytes) /\ ~ (LengthOf(bytes) < Word)
              /\ Len(bytes) < LengthOf(bytes) + 1
              /\ TryTakeMessage(bytes) = NotYet
           \/ /\ HasHeader(bytes) /\ ~ (LengthOf(bytes) < Word)
              /\ ~ (Len(bytes) < LengthOf(bytes) + 1)
              /\ TryTakeMessage(bytes)
                     = Taken(SubSeq(bytes, 1, LengthOf(bytes) + 1), Drop(bytes, LengthOf(bytes) + 1))
  BY Zenon DEF TryTakeMessage, HasHeader, LengthOf, Taken

\* There is no other answer than a frame, malformed or not yet, and a frame
\* with what is behind it makes the buffer.
LEMMA TakingSplits ==
    ASSUME NEW bytes \in Bytes
    PROVE  \/ TryTakeMessage(bytes) = NotYet
           \/ TryTakeMessage(bytes) = Malformed
           \/ \E f, rest \in Bytes : TryTakeMessage(bytes) = Taken(f, rest) /\ bytes = f \o rest
<1> DEFINE n == LengthOf(bytes)
<1>1. CASE /\ HasHeader(bytes) /\ ~ (n < Word) /\ ~ (Len(bytes) < n + 1)
           /\ TryTakeMessage(bytes) = Taken(SubSeq(bytes, 1, n + 1), Drop(bytes, n + 1))
  <2>1. n \in Int
    BY <1>1, LengthsAreNumbers
  <2> HIDE DEF n
  <2>2. n + 1 \in Nat /\ n + 1 <= Len(bytes)
    BY <1>1, <2>1, FramingAssumption DEF Bytes
  <2>3. /\ SubSeq(bytes, 1, n + 1) \in Bytes /\ Drop(bytes, n + 1) \in Bytes
        /\ bytes = SubSeq(bytes, 1, n + 1) \o Drop(bytes, n + 1)
    BY <2>2, CutInTwo
  <2> QED BY <1>1, <2>3
<1> QED BY <1>1, TakingCases

\* The four cases, read backwards and forwards.
LEMMA TakingMeans ==
    ASSUME NEW bytes \in Bytes
    PROVE  LET n == LengthOf(bytes)
               fits == HasHeader(bytes) /\ ~ (n < Word) /\ ~ (Len(bytes) < n + 1) IN
           /\ HasHeader(bytes) /\ n < Word => TryTakeMessage(bytes) = Malformed
           /\ TryTakeMessage(bytes) = Malformed => HasHeader(bytes) /\ n < Word
           /\ fits => TryTakeMessage(bytes)
                        = Taken(SubSeq(bytes, 1, n + 1), Drop(bytes, n + 1))
           /\ \A f, rest : TryTakeMessage(bytes) = Taken(f, rest)
                => fits /\ f = SubSeq(bytes, 1, n + 1) /\ rest = Drop(bytes, n + 1)
<1> DEFINE n == LengthOf(bytes)
           a == SubSeq(bytes, 1, n + 1)
           b == Drop(bytes, n + 1)
           out == TryTakeMessage(bytes)
           header == HasHeader(bytes)
           short == n < Word
           part == Len(bytes) < n + 1
<1>1. \/ ~ header /\ out = NotYet
      \/ header /\ short /\ out = Malformed
      \/ header /\ ~ short /\ part /\ out = NotYet
      \/ header /\ ~ short /\ ~ part /\ out = Taken(a, b)
  BY TakingCases, Zenon
<1> HIDE DEF a, b, out, header, short, part
<1>2. NotYet # Malformed
  BY OutcomesDiffer
<1>3. \A f, rest : Taken(f, rest) # NotYet /\ Taken(f, rest) # Malformed
  <2> TAKE f, rest
  <2>1. Taken(f, rest).is = "frame"
    BY OutcomesDiffer, Zenon
  <2>2. NotYet.is = "not yet" /\ Malformed.is = "malformed"
    BY OutcomesDiffer
  <2> QED BY <2>1, <2>2
<1>4. \A f, rest : out = Taken(f, rest) => header /\ ~ short /\ ~ part /\ f = a /\ rest = b
  <2> TAKE f, rest
  <2> HAVE out = Taken(f, rest)
  <2>1. header /\ ~ short /\ ~ part /\ Taken(f, rest) = Taken(a, b)
    BY <1>1, <1>3, Zenon
  <2>2. Taken(f, rest).frame = f /\ Taken(f, rest).rest = rest
    BY OutcomesDiffer, Zenon
  <2>3. Taken(a, b).frame = a /\ Taken(a, b).rest = b
    BY OutcomesDiffer, Zenon
  <2> QED BY <2>1, <2>2, <2>3
<1>5. header /\ short => out = Malformed
  BY <1>1, Zenon
<1>6. out = Malformed => header /\ short
  BY <1>1, <1>2, <1>3, Zenon
<1>7. header /\ ~ short /\ ~ part => out = Taken(a, b)
  BY <1>1, Zenon
<1> QED BY <1>4, <1>5, <1>6, <1>7, Zenon DEF a, b, out, header, short, part

\* More bytes do not change what is cut off the front, nor mend it.
LEMMA TakingIsFinal ==
    ASSUME NEW x \in Bytes, NEW y \in Bytes
    PROVE  /\ \A f, rest : TryTakeMessage(x) = Taken(f, rest)
                              => TryTakeMessage(x \o y) = Taken(f, rest \o y)
           /\ TryTakeMessage(x) = Malformed => TryTakeMessage(x \o y) = Malformed
<1> DEFINE z == x \o y
           n == LengthOf(x)
<1>1. /\ Word \in Nat \ {0} /\ Len(x) \in Nat /\ Len(y) \in Nat
      /\ z \in Bytes /\ Len(z) = Len(x) + Len(y)
  BY FramingAssumption DEF Bytes
<1>2. ASSUME HasHeader(x)
      PROVE  HasHeader(z) /\ LengthOf(z) = n /\ n \in Int
  <2>1. Word + 1 <= Len(x) /\ Word + 1 <= Len(z)
    BY <1>1, <1>2 DEF HasHeader
  <2>2. SubSeq(z, 2, 1 + Word) = SubSeq(x, 2, 1 + Word)
    BY <1>1, <2>1 DEF Bytes
  <2>3. HasHeader(z)
    <3> HIDE DEF z
    <3> QED BY <1>1, <2>1 DEF HasHeader
  <2>4. n \in Int
    BY <1>2, LengthsAreNumbers
  <2> HIDE DEF z
  <2> QED BY <2>2, <2>3, <2>4 DEF LengthOf
<1> HIDE DEF z
<1>3. ASSUME TryTakeMessage(x) = Malformed
      PROVE  TryTakeMessage(z) = Malformed
  <2>1. HasHeader(x) /\ n < Word
    BY <1>3, TakingMeans
  <2>2. HasHeader(z) /\ LengthOf(z) = n /\ n \in Int
    BY <1>2, <2>1
  <2>3. LengthOf(z) < Word
    BY <2>1, <2>2, Zenon
  <2> QED BY <1>1, <2>2, <2>3, TakingMeans
<1>4. ASSUME NEW f, NEW rest, TryTakeMessage(x) = Taken(f, rest)
      PROVE  TryTakeMessage(z) = Taken(f, rest \o y)
  <2>1. HasHeader(x) /\ ~ (n < Word) /\ ~ (Len(x) < n + 1)
    BY <1>4, TakingMeans
  <2>2. f = SubSeq(x, 1, n + 1) /\ rest = Drop(x, n + 1)
    BY <1>4, TakingMeans
  <2>3. HasHeader(z) /\ LengthOf(z) = n /\ n \in Int
    BY <1>2, <2>1
  <2> HIDE DEF n
  <2> DEFINE m == n + 1
  <2>4. m \in Nat /\ m <= Len(x) /\ m <= Len(z) /\ ~ (Len(z) < n + 1)
    BY <1>1, <2>1, <2>3
  <2>5. TryTakeMessage(z) = Taken(SubSeq(z, 1, m), Drop(z, m))
    <3>1. HasHeader(z) /\ ~ (LengthOf(z) < Word) /\ ~ (Len(z) < LengthOf(z) + 1)
      BY <2>1, <2>3, <2>4
    <3> QED BY <1>1, <2>3, <3>1, TakingMeans
  <2> HIDE DEF m
  <2>6. /\ SubSeq(x, 1, m) \in Bytes /\ Drop(x, m) \in Bytes
        /\ x = SubSeq(x, 1, m) \o Drop(x, m)
    BY <2>4, CutInTwo
  <2>7. SubSeq(z, 1, m) \in Bytes /\ Drop(z, m) \in Bytes /\ z = SubSeq(z, 1, m) \o Drop(z, m)
    BY <1>1, <2>4, CutInTwo
  <2>8. SubSeq(z, 1, m) = SubSeq(x, 1, m)
    BY <1>1, <2>4 DEF z, Bytes
  <2>9. z = SubSeq(x, 1, m) \o (Drop(x, m) \o y) /\ Drop(x, m) \o y \in Bytes
    <3> DEFINE a == SubSeq(x, 1, m)
               b == Drop(x, m)
    <3>1. z = (a \o b) \o y /\ a \in Bytes /\ b \in Bytes
      BY <2>6 DEF z
    <3> HIDE DEF a, b
    <3>2. (a \o b) \o y = a \o (b \o y) /\ b \o y \in Bytes
      BY <3>1, ConcatAssociative DEF Bytes
    <3> QED BY <3>1, <3>2 DEF a, b
  <2>10. Drop(z, m) = Drop(x, m) \o y
    BY <2>6, <2>7, <2>8, <2>9, ConcatSimplifications DEF Bytes
  <2> QED BY <2>2, <2>5, <2>8, <2>10 DEF m
<1> QED BY <1>3, <1>4 DEF z

-----------------------------------------------------------------------------
(* Sequences of frames as bytes.                                            *)

\* No frames are no bytes.
LEMMA NothingIsNoBytes == FlattenSeq(<< >>) = << >>
  BY DEF FlattenSeq

\* The definition of FlattenSeq, as a loop.
LEMMA FlattensExist ==
    ASSUME NEW ss \in Seq(Bytes), ss # << >>
    PROVE  \E flat \in [1 .. Len(ss) -> Bytes] :
               /\ flat[1] = ss[1]
               /\ \A i \in 1 .. Len(ss) - 1 : flat[i + 1] = flat[i] \o ss[i + 1]
               /\ FlattenSeq(ss) = flat[Len(ss)]
<1> DEFINE n == Len(ss)
           step == [i \in 1 .. n |-> [p \in Bytes |-> p \o ss[i]]]
           Flattens(f) == f = [i \in 1 .. n |-> IF i = 1 THEN ss[i] ELSE f[i - 1] \o ss[i]]
           flat == CHOOSE f : Flattens(f)
<1>0. n \in Nat \ {0} /\ << >> \in Bytes /\ \A i \in 1 .. n : ss[i] \in Bytes
  BY DEF Bytes
<1>1. step \in [1 .. n -> [Bytes -> Bytes]]
  <2>1. \A i \in 1 .. n, p \in Bytes : p \o ss[i] \in Bytes
    <3> HIDE DEF n
    <3> QED BY <1>0 DEF Bytes
  <2> QED BY <2>1
<1>2. PICK f \in [0 .. n -> Bytes] : Iterates(n, << >>, step, f)
  <2> HIDE DEF n, step
  <2> QED BY <1>0, <1>1, LoopsExist
<1> DEFINE g == [i \in 1 .. n |-> f[i]]
<1>3. \A i \in 1 .. n : f[i] = f[i - 1] \o ss[i]
  <2>1. \A i \in 1 .. n : step[i][f[i - 1]] = f[i - 1] \o ss[i]
    <3> HIDE DEF n
    <3>1. \A i \in 1 .. n : i - 1 \in 0 .. n
      BY <1>0
    <3>2. \A i \in 1 .. n : f[i - 1] \in Bytes
      BY <1>2, <3>1
    <3> QED BY <3>2, Zenon
  <2>2. \A i \in 1 .. n : f[i] = step[i][f[i - 1]]
    <3> HIDE DEF n, step
    <3>1. \A i \in 1 .. n : i \in 0 .. n /\ i # 0
      BY <1>0
    <3> QED BY <1>2, <3>1, Zenon DEF Iterates
  <2> QED BY <2>1, <2>2
<1>4. f[0] = << >>
  <2> HIDE DEF step, n
  <2> QED BY <1>0, <1>2 DEF Iterates
<1>5. f[1] = ss[1]
  <2>1. f[1] = << >> \o ss[1]
    <3> HIDE DEF n
    <3>1. 1 \in 1 .. n /\ 1 - 1 = 0
      BY <1>0
    <3>2. f[1] = f[1 - 1] \o ss[1]
      BY <1>3, <3>1, Zenon
    <3> QED BY <1>4, <3>1, <3>2
  <2>2. << >> \o ss[1] = ss[1]
    <3> HIDE DEF n
    <3> QED BY <1>0, ConcatEmptySeq DEF Bytes
  <2> QED BY <2>1, <2>2
<1>6. Flattens(g)
  <2> HIDE DEF n, step
  <2>1. \A i \in 1 .. n : i # 1 => i - 1 \in 1 .. n
    BY <1>0
  <2>2. \A i \in 1 .. n : g[i] = IF i = 1 THEN ss[i] ELSE g[i - 1] \o ss[i]
    BY <1>3, <1>5, <2>1
  <2> QED BY <2>2
<1>7. Flattens(flat)
  <2> HIDE DEF n, g
  <2> QED BY <1>6
<1>8. FlattenSeq(ss) = flat[n]
  <2>1. Len(ss) # 0
    BY <1>0
  <2> QED BY <2>1, Zenon DEF FlattenSeq
<1> HIDE DEF flat
<1>9. flat[1] = ss[1] /\ \A i \in 1 .. n - 1 : flat[i + 1] = flat[i] \o ss[i + 1]
  <2> HIDE DEF n
  <2>1. 1 \in 1 .. n
    BY <1>0
  <2>2. flat[1] = ss[1]
    BY <1>7, <2>1, Zenon
  <2>3. ASSUME NEW i \in 1 .. n - 1 PROVE flat[i + 1] = flat[i] \o ss[i + 1]
    <3> DEFINE j == i + 1
    <3>1. j \in 1 .. n /\ j # 1 /\ j - 1 = i
      BY <1>0
    <3> HIDE DEF j
    <3>2. flat[j] = flat[j - 1] \o ss[j]
      BY <1>7, <3>1, Zenon
    <3> QED BY <3>1, <3>2 DEF j
  <2> QED BY <2>2, <2>3
<1> DEFINE last == n - 1
           T == {i \in 0 .. last : flat[i + 1] \in Bytes}
<1>10. 0 \in T
  <2> HIDE DEF n
  <2> QED BY <1>0, <1>9
<1>11. ASSUME NEW i \in 0 .. last - 1, i \in T PROVE i + 1 \in T
  <2> DEFINE j == i + 1
  <2>1. flat[j] \in Bytes
    BY <1>11
  <2> HIDE DEF n
  <2>2. j \in 1 .. n - 1 /\ j + 1 \in 1 .. n /\ j \in 0 .. last
    BY <1>0
  <2> HIDE DEF j, last
  <2>3. flat[j + 1] = flat[j] \o ss[j + 1] /\ ss[j + 1] \in Bytes
    BY <1>0, <1>9, <2>2
  <2>4. flat[j + 1] \in Bytes
    BY <2>1, <2>3 DEF Bytes
  <2> QED BY <2>2, <2>4 DEF j
<1>12. 0 .. last \subseteq T
  <2>1. last \in Nat
    <3> HIDE DEF n
    <3> QED BY <1>0
  <2> HIDE DEF T, last
  <2> QED BY <1>10, <1>11, <2>1, UpTo
<1>13. flat \in [1 .. n -> Bytes]
  <2> HIDE DEF n
  <2>1. \A i \in 1 .. n : flat[i] \in Bytes
    <3> TAKE i \in 1 .. n
    <3>1. i - 1 \in 0 .. last /\ i - 1 + 1 = i
      BY <1>0
    <3> HIDE DEF last
    <3> QED BY <1>12, <3>1
  <2> QED BY <1>7, <2>1
<1> QED BY <1>8, <1>9, <1>13

\* One frame more is its bytes more.
LEMMA FlattenAppends ==
    ASSUME NEW ss \in Seq(Bytes), NEW f \in Bytes
    PROVE  /\ FlattenSeq(ss) \in Bytes
           /\ FlattenSeq(Append(ss, f)) = FlattenSeq(ss) \o f
<1> DEFINE n == Len(ss)
           more == Append(ss, f)
<1>0. /\ n \in Nat /\ << >> \in Bytes /\ more \in Seq(Bytes) /\ more # << >> /\ Len(more) = n + 1
      /\ \A i \in 1 .. n : more[i] = ss[i]
      /\ more[n + 1] = f
  <2>1. n \in Nat /\ << >> \in Bytes
    BY DEF Bytes
  <2>2. /\ more \in Seq(Bytes) /\ more # << >> /\ Len(more) = Len(ss) + 1
        /\ (\A i \in 1 .. Len(ss) : more[i] = ss[i]) /\ more[Len(ss) + 1] = f
    BY AppendProperties
  <2> QED BY <2>1, <2>2, Zenon
<1> HIDE DEF n, more
<1>1. PICK g \in [1 .. n + 1 -> Bytes] :
          /\ g[1] = more[1]
          /\ \A i \in 1 .. n : g[i + 1] = g[i] \o more[i + 1]
          /\ FlattenSeq(more) = g[n + 1]
  <2> DEFINE m == n + 1
  <2>1. m - 1 = n
    BY <1>0
  <2> HIDE DEF m
  <2>2. Len(more) = m
    BY <1>0 DEF m
  <2>3. PICK g \in [1 .. m -> Bytes] :
          /\ g[1] = more[1]
          /\ \A i \in 1 .. m - 1 : g[i + 1] = g[i] \o more[i + 1]
          /\ FlattenSeq(more) = g[m]
    BY <1>0, <2>2, FlattensExist
  <2> QED BY <2>1, <2>3 DEF m
<1>2. CASE n = 0
  <2>1. ss = << >> /\ FlattenSeq(ss) = << >>
    BY <1>2, NothingIsNoBytes DEF n
  <2>2. FlattenSeq(more) = f
    BY <1>0, <1>1, <1>2
  <2>3. << >> \o f = f
    BY ConcatEmptySeq DEF Bytes
  <2> QED BY <1>0, <2>1, <2>2, <2>3 DEF more
<1>3. CASE n # 0
  <2>1. PICK h \in [1 .. n -> Bytes] :
          /\ h[1] = ss[1]
          /\ \A i \in 1 .. n - 1 : h[i + 1] = h[i] \o ss[i + 1]
          /\ FlattenSeq(ss) = h[n]
    <3>1. ss # << >>
      BY <1>3 DEF n
    <3> QED BY <3>1, FlattensExist DEF n
  <2> DEFINE last == n - 1
             T == {i \in 0 .. last : g[i + 1] = h[i + 1]}
  <2>2. 0 \in T
    BY <1>0, <1>1, <1>3, <2>1
  <2>3. ASSUME NEW i \in 0 .. last - 1, i \in T PROVE i + 1 \in T
    <3> DEFINE j == i + 1
    <3>1. j \in 1 .. n - 1 /\ j \in 1 .. n /\ j + 1 \in 1 .. n /\ j \in 0 .. n - 1
      BY <1>0
    <3>2. g[j] = h[j]
      BY <2>3
    <3> HIDE DEF j
    <3>3. g[j + 1] = g[j] \o more[j + 1] /\ h[j + 1] = h[j] \o ss[j + 1] /\ more[j + 1] = ss[j + 1]
      BY <1>0, <1>1, <2>1, <3>1
    <3>4. j \in T
      BY <3>1, <3>2, <3>3
    <3> QED BY <3>4 DEF j
  <2>4. 0 .. last \subseteq T
    <3>1. last \in Nat
      BY <1>0, <1>3
    <3> HIDE DEF T, last
    <3> QED BY <2>2, <2>3, <3>1, UpTo
  <2>5. g[n] = h[n]
    <3>1. last \in 0 .. last /\ last + 1 = n
      BY <1>0, <1>3
    <3> HIDE DEF last
    <3> QED BY <2>4, <3>1
  <2>6. g[n + 1] = g[n] \o more[n + 1] /\ n \in 1 .. n
    <3>1. n \in 1 .. n
      BY <1>0, <1>3
    <3> QED BY <1>1, <3>1
  <2>7. FlattenSeq(ss) = h[n] /\ h[n] \in Bytes /\ FlattenSeq(more) = h[n] \o f
    BY <1>0, <1>1, <2>1, <2>5, <2>6
  <2> QED BY <2>7 DEF more
<1> QED BY <1>0, <1>2, <1>3

\* The bytes of frames and more frames.
LEMMA FlattenConcats ==
    ASSUME NEW ss \in Seq(Bytes), NEW tt \in Seq(Bytes)
    PROVE  FlattenSeq(ss \o tt) = FlattenSeq(ss) \o FlattenSeq(tt)
<1> DEFINE n == Len(tt)
           front(i) == SubSeq(tt, 1, i)
           T == {i \in 0 .. n : FlattenSeq(ss \o front(i)) = FlattenSeq(ss) \o FlattenSeq(front(i))}
<1>0. n \in Nat /\ FlattenSeq(ss) \in Bytes
  BY FlattenAppends DEF Bytes
<1>1. 0 \in T
  <2>1. front(0) = << >>
    OBVIOUS
  <2>2. ss \o << >> = ss
    BY ConcatEmptySeq
  <2>3. FlattenSeq(ss) \o << >> = FlattenSeq(ss)
    BY <1>0, ConcatEmptySeq DEF Bytes
  <2> HIDE DEF front
  <2>4. FlattenSeq(ss \o front(0)) = FlattenSeq(ss) \o FlattenSeq(front(0))
    BY <2>1, <2>2, <2>3, NothingIsNoBytes
  <2> QED BY <1>0, <2>4
<1>2. ASSUME NEW i \in 0 .. n - 1, i \in T PROVE i + 1 \in T
  <2> DEFINE a == front(i)
             f == tt[i + 1]
             m == i + 1
  <2>1. a \in Seq(Bytes) /\ f \in Bytes /\ m \in 0 .. n
    BY <1>0
  <2>2. front(m) = Append(a, f)
    <3>1. m \in 1 .. Len(tt) /\ 1 \in 1 .. Len(tt) /\ m - 1 = i
      BY <1>0
    <3> HIDE DEF m
    <3>2. SubSeq(tt, 1, m) = SubSeq(tt, 1, m - 1) \o << tt[m] >>
      <4>1. m \in 1 .. Len(tt)
        BY <3>1
      <4> QED BY <3>1, <4>1, SubSeqRecursiveSecond
    <3>3. a \o << f >> = Append(a, f)
      BY <2>1, AppendIsConcat
    <3> QED BY <3>1, <3>2, <3>3 DEF m
  <2>3. FlattenSeq(ss \o a) = FlattenSeq(ss) \o FlattenSeq(a)
    BY <1>2
  <2> HIDE DEF a, f, m, front
  <2>4. ss \o Append(a, f) = Append(ss \o a, f) /\ ss \o a \in Seq(Bytes)
    <3>1. ss \o (a \o << f >>) = (ss \o a) \o << f >> /\ << f >> \in Seq(Bytes) /\ ss \o a \in Seq(Bytes)
      BY <2>1, ConcatAssociative
    <3> QED BY <2>1, <3>1, AppendIsConcat
  <2>5. /\ FlattenSeq(Append(ss \o a, f)) = FlattenSeq(ss \o a) \o f
        /\ FlattenSeq(Append(a, f)) = FlattenSeq(a) \o f
        /\ FlattenSeq(a) \in Bytes
    BY <2>1, <2>4, FlattenAppends
  <2>6. (FlattenSeq(ss) \o FlattenSeq(a)) \o f = FlattenSeq(ss) \o (FlattenSeq(a) \o f)
    BY <1>0, <2>1, <2>5, Together, Zenon
  <2>7. FlattenSeq(ss \o front(m)) = FlattenSeq(ss) \o FlattenSeq(front(m))
    BY <2>2, <2>3, <2>4, <2>5, <2>6
  <2> QED BY <2>1, <2>7 DEF m
<1>3. 0 .. n \subseteq T
  <2> HIDE DEF T, n
  <2> QED BY <1>0, <1>1, <1>2, UpTo
<1>4. n \in 0 .. n /\ front(n) = tt
  BY <1>0, SubSeqFull
<1> HIDE DEF front, n
<1> QED BY <1>3, <1>4

\* The bytes of one frame are that frame.
LEMMA FlattenOne ==
    ASSUME NEW f \in Bytes
    PROVE  FlattenSeq(<< f >>) = f
<1>1. << >> \in Seq(Bytes) /\ << f >> = Append(<< >>, f)
  OBVIOUS
<1>2. FlattenSeq(<< f >>) = << >> \o f
  BY <1>1, FlattenAppends, NothingIsNoBytes
<1> QED BY <1>2, ConcatEmptySeq DEF Bytes

-----------------------------------------------------------------------------
(* What is cut off the front of a stream of frames is the next of them.     *)

Frameable(F) == F \subseteq Bytes /\ \A f \in F : TryTakeMessage(f) = Taken(f, << >>)

\* A frame cut off the front of frames, then perhaps garbage, is the first of them.
LEMMA FrontIsNext ==
    ASSUME NEW F, Frameable(F)
    PROVE  \A rest \in Seq(F), tail, x, y \in Bytes : \A f, left :
               /\ \A g, r : TryTakeMessage(tail) # Taken(g, r)
               /\ x \o y = FlattenSeq(rest) \o tail
               /\ TryTakeMessage(x) = Taken(f, left)
               => /\ rest # << >> /\ f = Head(rest)
                  /\ left \in Bytes /\ left \o y = FlattenSeq(Tail(rest)) \o tail
<1> TAKE rest \in Seq(F), tail \in Bytes, x \in Bytes, y \in Bytes
<1> TAKE f, left
<1> HAVE /\ \A g, r : TryTakeMessage(tail) # Taken(g, r)
         /\ x \o y = FlattenSeq(rest) \o tail
         /\ TryTakeMessage(x) = Taken(f, left)
<1>1. TryTakeMessage(x \o y) = Taken(f, left \o y) /\ left \in Bytes
  <2>1. TryTakeMessage(x \o y) = Taken(f, left \o y)
    <3>1. \A ff, rr : TryTakeMessage(x) = Taken(ff, rr)
                        => TryTakeMessage(x \o y) = Taken(ff, rr \o y)
      BY TakingIsFinal
    <3>2. TryTakeMessage(x) = Taken(f, left)
      OBVIOUS
    <3> QED BY <3>1, <3>2, Zenon
  <2>2. left = Drop(x, LengthOf(x) + 1)
    BY TakingMeans
  <2>3. /\ HasHeader(x) /\ ~ (LengthOf(x) < Word)
        /\ ~ (Len(x) < LengthOf(x) + 1)
    BY TakingMeans
  <2>4. LengthOf(x) \in Int
    BY <2>3, LengthsAreNumbers
  <2> DEFINE m == LengthOf(x) + 1
  <2>5. m \in Nat /\ m <= Len(x)
    BY <2>3, <2>4, FramingAssumption DEF Bytes
  <2> HIDE DEF m
  <2>6. Drop(x, m) \in Bytes
    BY <2>5, CutInTwo
  <2> QED BY <2>1, <2>2, <2>6 DEF m
<1>2. rest # << >>
  <2> SUFFICES ASSUME rest = << >> PROVE FALSE
    OBVIOUS
  <2>1. x \o y = tail
    <3>1. << >> \o tail = tail
      BY ConcatEmptySeq DEF Bytes
    <3> QED BY <3>1, NothingIsNoBytes
  <2> QED BY <1>1, <2>1
<1> DEFINE g == Head(rest)
           more == Tail(rest)
<1>3. g \in F /\ g \in Bytes /\ more \in Seq(F) /\ more \in Seq(Bytes) /\ rest = << g >> \o more
  <2>1. g \in F /\ more \in Seq(F)
    BY <1>2, HeadTailProperties
  <2>2. F \subseteq Bytes
    BY DEF Frameable
  <2>3. more \in Seq(Bytes)
    BY <2>1, <2>2, SeqMonotonic
  <2>4. rest = << g >> \o more
    BY <1>2
  <2> QED BY <2>1, <2>2, <2>3, <2>4
<1>4. FlattenSeq(more) \in Bytes /\ FlattenSeq(rest) = g \o FlattenSeq(more)
  <2>1. FlattenSeq(more) \in Bytes
    BY <1>3, FlattenAppends
  <2> HIDE DEF g, more
  <2>2. << g >> \in Seq(Bytes)
    BY <1>3
  <2> QED BY <1>3, <2>1, <2>2, FlattenConcats, FlattenOne
<1> HIDE DEF g, more
<1> DEFINE z == FlattenSeq(more) \o tail
<1>5. z \in Bytes /\ x \o y = g \o z
  <2>1. FlattenSeq(rest) \o tail = g \o (FlattenSeq(more) \o tail)
    <3>1. (g \o FlattenSeq(more)) \o tail = g \o (FlattenSeq(more) \o tail)
      BY <1>3, <1>4, Together, Zenon
    <3> QED BY <1>4, <3>1
  <2>2. FlattenSeq(more) \o tail \in Bytes
    BY <1>4, Together
  <2> QED BY <2>1, <2>2
<1> HIDE DEF z
<1>6. TryTakeMessage(g \o z) = Taken(g, << >> \o z)
  <2>1. TryTakeMessage(g) = Taken(g, << >>)
    BY <1>3 DEF Frameable
  <2>2. \A ff, rr : TryTakeMessage(g) = Taken(ff, rr)
                      => TryTakeMessage(g \o z) = Taken(ff, rr \o z)
    BY <1>3, <1>5, TakingIsFinal
  <2> QED BY <2>1, <2>2, Zenon
<1>7. << >> \o z = z
  BY <1>5, ConcatEmptySeq DEF Bytes
<1>8. Taken(f, left \o y) = Taken(g, z)
  BY <1>1, <1>5, <1>6, <1>7
<1>9. f = g /\ left \o y = z
  <2>1. /\ Taken(f, left \o y).frame = f /\ Taken(f, left \o y).rest = left \o y
        /\ Taken(g, z).frame = g /\ Taken(g, z).rest = z
    BY OutcomesDiffer, Zenon
  <2> QED BY <1>8, <2>1
<1> QED BY <1>1, <1>2, <1>9 DEF g, more, z

-----------------------------------------------------------------------------
(* What a side has yet to be given, and what it has yet to get.             *)

Messages == Frames \cup ToSet(Refusal)

\* The bytes on their way to a handler are the frames sent and not seen, then
\* perhaps garbage; the last of them are lost when a peer hangs up.
Waits(said, seen, bytes, unwritten, ended) ==
    \E rest \in Seq(Frames), tail \in Bytes, lost \in Bytes :
        /\ said = seen \o rest
        /\ bytes \o lost = FlattenSeq(rest) \o tail
        /\ tail = << >> \/ (ended /\ tail \in Garbage)
        /\ lost = << >> \/ (ended /\ unwritten = << >>)

\* The bytes on their way to a peer are the frames emitted and not arrived.
Due(said, seen, bytes) ==
    \E rest \in Seq(Messages) : said = seen \o rest /\ bytes = FlattenSeq(rest)

\* The frames of the scripts and of a refusal are frames, and garbage is not.
LEMMA FramesAreFrames ==
    /\ Frameable(Frames) /\ Frameable(Messages)
    /\ Frames \subseteq Messages
    /\ \A tail \in Garbage \cup {<< >>} : tail \in Bytes /\ \A f, left : TryTakeMessage(tail) # Taken(f, left)
<1>1. Frames \subseteq Bytes
  <2>1. \A s \in Sides : ToSet(Scripts[s]) \subseteq Bytes
    <3> TAKE s \in Sides
    <3>1. Scripts[s] \in Seq(Bytes)
      BY RelayAssumption DEF Bytes
    <3> QED BY <3>1 DEF ToSet
  <2> QED BY <2>1 DEF Frames
<1>2. ToSet(Refusal) \subseteq Bytes
  <2>1. Refusal \in Seq(Bytes)
    BY RelayAssumption DEF Bytes
  <2> QED BY <2>1 DEF ToSet
<1>3. \A f \in Messages : TryTakeMessage(f) = Taken(f, << >>)
  BY RelayAssumption, Zenon DEF Messages, Taken
<1>4. ASSUME NEW tail \in Garbage
      PROVE  tail \in Bytes /\ \A f, left : TryTakeMessage(tail) # Taken(f, left)
  <2>1. tail \in Bytes /\ TryTakeMessage(tail) = Malformed
    BY RelayAssumption, Zenon DEF Bytes
  <2>2. \A f, left : Malformed # Taken(f, left)
    <3> TAKE f, left
    <3>1. Taken(f, left).is = "frame" /\ Malformed.is = "malformed"
      BY OutcomesDiffer, Zenon
    <3> QED BY <3>1
  <2> QED BY <2>1, <2>2
<1>5. \A f, left : TryTakeMessage(<< >>) # Taken(f, left)
  <2>1. << >> \in Bytes /\ ~ HasHeader(<< >>)
    BY FramingAssumption DEF Bytes, HasHeader
  <2>2. \A f, left : TryTakeMessage(<< >>) = Taken(f, left) => HasHeader(<< >>)
    BY <2>1, TakingMeans
  <2> QED BY <2>1, <2>2
<1>6. << >> \in Bytes
  BY Together
<1> QED BY <1>1, <1>2, <1>3, <1>4, <1>5, <1>6 DEF Frameable, Messages

\* Sequences of messages one after the other.
LEMMA InARow ==
    ASSUME NEW S
    PROVE  /\ << >> \in Seq(S)
           /\ \A a \in Seq(S) : << >> \o a = a /\ a \o << >> = a
           /\ \A a, b \in Seq(S) : a \o b \in Seq(S)
           /\ \A a, b, c \in Seq(S) : (a \o b) \o c = a \o (b \o c)
           /\ \A f \in S : << f >> \in Seq(S)
           /\ \A a \in Seq(S), f \in S : Append(a, f) = a \o << f >> /\ Append(a, f) \in Seq(S)
           /\ \A a \in Seq(S) : a # << >> => /\ Head(a) \in S /\ Tail(a) \in Seq(S)
                                             /\ a = << Head(a) >> \o Tail(a)
<1>1. \A a \in Seq(S) : a # << >> => Head(a) \in S /\ Tail(a) \in Seq(S) /\ a = << Head(a) >> \o Tail(a)
  OBVIOUS
<1>2. \A a \in Seq(S), f \in S : Append(a, f) = a \o << f >> /\ Append(a, f) \in Seq(S)
  BY AppendIsConcat, AppendProperties
<1>3. << >> \in Seq(S) /\ (\A a, b \in Seq(S) : a \o b \in Seq(S)) /\ \A f \in S : << f >> \in Seq(S)
  OBVIOUS
<1>4. \A a \in Seq(S) : << >> \o a = a /\ a \o << >> = a
  BY ConcatEmptySeq
<1>5. \A a, b, c \in Seq(S) : (a \o b) \o c = a \o (b \o c)
  BY ConcatAssociative
<1> QED BY <1>1, <1>2, <1>3, <1>4, <1>5, Zenon

\* A side sends one frame more.
LEMMA WaitsForMore ==
    ASSUME NEW said, NEW seen \in Seq(Frames), NEW bytes \in Bytes, NEW unwritten, NEW after,
           Waits(said, seen, bytes, unwritten, FALSE), NEW f \in Frames
    PROVE  Waits(Append(said, f), seen, bytes \o f, after, FALSE)
<1>1. PICK rest \in Seq(Frames), tail \in Bytes, lost \in Bytes :
          /\ said = seen \o rest
          /\ bytes \o lost = FlattenSeq(rest) \o tail
          /\ tail = << >> /\ lost = << >>
  BY DEF Waits
<1> DEFINE more == Append(rest, f)
<1>2. more \in Seq(Frames) /\ Append(said, f) = seen \o more
  <2>1. said \in Seq(Frames) /\ more \in Seq(Frames)
    BY <1>1, InARow
  <2>2. Append(said, f) = said \o << f >> /\ more = rest \o << f >> /\ << f >> \in Seq(Frames)
    BY <1>1, <2>1, InARow
  <2>3. (seen \o rest) \o << f >> = seen \o (rest \o << f >>)
    BY <2>2, InARow
  <2> QED BY <1>1, <2>1, <2>2, <2>3
<1>3. rest \in Seq(Bytes) /\ f \in Bytes
  BY FramesAreFrames, SeqMonotonic DEF Frameable
<1>4. FlattenSeq(rest) \in Bytes /\ FlattenSeq(more) = FlattenSeq(rest) \o f
  BY <1>3, FlattenAppends
<1>5. bytes = FlattenSeq(rest)
  BY <1>1, <1>4, Together
<1>6. (bytes \o f) \o << >> = FlattenSeq(more) \o << >>
  BY <1>4, <1>5
<1> HIDE DEF more
<1>7. << >> \in Bytes
  BY Together
<1>8. \E r \in Seq(Frames), t \in Bytes, l \in Bytes :
          /\ Append(said, f) = seen \o r
          /\ (bytes \o f) \o l = FlattenSeq(r) \o t
          /\ t = << >> /\ l = << >>
  BY <1>2, <1>6, <1>7
<1> QED BY <1>8 DEF Waits

\* A side sends what is not a frame, and nothing after it.
LEMMA WaitsForGarbage ==
    ASSUME NEW said, NEW seen, NEW bytes \in Bytes, NEW unwritten, NEW after,
           Waits(said, seen, bytes, unwritten, FALSE), NEW g \in Garbage
    PROVE  Waits(said, seen, bytes \o g, after, TRUE)
<1>1. PICK rest \in Seq(Frames), tail \in Bytes, lost \in Bytes :
          /\ said = seen \o rest
          /\ bytes \o lost = FlattenSeq(rest) \o tail
          /\ tail = << >> /\ lost = << >>
  BY DEF Waits
<1>2. g \in Bytes /\ << >> \in Bytes
  BY FramesAreFrames
<1>3. FlattenSeq(rest) \in Bytes
  BY FramesAreFrames, SeqMonotonic, FlattenAppends, <1>2 DEF Frameable
<1>4. bytes = FlattenSeq(rest)
  BY <1>1, <1>3, Together
<1>5. (bytes \o g) \o << >> = FlattenSeq(rest) \o g
  BY <1>2, <1>4, Together
<1>6. \E r \in Seq(Frames), t \in Bytes, l \in Bytes :
          /\ said = seen \o r
          /\ (bytes \o g) \o l = FlattenSeq(r) \o t
          /\ t \in Garbage /\ l = << >>
  BY <1>1, <1>2, <1>5
<1> QED BY <1>6 DEF Waits

\* A side hangs up with bytes it has not written.
LEMMA WaitsNoLonger ==
    ASSUME NEW said, NEW seen, NEW bytes \in Bytes, NEW unwritten \in Bytes,
           Waits(said, seen, bytes \o unwritten, unwritten, FALSE)
    PROVE  Waits(said, seen, bytes, << >>, TRUE)
<1>1. PICK rest \in Seq(Frames), tail \in Bytes, lost \in Bytes :
          /\ said = seen \o rest
          /\ (bytes \o unwritten) \o lost = FlattenSeq(rest) \o tail
          /\ tail = << >> /\ lost = << >>
  BY DEF Waits
<1>2. (bytes \o unwritten) \o lost = bytes \o unwritten
  BY <1>1, Together
<1> QED BY <1>1, <1>2 DEF Waits

\* The kernel takes bytes.
LEMMA WaitsAlike ==
    ASSUME NEW said, NEW seen, NEW bytes, NEW unwritten, unwritten # << >>, NEW after, NEW ended,
           Waits(said, seen, bytes, unwritten, ended)
    PROVE  Waits(said, seen, bytes, after, ended)
  BY DEF Waits

\* A frame is cut off the front.
LEMMA WaitsForNext ==
    ASSUME NEW said, NEW seen \in Seq(Frames), NEW unwritten, NEW ended,
           NEW x \in Bytes, NEW y \in Bytes, Waits(said, seen, x \o y, unwritten, ended),
           NEW f, NEW left, TryTakeMessage(x) = Taken(f, left)
    PROVE  /\ f \in Frames /\ left \in Bytes
           /\ Waits(said, seen \o << f >>, left \o y, unwritten, ended)
<1>1. PICK rest \in Seq(Frames), tail \in Bytes, lost \in Bytes :
          /\ said = seen \o rest
          /\ (x \o y) \o lost = FlattenSeq(rest) \o tail
          /\ tail = << >> \/ (ended /\ tail \in Garbage)
          /\ lost = << >> \/ (ended /\ unwritten = << >>)
  BY DEF Waits
<1> DEFINE z == y \o lost
<1>2. z \in Bytes /\ x \o z = FlattenSeq(rest) \o tail
  BY <1>1, Together
<1>3. \A g, r : TryTakeMessage(tail) # Taken(g, r)
  BY <1>1, FramesAreFrames
<1> HIDE DEF z
<1>4. /\ rest # << >> /\ f = Head(rest)
      /\ left \in Bytes /\ left \o z = FlattenSeq(Tail(rest)) \o tail
  <2>1. Frameable(Frames)
    BY FramesAreFrames
  <2>2. \A rr \in Seq(Frames), tt, xx, yy \in Bytes : \A g, r :
            /\ \A gg, rg : TryTakeMessage(tt) # Taken(gg, rg)
            /\ xx \o yy = FlattenSeq(rr) \o tt
            /\ TryTakeMessage(xx) = Taken(g, r)
            => /\ rr # << >> /\ g = Head(rr)
               /\ r \in Bytes /\ r \o yy = FlattenSeq(Tail(rr)) \o tt
    BY <2>1, FrontIsNext, Zenon
  <2>3. \A g, r : /\ \A gg, rg : TryTakeMessage(tail) # Taken(gg, rg)
                  /\ x \o z = FlattenSeq(rest) \o tail
                  /\ TryTakeMessage(x) = Taken(g, r)
                  => /\ rest # << >> /\ g = Head(rest)
                     /\ r \in Bytes /\ r \o z = FlattenSeq(Tail(rest)) \o tail
    <3>1. rest \in Seq(Frames) /\ tail \in Bytes /\ z \in Bytes
      BY <1>1, <1>2
    <3>2. \A xx, yy \in Bytes : \A g, r :
            /\ \A gg, rg : TryTakeMessage(tail) # Taken(gg, rg)
            /\ xx \o yy = FlattenSeq(rest) \o tail
            /\ TryTakeMessage(xx) = Taken(g, r)
            => /\ rest # << >> /\ g = Head(rest)
               /\ r \in Bytes /\ r \o yy = FlattenSeq(Tail(rest)) \o tail
      BY <2>2, <3>1, Zenon
    <3> QED BY <3>1, <3>2, Zenon
  <2>4. TryTakeMessage(x) = Taken(f, left)
    OBVIOUS
  <2> QED BY <1>2, <1>3, <2>3, <2>4
<1> DEFINE more == Tail(rest)
<1>5. f \in Frames /\ more \in Seq(Frames) /\ rest = << f >> \o more
  BY <1>4, InARow
<1>6. said = (seen \o << f >>) \o more
  <2> HIDE DEF more
  <2>1. << f >> \in Seq(Frames)
    BY <1>5, InARow
  <2> QED BY <1>1, <1>5, <2>1, InARow
<1>7. (left \o y) \o lost = FlattenSeq(more) \o tail
  <2>1. (left \o y) \o lost = left \o z
    BY <1>4, Together DEF z
  <2> QED BY <1>4, <2>1
<1> HIDE DEF more
<1> QED BY <1>1, <1>4, <1>5, <1>6, <1>7 DEF Waits

\* The handlers emit.
LEMMA DueMore ==
    ASSUME NEW said, NEW seen \in Seq(Messages), NEW bytes \in Bytes, Due(said, seen, bytes),
           NEW answer \in Seq(Messages)
    PROVE  Due(said \o answer, seen, bytes \o FlattenSeq(answer))
<1>1. PICK rest \in Seq(Messages) : said = seen \o rest /\ bytes = FlattenSeq(rest)
  BY DEF Due
<1>2. rest \in Seq(Bytes) /\ answer \in Seq(Bytes)
  BY FramesAreFrames, SeqMonotonic DEF Frameable
<1>3. bytes \o FlattenSeq(answer) = FlattenSeq(rest \o answer)
  BY <1>1, <1>2, FlattenConcats
<1>4. rest \o answer \in Seq(Messages) /\ said \o answer = seen \o (rest \o answer)
  BY <1>1, InARow
<1> QED BY <1>3, <1>4 DEF Due

\* A peer cuts a frame off the front.
LEMMA DueNext ==
    ASSUME NEW said, NEW seen \in Seq(Messages), NEW x \in Bytes, NEW y \in Bytes,
           Due(said, seen, x \o y), NEW f, NEW left, TryTakeMessage(x) = Taken(f, left)
    PROVE  f \in Messages /\ left \in Bytes /\ Due(said, seen \o << f >>, left \o y)
<1>1. PICK rest \in Seq(Messages) : said = seen \o rest /\ x \o y = FlattenSeq(rest)
  BY DEF Due
<1>2. FlattenSeq(rest) \in Bytes
  BY <1>1, Together
<1>3. x \o y = FlattenSeq(rest) \o << >>
  BY <1>1, <1>2, Together
<1>4. << >> \in Bytes /\ \A g, r : TryTakeMessage(<< >>) # Taken(g, r)
  BY FramesAreFrames
<1>5. /\ rest # << >> /\ f = Head(rest)
      /\ left \in Bytes /\ left \o y = FlattenSeq(Tail(rest)) \o << >>
  <2>1. Frameable(Messages)
    BY FramesAreFrames
  <2>2. \A rr \in Seq(Messages), tt, xx, yy \in Bytes : \A g, r :
            /\ \A gg, rg : TryTakeMessage(tt) # Taken(gg, rg)
            /\ xx \o yy = FlattenSeq(rr) \o tt
            /\ TryTakeMessage(xx) = Taken(g, r)
            => /\ rr # << >> /\ g = Head(rr)
               /\ r \in Bytes /\ r \o yy = FlattenSeq(Tail(rr)) \o tt
    BY <2>1, FrontIsNext, Zenon
  <2>3. \A g, r : /\ \A gg, rg : TryTakeMessage(<< >>) # Taken(gg, rg)
                  /\ x \o y = FlattenSeq(rest) \o << >>
                  /\ TryTakeMessage(x) = Taken(g, r)
                  => /\ rest # << >> /\ g = Head(rest)
                     /\ r \in Bytes /\ r \o y = FlattenSeq(Tail(rest)) \o << >>
    BY <1>1, <1>4, <2>2, Zenon
  <2>4. TryTakeMessage(x) = Taken(f, left)
    OBVIOUS
  <2> QED BY <1>3, <1>4, <2>3, <2>4
<1> DEFINE more == Tail(rest)
<1>6. f \in Messages /\ more \in Seq(Messages) /\ rest = << f >> \o more
  BY <1>5, InARow
<1>7. said = (seen \o << f >>) \o more
  <2> HIDE DEF more
  <2>1. << f >> \in Seq(Messages)
    BY <1>6, InARow
  <2> QED BY <1>1, <1>6, <2>1, InARow
<1>8. left \o y = FlattenSeq(more)
  <2>1. FlattenSeq(more) \in Bytes
    <3>1. more \in Seq(Bytes)
      BY <1>6, FramesAreFrames, SeqMonotonic DEF Frameable
    <3> QED BY <1>4, <3>1, FlattenAppends
  <2> QED BY <1>5, <2>1, Together
<1> HIDE DEF more
<1> QED BY <1>5, <1>6, <1>7, <1>8 DEF Due

-----------------------------------------------------------------------------
(* The inductive invariant.                                                 *)

\* The message the drain loop holds for a side.
Held(s) == IF pump = s THEN << current >> ELSE << >>

In(s) == Waits(sent[s], handled[s] \o Held(s), buf[s] \o (inbound[s] \o unsent[s]), unsent[s], eof[s])

Out(s) == Due(emitted[s], arrived[s], got[s] \o (outbound[s] \o batch[s]))

Short(s) == TryTakeMessage(buf[s]).is = "not yet"

\* The loop drains a buffer unless a handler closes or it fails.
Drained ==
    /\ pump = "select" => \A s \in Sides : Short(s)
    /\ pump \in {"to_backend", "to_client"} /\ ~ close => \A s \in Sides : Short(s)
    /\ pump \in Sides => Short(Other(pump)) /\ current \in Frames
    /\ close => pump \in {"to_backend", "to_client", "ended", "failed"}

IInv ==
    /\ TypeOK
    /\ \A s \in Sides : In(s)
    /\ \A s \in Sides : Out(s)
    /\ Drained

\* A step that leaves a side's way in alone keeps what is on it.
LEMMA InStays ==
    ASSUME NEW t, In(t), sent'[t] = sent[t], handled'[t] = handled[t], Held(t)' = Held(t),
           buf'[t] = buf[t], inbound'[t] = inbound[t], unsent'[t] = unsent[t], eof'[t] = eof[t]
    PROVE  In(t)'
  BY DEF In

\* A step that leaves a side's way out alone keeps what is on it.
LEMMA OutStays ==
    ASSUME NEW t, Out(t), emitted'[t] = emitted[t], arrived'[t] = arrived[t],
           got'[t] = got[t], outbound'[t] = outbound[t], batch'[t] = batch[t]
    PROVE  Out(t)'
  BY DEF Out

\* What a handler has seen and holds are frames.
LEMMA SeenAreFrames ==
    ASSUME IInv, NEW s \in Sides
    PROVE  handled[s] \o Held(s) \in Seq(Frames)
<1>1. handled[s] \in Seq(Frames)
  BY DEF IInv, TypeOK
<1>2. Held(s) \in Seq(Frames)
  BY DEF IInv, Drained, Held
<1> QED BY <1>1, <1>2, InARow

\* The types of what belongs to a side.
LEMMA TypesOfASide ==
    ASSUME TypeOK, NEW s \in Sides
    PROVE  /\ unsent[s] \in Bytes /\ inbound[s] \in Bytes /\ buf[s] \in Bytes
           /\ batch[s] \in Bytes /\ outbound[s] \in Bytes /\ got[s] \in Bytes
           /\ arrived[s] \in Seq(Messages) /\ emitted[s] \in Seq(Messages)
           /\ sent[s] \in Seq(Frames) /\ handled[s] \in Seq(Frames)
           /\ eof[s] \in BOOLEAN
  BY DEF TypeOK, Messages

\* A frame the scripts hold is sent.
LEMMA PeerSendsKeeps ==
    ASSUME IInv, NEW s \in Sides, PeerSends(s)
    PROVE  IInv'
<1> DEFINE f == Scripts[s][Len(sent[s]) + 1]
<1>0. TypeOK /\ In(s) /\ eof[s] = FALSE
  BY TypesOfASide DEF IInv, PeerSends, MaySend
<1>1. f \in Frames /\ f \in Bytes
  <2>1. Scripts[s] \in Seq(Bytes) /\ Len(sent[s]) \in Nat /\ Len(sent[s]) < Len(Scripts[s])
    BY <1>0, TypesOfASide, RelayAssumption DEF PeerSends, MaySend, Bytes
  <2>2. Len(sent[s]) + 1 \in DOMAIN Scripts[s]
    BY <2>1
  <2>3. f \in ToSet(Scripts[s])
    BY <2>2 DEF ToSet
  <2> QED BY <2>3, FramesAreFrames DEF Frames, Frameable
<1> HIDE DEF f
<1>2. /\ unsent' = [unsent EXCEPT ![s] = unsent[s] \o f]
      /\ sent' = [sent EXCEPT ![s] = Append(sent[s], f)]
      /\ UNCHANGED << inbound, eof, buf, pump, current, batch, close, outbound, got, arrived,
                      handled, emitted >>
  BY DEF PeerSends, f
<1>3. unsent[s] \o f \in Bytes /\ Append(sent[s], f) \in Seq(Frames)
  BY <1>0, <1>1, TypesOfASide, Together, InARow
<1>4. TypeOK'
  BY <1>0, <1>2, <1>3 DEF TypeOK
<1>5. \A t \in Sides : Held(t)' = Held(t)
  BY <1>2 DEF Held
<1>6. In(s)'
  <2>1. Waits(sent[s], handled[s] \o Held(s), buf[s] \o (inbound[s] \o unsent[s]), unsent[s], FALSE)
    BY <1>0 DEF In
  <2>2. buf[s] \o (inbound[s] \o unsent[s]) \in Bytes
    BY <1>0, TypesOfASide, Together
  <2>3. Waits(Append(sent[s], f), handled[s] \o Held(s),
              (buf[s] \o (inbound[s] \o unsent[s])) \o f, unsent[s] \o f, FALSE)
    BY <1>1, <2>1, <2>2, SeenAreFrames, WaitsForMore
  <2>4. (buf[s] \o (inbound[s] \o unsent[s])) \o f = buf[s] \o (inbound[s] \o (unsent[s] \o f))
    <3>1. buf[s] \in Bytes /\ inbound[s] \in Bytes /\ unsent[s] \in Bytes
      BY <1>0, TypesOfASide
    <3> DEFINE p == inbound[s] \o unsent[s]
    <3>2. p \in Bytes /\ p \o f = inbound[s] \o (unsent[s] \o f)
      BY <1>1, <3>1, Together
    <3> HIDE DEF p
    <3>3. (buf[s] \o p) \o f = buf[s] \o (p \o f)
      BY <1>1, <3>1, <3>2, Together
    <3> QED BY <3>2, <3>3 DEF p
  <2>5. unsent'[s] = unsent[s] \o f /\ sent'[s] = Append(sent[s], f)
    BY <1>0, <1>2 DEF TypeOK
  <2> QED BY <1>0, <1>2, <1>5, <2>3, <2>4, <2>5 DEF In
<1>7. \A t \in Sides : In(t)'
  <2>1. ASSUME NEW t \in Sides, t # s PROVE In(t)'
    <3>1. In(t) /\ sent'[t] = sent[t] /\ unsent'[t] = unsent[t]
      BY <1>0, <1>2, <2>1 DEF IInv, TypeOK
    <3> QED BY <1>2, <1>5, <3>1, InStays
  <2> QED BY <1>6, <2>1
<1>8. \A t \in Sides : Out(t)'
  BY <1>2, OutStays DEF IInv
<1>9. Drained'
  BY <1>2 DEF IInv, Drained, Short
<1> QED BY <1>4, <1>7, <1>8, <1>9 DEF IInv

\* What is not a frame is sent, and nothing after it.
LEMMA PeerSendsGarbageKeeps ==
    ASSUME IInv, NEW s \in Sides, PeerSendsGarbage(s)
    PROVE  IInv'
<1>0. TypeOK /\ In(s) /\ eof[s] = FALSE
  BY TypesOfASide DEF IInv, PeerSendsGarbage, MaySend
<1>1. PICK g \in Garbage : unsent' = [unsent EXCEPT ![s] = unsent[s] \o g]
  BY DEF PeerSendsGarbage
<1>2. /\ sent' = sent
      /\ eof' = [eof EXCEPT ![s] = TRUE]
      /\ UNCHANGED << inbound, buf, pump, current, batch, close, outbound, got, arrived,
                      handled, emitted >>
  BY <1>0 DEF PeerSendsGarbage, TypeOK
<1>3. g \in Bytes /\ unsent[s] \o g \in Bytes
  BY <1>0, TypesOfASide, FramesAreFrames, Together
<1>4. TypeOK'
  BY <1>0, <1>1, <1>2, <1>3 DEF TypeOK
<1>5. \A t \in Sides : Held(t)' = Held(t)
  BY <1>2 DEF Held
<1>6. In(s)'
  <2>1. Waits(sent[s], handled[s] \o Held(s), buf[s] \o (inbound[s] \o unsent[s]), unsent[s], FALSE)
    BY <1>0 DEF In
  <2>2. buf[s] \o (inbound[s] \o unsent[s]) \in Bytes
    BY <1>0, TypesOfASide, Together
  <2>3. Waits(sent[s], handled[s] \o Held(s),
              (buf[s] \o (inbound[s] \o unsent[s])) \o g, unsent[s] \o g, TRUE)
    BY <2>1, <2>2, WaitsForGarbage
  <2>4. (buf[s] \o (inbound[s] \o unsent[s])) \o g = buf[s] \o (inbound[s] \o (unsent[s] \o g))
    <3>1. buf[s] \in Bytes /\ inbound[s] \in Bytes /\ unsent[s] \in Bytes
      BY <1>0, TypesOfASide
    <3> DEFINE p == inbound[s] \o unsent[s]
    <3>2. p \in Bytes /\ p \o g = inbound[s] \o (unsent[s] \o g)
      BY <1>3, <3>1, Together
    <3> HIDE DEF p
    <3>3. (buf[s] \o p) \o g = buf[s] \o (p \o g)
      BY <1>3, <3>1, <3>2, Together
    <3> QED BY <3>2, <3>3 DEF p
  <2>5. unsent'[s] = unsent[s] \o g /\ eof'[s] = TRUE
    BY <1>0, <1>1, <1>2 DEF TypeOK
  <2> QED BY <1>2, <1>5, <2>3, <2>4, <2>5 DEF In
<1>7. \A t \in Sides : In(t)'
  <2>1. ASSUME NEW t \in Sides, t # s PROVE In(t)'
    <3>1. In(t) /\ eof'[t] = eof[t] /\ unsent'[t] = unsent[t]
      BY <1>0, <1>1, <1>2, <2>1 DEF IInv, TypeOK
    <3> QED BY <1>2, <1>5, <3>1, InStays
  <2> QED BY <1>6, <2>1
<1>8. \A t \in Sides : Out(t)'
  BY <1>2, OutStays DEF IInv
<1>9. Drained'
  BY <1>2 DEF IInv, Drained, Short
<1> QED BY <1>4, <1>7, <1>8, <1>9 DEF IInv

\* A side goes away in the middle of a frame.
LEMMA PeerHangsUpKeeps ==
    ASSUME IInv, NEW s \in Sides, PeerHangsUp(s)
    PROVE  IInv'
<1>0. TypeOK /\ In(s) /\ eof[s] = FALSE
  BY TypesOfASide DEF IInv, PeerHangsUp
<1>1. /\ unsent' = [unsent EXCEPT ![s] = << >>]
      /\ eof' = [eof EXCEPT ![s] = TRUE]
      /\ UNCHANGED << inbound, buf, pump, current, batch, close, outbound, got, arrived, ghosts >>
  BY DEF PeerHangsUp
<1>2. sent' = sent /\ handled' = handled /\ emitted' = emitted
  BY <1>1 DEF ghosts
<1>3. << >> \in Bytes
  BY Together
<1>4. TypeOK'
  BY <1>0, <1>1, <1>2, <1>3 DEF TypeOK
<1>5. \A t \in Sides : Held(t)' = Held(t)
  BY <1>1 DEF Held
<1>6. In(s)'
  <2>1. buf[s] \o inbound[s] \in Bytes /\ unsent[s] \in Bytes
    BY <1>0, TypesOfASide, Together
  <2>2. buf[s] \o (inbound[s] \o unsent[s]) = (buf[s] \o inbound[s]) \o unsent[s]
    <3>1. buf[s] \in Bytes /\ inbound[s] \in Bytes /\ unsent[s] \in Bytes
      BY <1>0, TypesOfASide
    <3> QED BY <3>1, Together, Zenon
  <2>3. Waits(sent[s], handled[s] \o Held(s), (buf[s] \o inbound[s]) \o unsent[s], unsent[s], FALSE)
    BY <1>0, <2>2 DEF In
  <2>4. Waits(sent[s], handled[s] \o Held(s), buf[s] \o inbound[s], << >>, TRUE)
    BY <2>1, <2>3, WaitsNoLonger
  <2>5. unsent'[s] = << >> /\ eof'[s] = TRUE /\ inbound[s] \o << >> = inbound[s]
    BY <1>0, <1>1, TypesOfASide, Together DEF TypeOK
  <2> QED BY <1>1, <1>2, <1>5, <2>4, <2>5 DEF In
<1>7. \A t \in Sides : In(t)'
  <2>1. ASSUME NEW t \in Sides, t # s PROVE In(t)'
    <3>1. In(t) /\ eof'[t] = eof[t] /\ unsent'[t] = unsent[t]
      BY <1>0, <1>1, <2>1 DEF IInv, TypeOK
    <3> QED BY <1>1, <1>2, <1>5, <3>1, InStays
  <2> QED BY <1>6, <2>1
<1>8. \A t \in Sides : Out(t)'
  BY <1>1, <1>2, OutStays DEF IInv
<1>9. Drained'
  BY <1>1 DEF IInv, Drained, Short
<1> QED BY <1>4, <1>7, <1>8, <1>9 DEF IInv

\* Bytes move from one stretch to the next.
LEMMA Moved ==
    ASSUME NEW a \in Bytes, NEW b \in Bytes, NEW n \in Nat, n <= Len(b)
    PROVE  /\ a \o SubSeq(b, 1, n) \in Bytes /\ Drop(b, n) \in Bytes
           /\ (a \o SubSeq(b, 1, n)) \o Drop(b, n) = a \o b
<1> DEFINE p == SubSeq(b, 1, n)
           q == Drop(b, n)
<1>1. p \in Bytes /\ q \in Bytes /\ b = p \o q
  BY CutInTwo
<1> HIDE DEF p, q
<1>2. a \o p \in Bytes /\ (a \o p) \o q = a \o (p \o q)
  BY <1>1, Together
<1> QED BY <1>1, <1>2 DEF p, q

\* The kernel takes bytes from a peer.
LEMMA PeerWritesKeeps ==
    ASSUME IInv, NEW s \in Sides, PeerWrites(s)
    PROVE  IInv'
<1>0. TypeOK /\ In(s) /\ unsent[s] # << >>
  BY DEF IInv, PeerWrites
<1>1. PICK n \in 1 .. Len(unsent[s]) :
          /\ inbound' = [inbound EXCEPT ![s] = inbound[s] \o SubSeq(unsent[s], 1, n)]
          /\ unsent' = [unsent EXCEPT ![s] = Drop(unsent[s], n)]
  BY DEF PeerWrites
<1>2. /\ UNCHANGED << eof, buf, pump, current, batch, close, outbound, got, arrived >>
      /\ sent' = sent /\ handled' = handled /\ emitted' = emitted
  BY DEF PeerWrites, ghosts
<1>3. /\ inbound[s] \o SubSeq(unsent[s], 1, n) \in Bytes /\ Drop(unsent[s], n) \in Bytes
      /\ (inbound[s] \o SubSeq(unsent[s], 1, n)) \o Drop(unsent[s], n) = inbound[s] \o unsent[s]
  <2>1. n \in Nat /\ n <= Len(unsent[s])
    BY <1>0, TypesOfASide DEF Bytes
  <2>2. inbound[s] \in Bytes /\ unsent[s] \in Bytes
    BY <1>0, TypesOfASide
  <2> QED BY <2>1, <2>2, Moved
<1>4. TypeOK'
  BY <1>0, <1>1, <1>2, <1>3 DEF TypeOK
<1>5. \A t \in Sides : Held(t)' = Held(t)
  BY <1>2 DEF Held
<1>6. In(s)'
  <2>1. unsent'[s] = Drop(unsent[s], n) /\ inbound'[s] = inbound[s] \o SubSeq(unsent[s], 1, n)
    BY <1>0, <1>1 DEF TypeOK
  <2>2. inbound'[s] \o unsent'[s] = inbound[s] \o unsent[s]
    BY <1>3, <2>1
  <2>3. Waits(sent[s], handled[s] \o Held(s), buf[s] \o (inbound[s] \o unsent[s]), unsent'[s], eof[s])
    BY <1>0, WaitsAlike DEF In
  <2> QED BY <1>2, <1>5, <2>2, <2>3 DEF In
<1>7. \A t \in Sides : In(t)'
  <2>1. ASSUME NEW t \in Sides, t # s PROVE In(t)'
    <3>1. In(t) /\ inbound'[t] = inbound[t] /\ unsent'[t] = unsent[t]
      BY <1>0, <1>1, <2>1 DEF IInv, TypeOK
    <3> QED BY <1>2, <1>5, <3>1, InStays
  <2> QED BY <1>6, <2>1
<1>8. \A t \in Sides : Out(t)'
  BY <1>2, OutStays DEF IInv
<1>9. Drained'
  BY <1>2 DEF IInv, Drained, Short
<1> QED BY <1>4, <1>7, <1>8, <1>9 DEF IInv

\* The kernel gives bytes to a peer.
LEMMA PeerReadsKeeps ==
    ASSUME IInv, NEW s \in Sides, PeerReads(s)
    PROVE  IInv'
<1>0. TypeOK /\ Out(s)
  BY DEF IInv
<1>1. /\ got' = [got EXCEPT ![s] = got[s] \o outbound[s]]
      /\ outbound' = [outbound EXCEPT ![s] = << >>]
  BY DEF PeerReads
<1>2. /\ UNCHANGED << unsent, inbound, eof, buf, pump, current, batch, close, arrived >>
      /\ sent' = sent /\ handled' = handled /\ emitted' = emitted
  BY DEF PeerReads, peers, ghosts
<1>3. got[s] \in Bytes /\ outbound[s] \in Bytes /\ batch[s] \in Bytes
  BY <1>0, TypesOfASide
<1>4. TypeOK'
  BY <1>0, <1>1, <1>2, <1>3, Together DEF TypeOK
<1>5. \A t \in Sides : Held(t)' = Held(t)
  BY <1>2 DEF Held
<1>6. Out(s)'
  <2>1. got'[s] = got[s] \o outbound[s] /\ outbound'[s] = << >>
    BY <1>0, <1>1 DEF TypeOK
  <2>2. << >> \o batch[s] = batch[s]
    BY <1>3, Together
  <2>3. (got[s] \o outbound[s]) \o batch[s] = got[s] \o (outbound[s] \o batch[s])
    BY <1>3, Together
  <2> QED BY <1>0, <1>2, <2>1, <2>2, <2>3 DEF Out
<1>7. \A t \in Sides : In(t)'
  BY <1>2, <1>5, InStays DEF IInv
<1>8. \A t \in Sides : Out(t)'
  <2>1. ASSUME NEW t \in Sides, t # s PROVE Out(t)'
    <3>1. Out(t) /\ got'[t] = got[t] /\ outbound'[t] = outbound[t]
      BY <1>0, <1>1, <2>1 DEF IInv, TypeOK
    <3> QED BY <1>2, <3>1, OutStays
  <2> QED BY <1>6, <2>1
<1>9. Drained'
  BY <1>2 DEF IInv, Drained, Short
<1> QED BY <1>4, <1>7, <1>8, <1>9 DEF IInv

\* A buffer has a frame at its front, or not yet, or never.
LEMMA ThreeOutcomes ==
    ASSUME NEW bytes \in Bytes
    PROVE  LET next == TryTakeMessage(bytes) IN
           /\ next.frame \in Bytes /\ next.rest \in Bytes
           /\ \/ next.is = "frame" /\ next = Taken(next.frame, next.rest)
              \/ next.is = "not yet"
              \/ next.is = "malformed"
<1> DEFINE next == TryTakeMessage(bytes)
<1>1. \/ next = NotYet \/ next = Malformed \/ \E f, rest \in Bytes : next = Taken(f, rest)
  BY TakingSplits
<1> HIDE DEF next
<1>2. ASSUME next = NotYet
      PROVE  /\ next.frame \in Bytes /\ next.rest \in Bytes
             /\ next.is = "frame" => next = Taken(next.frame, next.rest)
             /\ next.is \in {"frame", "not yet", "malformed"}
  BY <1>2, OutcomesDiffer, Together
<1>3. ASSUME next = Malformed
      PROVE  /\ next.frame \in Bytes /\ next.rest \in Bytes
             /\ next.is = "frame" => next = Taken(next.frame, next.rest)
             /\ next.is \in {"frame", "not yet", "malformed"}
  BY <1>3, OutcomesDiffer, Together
<1>4. ASSUME NEW f \in Bytes, NEW rest \in Bytes, next = Taken(f, rest)
      PROVE  next.is = "frame" /\ next = Taken(next.frame, next.rest) /\ next.frame \in Bytes /\ next.rest \in Bytes
  <2>1. Taken(f, rest).is = "frame" /\ Taken(f, rest).frame = f /\ Taken(f, rest).rest = rest
    BY OutcomesDiffer, Zenon
  <2> QED BY <1>4, <2>1
<1> QED BY <1>1, <1>2, <1>3, <1>4 DEF next

\* A peer cuts the next frame emitted for it.
LEMMA PeerTakesKeeps ==
    ASSUME IInv, NEW s \in Sides, PeerTakes(s)
    PROVE  /\ IInv'
           /\ TryTakeMessage(got[s]).frame \in Messages
           /\ \E rest \in Seq(Messages) :
                emitted[s] = (arrived[s] \o << TryTakeMessage(got[s]).frame >>) \o rest
           /\ arrived' = [arrived EXCEPT ![s] = arrived[s] \o << TryTakeMessage(got[s]).frame >>]
<1> DEFINE next == TryTakeMessage(got[s])
           f == next.frame
           left == next.rest
<1>0. TypeOK /\ Out(s) /\ next.is = "frame"
  BY DEF IInv, PeerTakes
<1>1. /\ got' = [got EXCEPT ![s] = left]
      /\ arrived' = [arrived EXCEPT ![s] = Append(arrived[s], f)]
  BY DEF PeerTakes
<1>2. /\ UNCHANGED << unsent, inbound, eof, buf, pump, current, batch, close, outbound >>
      /\ sent' = sent /\ handled' = handled /\ emitted' = emitted
  BY DEF PeerTakes, peers, ghosts
<1>3. got[s] \in Bytes /\ outbound[s] \in Bytes /\ batch[s] \in Bytes /\ arrived[s] \in Seq(Messages)
  BY <1>0, TypesOfASide
<1>4. TryTakeMessage(got[s]) = Taken(f, left)
  BY <1>0, <1>3, ThreeOutcomes
<1> HIDE DEF next, f, left
<1>5. /\ f \in Messages /\ left \in Bytes
      /\ Due(emitted[s], arrived[s] \o << f >>, left \o (outbound[s] \o batch[s]))
  <2>1. outbound[s] \o batch[s] \in Bytes
    BY <1>3, Together
  <2>2. Due(emitted[s], arrived[s], got[s] \o (outbound[s] \o batch[s]))
    BY <1>0 DEF Out
  <2> QED BY <1>3, <1>4, <2>1, <2>2, DueNext
<1>6. Append(arrived[s], f) = arrived[s] \o << f >> /\ Append(arrived[s], f) \in Seq(Messages)
  BY <1>3, <1>5, InARow
<1>7. TypeOK'
  BY <1>0, <1>1, <1>2, <1>5, <1>6 DEF TypeOK, Messages
<1>8. \A t \in Sides : Held(t)' = Held(t)
  BY <1>2 DEF Held
<1>9. \A t \in Sides : In(t)'
  BY <1>2, <1>8, InStays DEF IInv
<1>10. Out(s)'
  <2>1. got'[s] = left /\ arrived'[s] = arrived[s] \o << f >>
    BY <1>0, <1>1, <1>6 DEF TypeOK
  <2> QED BY <1>2, <1>5, <2>1 DEF Out
<1>11. \A t \in Sides : Out(t)'
  <2>1. ASSUME NEW t \in Sides, t # s PROVE Out(t)'
    <3>1. Out(t) /\ got'[t] = got[t] /\ arrived'[t] = arrived[t]
      BY <1>0, <1>1, <2>1 DEF IInv, TypeOK
    <3> QED BY <1>2, <3>1, OutStays
  <2> QED BY <1>10, <2>1
<1>12. Drained'
  BY <1>2 DEF IInv, Drained, Short
<1>13. \E rest \in Seq(Messages) : emitted[s] = (arrived[s] \o << f >>) \o rest
  BY <1>5 DEF Due
<1>14. arrived' = [arrived EXCEPT ![s] = arrived[s] \o << f >>]
  BY <1>1, <1>6
<1> QED BY <1>5, <1>7, <1>9, <1>11, <1>12, <1>13, <1>14 DEF IInv, f, next

\* read_message appends what the socket has and cuts.
LEMMA SelectsKeeps ==
    ASSUME IInv, NEW s \in Sides, Selects(s)
    PROVE  IInv'
<1>0. TypeOK /\ In(s) /\ pump = "select" /\ pump \notin Sides
  BY DEF IInv, Selects, Sides
<1>1. PICK n \in 1 .. Len(inbound[s]) : ReadMessage(s, SubSeq(inbound[s], 1, n))
  BY DEF Selects
<1>2. /\ UNCHANGED << unsent, eof, batch, close, outbound, got, arrived >>
      /\ sent' = sent /\ handled' = handled /\ emitted' = emitted
  BY DEF Selects, ghosts
<1>3. buf[s] \in Bytes /\ inbound[s] \in Bytes /\ unsent[s] \in Bytes
  BY <1>0, TypesOfASide
<1>4. n \in Nat /\ n <= Len(inbound[s]) /\ Len(SubSeq(inbound[s], 1, n)) = n
  BY <1>3 DEF Bytes
<1> DEFINE x == buf[s] \o SubSeq(inbound[s], 1, n)
           left == Drop(inbound[s], n)
           y == left \o unsent[s]
           next == TryTakeMessage(x)
<1>5. /\ x \in Bytes /\ left \in Bytes /\ y \in Bytes
      /\ x \o y = buf[s] \o (inbound[s] \o unsent[s])
  <2> DEFINE chunk == SubSeq(inbound[s], 1, n)
  <2>1. chunk \in Bytes /\ left \in Bytes /\ inbound[s] = chunk \o left
    BY <1>3, <1>4, CutInTwo
  <2> HIDE DEF chunk, left
  <2>2. y \in Bytes /\ chunk \o y = inbound[s] \o unsent[s]
    <3>1. left \o unsent[s] \in Bytes
      BY <1>3, <2>1, Together
    <3>2. (chunk \o left) \o unsent[s] = chunk \o (left \o unsent[s])
      BY <1>3, <2>1, Together
    <3> QED BY <2>1, <3>1, <3>2
  <2> HIDE DEF y
  <2>3. buf[s] \o chunk \in Bytes /\ (buf[s] \o chunk) \o y = buf[s] \o (inbound[s] \o unsent[s])
    <3>1. buf[s] \o chunk \in Bytes /\ (buf[s] \o chunk) \o y = buf[s] \o (chunk \o y)
      BY <1>3, <2>1, <2>2, Together
    <3> QED BY <2>2, <3>1
  <2> QED BY <2>1, <2>2, <2>3 DEF chunk
<1>6. /\ inbound' = [inbound EXCEPT ![s] = left]
      /\ buf' = [buf EXCEPT ![s] = IF next.is = "frame" THEN next.rest ELSE x]
      /\ current' = next.frame
      /\ pump' = CASE next.is = "frame" -> s
                   [] next.is = "not yet" -> "select"
                   [] next.is = "malformed" -> "failed"
  BY <1>1, <1>4 DEF ReadMessage
<1>7. /\ next.frame \in Bytes /\ next.rest \in Bytes
      /\ \/ next.is = "frame" /\ next = Taken(next.frame, next.rest)
         \/ next.is = "not yet"
         \/ next.is = "malformed"
  <2> HIDE DEF x
  <2> QED BY <1>5, ThreeOutcomes
<1>8. \A t \in Sides : Held(t) = << >>
  BY <1>0 DEF Held
<1>9. handled[s] \in Seq(Frames) /\ handled[s] \o << >> = handled[s]
  BY <1>0, TypesOfASide, InARow
<1>10. Waits(sent[s], handled[s], x \o y, unsent[s], eof[s])
  BY <1>0, <1>5, <1>8, <1>9 DEF In
<1> HIDE DEF x, left, next
<1>11. inbound'[s] = left /\ buf'[s] = IF next.is = "frame" THEN next.rest ELSE x
  BY <1>0, <1>6 DEF TypeOK
<1>12. \A t \in Sides : t # s => inbound'[t] = inbound[t] /\ buf'[t] = buf[t]
  BY <1>0, <1>6 DEF TypeOK
<1>13. ~ close /\ \A t \in Sides : Short(t)
  BY <1>0 DEF IInv, Drained
<1>14. \A t \in Sides : Out(t)'
  BY <1>2, OutStays DEF IInv
<1>15. inbound' \in [Sides -> Bytes] /\ buf' \in [Sides -> Bytes] /\ current' \in Bytes
  BY <1>0, <1>5, <1>6, <1>7 DEF TypeOK
<1>16. CASE next.is = "frame"
  <2> DEFINE f == next.frame
  <2>1. pump' = s /\ current' = f /\ buf'[s] = next.rest
    BY <1>6, <1>11, <1>16
  <2>2. f \in Frames /\ Waits(sent[s], handled[s] \o << f >>, next.rest \o y, unsent[s], eof[s])
    <3>1. TryTakeMessage(x) = Taken(f, next.rest)
      BY <1>7, <1>16 DEF next
    <3> HIDE DEF f, y
    <3> DEFINE said == sent[s]
               seen == handled[s]
               unwritten == unsent[s]
               ended == eof[s]
               left_over == next.rest
    <3>2. seen \in Seq(Frames) /\ Waits(said, seen, x \o y, unwritten, ended)
      BY <1>9, <1>10
    <3>3. TryTakeMessage(x) = Taken(f, left_over) /\ x \in Bytes /\ y \in Bytes
      BY <1>5, <3>1
    <3> HIDE DEF said, seen, unwritten, ended, left_over
    <3>4. f \in Frames /\ Waits(said, seen \o << f >>, left_over \o y, unwritten, ended)
      BY <3>2, <3>3, WaitsForNext
    <3> QED BY <3>4 DEF said, seen, unwritten, ended, left_over
  <2> HIDE DEF f
  <2>3. TypeOK'
    BY <1>0, <1>2, <1>15, <2>1 DEF TypeOK, Sides
  <2>4. In(s)'
    <3>1. Held(s)' = << f >>
      BY <2>1 DEF Held
    <3> QED BY <1>2, <1>11, <2>1, <2>2, <3>1 DEF In
  <2>5. \A t \in Sides : In(t)'
    <3>1. ASSUME NEW t \in Sides, t # s PROVE In(t)'
      <4>1. Held(t)' = Held(t)
        BY <1>0, <2>1, <3>1 DEF Held
      <4> QED BY <1>2, <1>12, <3>1, <4>1, InStays DEF IInv
    <3> QED BY <2>4, <3>1
  <2>6. Drained'
    <3>1. Other(s) # s /\ Other(s) \in Sides
      BY DEF Sides, Other
    <3>2. Short(Other(s))'
      BY <1>12, <1>13, <3>1 DEF Short
    <3> QED BY <1>2, <1>13, <2>1, <2>2, <3>2 DEF Drained, Sides
  <2> QED BY <1>14, <2>3, <2>5, <2>6 DEF IInv
<1>17. CASE next.is # "frame"
  <2>1. pump' \in {"select", "failed"} /\ (pump' = "select" => next.is = "not yet") /\ buf'[s] = x
    BY <1>6, <1>7, <1>11, <1>17
  <2>2. TypeOK'
    BY <1>0, <1>2, <1>15, <2>1 DEF TypeOK
  <2>3. \A t \in Sides : Held(t)' = << >>
    BY <2>1 DEF Held, Sides
  <2>4. In(s)'
    BY <1>2, <1>9, <1>10, <1>11, <2>1, <2>3 DEF In
  <2>5. \A t \in Sides : In(t)'
    <3>1. ASSUME NEW t \in Sides, t # s PROVE In(t)'
      BY <1>2, <1>8, <1>12, <2>3, <3>1, InStays DEF IInv
    <3> QED BY <2>4, <3>1
  <2>6. Drained'
    <3>1. pump' = "select" => \A t \in Sides : Short(t)'
      BY <1>12, <1>13, <2>1 DEF Short, next
    <3> QED BY <1>2, <1>13, <2>1, <3>1 DEF Drained, Sides
  <2> QED BY <1>14, <2>2, <2>5, <2>6 DEF IInv
<1> QED BY <1>16, <1>17

\* Steps that only move the loop on, between messages.
LEMMA LoopKeeps ==
    ASSUME IInv, pump \notin Sides, pump' \in {"select", "to_client", "ended", "failed"},
           UNCHANGED << peers, buf, current, batch, close, outbound, got, arrived, ghosts >>,
           pump' \in {"select", "to_client"} => pump \in {"to_backend", "to_client"},
           pump' = "select" => ~ close
    PROVE  IInv'
<1>1. \A t \in Sides : Held(t)' = Held(t)
  BY DEF Held, Sides
<1>2. TypeOK'
  BY DEF IInv, TypeOK, peers, ghosts
<1>3. \A t \in Sides : In(t)' /\ Out(t)'
  BY <1>1, InStays, OutStays DEF IInv, peers, ghosts
<1>4. Drained'
  BY DEF IInv, Drained, Short, Sides
<1> QED BY <1>2, <1>3, <1>4 DEF IInv

\* A read of no bytes ends the loop.
LEMMA SelectsEofKeeps ==
    ASSUME IInv, NEW s \in Sides, SelectsEof(s)
    PROVE  IInv'
  BY LoopKeeps DEF SelectsEof, Sides

\* A failed write ends the loop.
LEMMA WriteFailsKeeps ==
    ASSUME IInv, NEW s \in Sides, WriteFails(s)
    PROVE  IInv'
  BY LoopKeeps DEF WriteFails, Sides

\* The batch is written and the loop goes on.
LEMMA WrittenKeeps ==
    ASSUME IInv, Written
    PROVE  IInv'
<1>1. \/ pump = "to_backend" /\ pump' = "to_client"
      \/ pump = "to_client" /\ pump' = IF close THEN "ended" ELSE "select"
  BY DEF Written
<1>2. close \in BOOLEAN
  BY DEF IInv, TypeOK
<1> QED BY <1>1, <1>2, LoopKeeps DEF Written, Sides

\* write_all moves bytes of the batch to the socket.
LEMMA WritesKeeps ==
    ASSUME IInv, NEW s \in Sides, Writes(s)
    PROVE  IInv'
<1>0. TypeOK /\ Out(s)
  BY DEF IInv
<1>1. PICK n \in 1 .. Len(batch[s]) :
          /\ outbound' = [outbound EXCEPT ![s] = outbound[s] \o SubSeq(batch[s], 1, n)]
          /\ batch' = [batch EXCEPT ![s] = Drop(batch[s], n)]
  BY DEF Writes
<1>2. /\ UNCHANGED << unsent, inbound, eof, buf, pump, current, close, got, arrived >>
      /\ sent' = sent /\ handled' = handled /\ emitted' = emitted
  BY DEF Writes, peers, ghosts
<1>3. got[s] \in Bytes /\ outbound[s] \in Bytes /\ batch[s] \in Bytes
  BY <1>0, TypesOfASide
<1>4. /\ outbound[s] \o SubSeq(batch[s], 1, n) \in Bytes /\ Drop(batch[s], n) \in Bytes
      /\ (outbound[s] \o SubSeq(batch[s], 1, n)) \o Drop(batch[s], n) = outbound[s] \o batch[s]
  <2>1. n \in Nat /\ n <= Len(batch[s])
    BY <1>3 DEF Bytes
  <2> QED BY <1>3, <2>1, Moved
<1>5. TypeOK'
  BY <1>0, <1>1, <1>2, <1>4 DEF TypeOK
<1>6. \A t \in Sides : Held(t)' = Held(t)
  BY <1>2 DEF Held
<1>7. Out(s)'
  <2>1. batch'[s] = Drop(batch[s], n) /\ outbound'[s] = outbound[s] \o SubSeq(batch[s], 1, n)
    BY <1>0, <1>1 DEF TypeOK
  <2>2. outbound'[s] \o batch'[s] = outbound[s] \o batch[s]
    BY <1>4, <2>1
  <2> QED BY <1>0, <1>2, <2>2 DEF Out
<1>8. \A t \in Sides : In(t)'
  BY <1>2, <1>6, InStays DEF IInv
<1>9. \A t \in Sides : Out(t)'
  <2>1. ASSUME NEW t \in Sides, t # s PROVE Out(t)'
    <3>1. Out(t) /\ batch'[t] = batch[t] /\ outbound'[t] = outbound[t]
      BY <1>0, <1>1, <2>1 DEF IInv, TypeOK
    <3> QED BY <1>2, <3>1, OutStays
  <2> QED BY <1>7, <2>1
<1>10. Drained'
  BY <1>2 DEF IInv, Drained, Short
<1> QED BY <1>5, <1>8, <1>9, <1>10 DEF IInv

\* What a handler writes is made of messages, to a side.
LEMMA VerdictsAreMessages ==
    ASSUME NEW s \in Sides, NEW message \in Frames, NEW v \in Verdicts(s, message)
    PROVE  /\ v.to \in Sides /\ v.close \in BOOLEAN
           /\ v.frames \in Seq(Messages) /\ Len(v.frames) <= Len(Refusal)
<1>1. /\ << >> \in Seq(Messages) /\ Len(<< >>) = 0
      /\ << message >> \in Seq(Messages) /\ Len(<< message >>) = 1
  BY FramesAreFrames
<1>2. Refusal \in Seq(Messages) /\ Len(Refusal) \in Nat \ {0}
  <2>1. Refusal \in Seq(Bytes) /\ Len(Refusal) \in Nat /\ Refusal # << >>
    BY RelayAssumption DEF Bytes
  <2>2. \A i \in 1 .. Len(Refusal) : Refusal[i] \in Messages
    BY <2>1 DEF Messages, ToSet
  <2>3. Refusal \in Seq(Messages)
    BY <2>1, <2>2
  <2> QED BY <2>1, <2>3
<1>3. Other(s) \in Sides /\ "client" \in Sides
  BY DEF Other, Sides
<1>4. \/ v = [to |-> s, frames |-> << >>, close |-> FALSE]
      \/ v \in [to : {Other(s)}, frames : {<< message >>}, close : BOOLEAN]
      \/ v \in [to : {"client"}, frames : {Refusal}, close : BOOLEAN]
  BY DEF Verdicts
<1>5. CASE v = [to |-> s, frames |-> << >>, close |-> FALSE]
  BY <1>1, <1>2, <1>5
<1>6. CASE v \in [to : {Other(s)}, frames : {<< message >>}, close : BOOLEAN]
  <2>1. v.to = Other(s) /\ v.frames = << message >> /\ v.close \in BOOLEAN
    BY <1>6
  <2> QED BY <1>1, <1>2, <1>3, <2>1
<1>7. CASE v \in [to : {"client"}, frames : {Refusal}, close : BOOLEAN]
  BY <1>2, <1>3, <1>7
<1> QED BY <1>4, <1>5, <1>6, <1>7

\* A handler sees its message, emits, and the loop drains on.
LEMMA HandlesKeeps ==
    ASSUME IInv, NEW s \in Sides, Handles(s)
    PROVE  IInv'
<1>0. TypeOK /\ In(s) /\ pump = s /\ ~ close /\ current \in Frames /\ Short(Other(s))
  BY DEF IInv, Drained, Handles, Sides
<1>1. PICK v \in Verdicts(s, current) :
        /\ batch' = [batch EXCEPT ![v.to] = @ \o FlattenSeq(v.frames)]
        /\ emitted' = [emitted EXCEPT ![v.to] = @ \o v.frames]
        /\ close' = (close \/ v.close)
        /\ DrainsOn(s, v.close)
  BY DEF Handles
<1>2. /\ UNCHANGED << unsent, inbound, eof, outbound, got, arrived, sent >>
      /\ handled' = [handled EXCEPT ![s] = Append(handled[s], current)]
  BY DEF Handles, peers
<1>3. v.to \in Sides /\ v.close \in BOOLEAN /\ v.frames \in Seq(Messages) /\ close' = v.close
  BY <1>0, <1>1, VerdictsAreMessages
<1> DEFINE t0 == v.to
           frames == v.frames
           bytes == FlattenSeq(frames)
<1>4. bytes \in Bytes
  <2>1. frames \in Seq(Bytes)
    BY <1>3, FramesAreFrames, SeqMonotonic DEF Frameable
  <2> QED BY <2>1, FlattenAppends, Together
<1>5. /\ batch' = [batch EXCEPT ![t0] = batch[t0] \o bytes]
      /\ emitted' = [emitted EXCEPT ![t0] = emitted[t0] \o frames]
  BY <1>1
<1>6. t0 \in Sides /\ frames \in Seq(Messages)
  BY <1>3
<1> HIDE DEF t0, frames, bytes
<1>7. /\ got[t0] \in Bytes /\ outbound[t0] \in Bytes /\ batch[t0] \in Bytes
      /\ arrived[t0] \in Seq(Messages) /\ emitted[t0] \in Seq(Messages)
      /\ batch[t0] \o bytes \in Bytes /\ emitted[t0] \o frames \in Seq(Messages)
  BY <1>0, <1>4, <1>6, TypesOfASide, Together, InARow
<1>8. Out(t0)'
  <2>1. Due(emitted[t0] \o frames, arrived[t0], (got[t0] \o (outbound[t0] \o batch[t0])) \o bytes)
    <3>1. got[t0] \o (outbound[t0] \o batch[t0]) \in Bytes
      BY <1>7, Together
    <3>2. Due(emitted[t0], arrived[t0], got[t0] \o (outbound[t0] \o batch[t0]))
      BY <1>6 DEF IInv, Out
    <3> QED BY <1>6, <1>7, <3>1, <3>2, DueMore DEF bytes
  <2>2. (got[t0] \o (outbound[t0] \o batch[t0])) \o bytes
            = got[t0] \o (outbound[t0] \o (batch[t0] \o bytes))
    <3> DEFINE p == outbound[t0] \o batch[t0]
    <3>1. p \in Bytes /\ p \o bytes = outbound[t0] \o (batch[t0] \o bytes)
      BY <1>4, <1>7, Together
    <3> HIDE DEF p
    <3>2. (got[t0] \o p) \o bytes = got[t0] \o (p \o bytes)
      BY <1>4, <1>7, <3>1, Together
    <3> QED BY <3>1, <3>2 DEF p
  <2>3. batch'[t0] = batch[t0] \o bytes /\ emitted'[t0] = emitted[t0] \o frames
    BY <1>0, <1>5, <1>6 DEF TypeOK
  <2> QED BY <1>2, <2>1, <2>2, <2>3 DEF Out
<1>9. \A t \in Sides : Out(t)'
  <2>1. ASSUME NEW t \in Sides, t # t0 PROVE Out(t)'
    <3>1. Out(t) /\ batch'[t] = batch[t] /\ emitted'[t] = emitted[t]
      BY <1>0, <1>5, <2>1 DEF IInv, TypeOK
    <3> QED BY <1>2, <3>1, OutStays
  <2> QED BY <1>8, <2>1
<1>10. /\ buf[s] \in Bytes /\ inbound[s] \in Bytes /\ unsent[s] \in Bytes
       /\ handled[s] \in Seq(Frames) /\ << current >> \in Seq(Frames)
       /\ Append(handled[s], current) = handled[s] \o << current >>
       /\ handled[s] \o << current >> \in Seq(Frames)
  BY <1>0, TypesOfASide, InARow
<1>11. /\ handled'[s] = handled[s] \o << current >>
       /\ \A t \in Sides : t # s => handled'[t] = handled[t]
  BY <1>0, <1>2, <1>10 DEF TypeOK
<1> DEFINE next == TryTakeMessage(buf[s])
           y == inbound[s] \o unsent[s]
<1>12. /\ next.frame \in Bytes /\ next.rest \in Bytes
       /\ \/ next.is = "frame" /\ next = Taken(next.frame, next.rest)
          \/ next.is = "not yet"
          \/ next.is = "malformed"
  BY <1>10, ThreeOutcomes
<1>13. Waits(sent[s], handled[s] \o << current >>, buf[s] \o y, unsent[s], eof[s]) /\ y \in Bytes
  BY <1>0, <1>10, Together DEF In, Held
<1>14. IF v.close \/ next.is = "not yet"
       THEN pump' = "to_backend" /\ current' = << >> /\ UNCHANGED buf
       ELSE /\ pump' = IF next.is = "frame" THEN s ELSE "failed"
            /\ current' = next.frame
            /\ buf' = IF next.is = "frame" THEN [buf EXCEPT ![s] = next.rest] ELSE buf
  BY <1>1 DEF DrainsOn
<1> HIDE DEF next, y
<1>15. /\ unsent' \in [Sides -> Bytes] /\ inbound' \in [Sides -> Bytes] /\ eof' \in [Sides -> BOOLEAN]
       /\ outbound' \in [Sides -> Bytes] /\ got' \in [Sides -> Bytes]
       /\ arrived' \in [Sides -> Seq(Messages)] /\ sent' \in [Sides -> Seq(Frames)]
       /\ handled' \in [Sides -> Seq(Frames)] /\ emitted' \in [Sides -> Seq(Messages)]
       /\ batch' \in [Sides -> Bytes] /\ close' \in BOOLEAN
  BY <1>0, <1>2, <1>3, <1>5, <1>6, <1>7, <1>10 DEF TypeOK, Messages
<1>16. CASE next.is = "frame" /\ ~ v.close
  <2> DEFINE f == next.frame
  <2>1. pump' = s /\ current' = f /\ buf' = [buf EXCEPT ![s] = next.rest]
    BY <1>14, <1>16
  <2>2. buf'[s] = next.rest /\ \A t \in Sides : t # s => buf'[t] = buf[t]
    BY <1>0, <2>1 DEF TypeOK
  <2>3. f \in Frames
        /\ Waits(sent[s], (handled[s] \o << current >>) \o << f >>, next.rest \o y, unsent[s], eof[s])
    <3> DEFINE x == buf[s]
               said == sent[s]
               seen == handled[s] \o << current >>
               unwritten == unsent[s]
               ended == eof[s]
               left == next.rest
    <3>1. /\ seen \in Seq(Frames) /\ x \in Bytes /\ y \in Bytes
          /\ Waits(said, seen, x \o y, unwritten, ended)
          /\ TryTakeMessage(x) = Taken(f, left)
      BY <1>10, <1>12, <1>13, <1>16 DEF next
    <3> HIDE DEF f, x, said, seen, unwritten, ended, left
    <3>2. f \in Frames /\ Waits(said, seen \o << f >>, left \o y, unwritten, ended)
      BY <3>1, WaitsForNext
    <3> QED BY <3>2 DEF said, seen, unwritten, ended, left
  <2> HIDE DEF f
  <2>4. TypeOK'
    <3>1. buf' \in [Sides -> Bytes] /\ f \in Bytes
      BY <1>0, <1>12, <2>1 DEF TypeOK, f
    <3> QED BY <1>15, <2>1, <3>1 DEF TypeOK, Sides, Messages
  <2>5. In(s)'
    <3>1. Held(s)' = << f >>
      BY <2>1 DEF Held
    <3> QED BY <1>2, <1>11, <2>2, <2>3, <3>1 DEF In, y
  <2>6. \A t \in Sides : In(t)'
    <3>1. ASSUME NEW t \in Sides, t # s PROVE In(t)'
      <4>1. Held(t)' = Held(t)
        BY <1>0, <2>1, <3>1 DEF Held
      <4> QED BY <1>2, <1>11, <2>2, <3>1, <4>1, InStays DEF IInv
    <3> QED BY <2>5, <3>1
  <2>7. Drained'
    <3>1. Other(s) # s /\ Other(s) \in Sides
      BY DEF Sides, Other
    <3>2. Short(Other(s))'
      BY <1>0, <2>2, <3>1 DEF Short
    <3> QED BY <1>3, <1>16, <2>1, <2>3, <3>2 DEF Drained, Sides
  <2> QED BY <1>9, <2>4, <2>6, <2>7 DEF IInv
<1>17. CASE ~ (next.is = "frame" /\ ~ v.close)
  <2>1. /\ pump' \in {"to_backend", "failed"} /\ buf' = buf /\ current' \in Bytes
        /\ pump' = "to_backend" => v.close \/ next.is = "not yet"
    BY <1>12, <1>14, <1>17, Together
  <2>2. TypeOK'
    BY <1>0, <1>15, <2>1 DEF TypeOK, Messages
  <2>3. \A t \in Sides : Held(t)' = << >>
    BY <2>1 DEF Held, Sides
  <2>4. In(s)'
    <3>1. (handled[s] \o << current >>) \o << >> = handled[s] \o << current >>
      BY <1>10, InARow
    <3> QED BY <1>2, <1>11, <1>13, <2>1, <2>3, <3>1 DEF In, y
  <2>5. \A t \in Sides : In(t)'
    <3>1. ASSUME NEW t \in Sides, t # s PROVE In(t)'
      <4>1. Held(t)' = Held(t)
        BY <1>0, <2>3, <3>1 DEF Held
      <4> QED BY <1>2, <1>11, <2>1, <3>1, <4>1, InStays DEF IInv
    <3> QED BY <2>4, <3>1
  <2>6. Drained'
    <3>1. \A t \in Sides : t = s \/ t = Other(s)
      BY DEF Sides, Other
    <3>2. ~ close' /\ pump' = "to_backend" => \A t \in Sides : Short(t)'
      BY <1>0, <1>3, <2>1, <3>1 DEF Short, next
    <3> QED BY <1>3, <2>1, <3>2 DEF Drained, Sides
  <2> QED BY <1>9, <2>2, <2>5, <2>6 DEF IInv
<1> QED BY <1>16, <1>17

-----------------------------------------------------------------------------
(* The invariant and the conduit.                                           *)

\* The invariant holds before the first byte.
LEMMA IInvAtFirst == Init => IInv
<1> SUFFICES ASSUME Init PROVE IInv
  OBVIOUS
<1>1. << >> \in Bytes /\ << >> \in Seq(Frames) /\ << >> \in Seq(Messages)
  BY Together, InARow
<1>2. TypeOK
  BY <1>1 DEF Init, TypeOK, Messages
<1>3. << >> \o << >> = << >>
  BY <1>1, Together
<1>4. TryTakeMessage(<< >>).is = "not yet"
  <2>1. << >> \in Bytes /\ ~ HasHeader(<< >>)
    BY FramingAssumption DEF Bytes, HasHeader
  <2>2. TryTakeMessage(<< >>) = NotYet
    BY <2>1, TakingCases
  <2> QED BY <2>2, OutcomesDiffer
<1>5. \A s \in Sides : In(s) /\ Out(s)
  <2> TAKE s \in Sides
  <2>1. /\ sent[s] = << >> /\ handled[s] = << >> /\ Held(s) = << >>
        /\ buf[s] = << >> /\ inbound[s] = << >> /\ unsent[s] = << >>
        /\ emitted[s] = << >> /\ arrived[s] = << >>
        /\ got[s] = << >> /\ outbound[s] = << >> /\ batch[s] = << >>
    BY DEF Init, Held, Sides
  <2>2. Waits(<< >>, << >>, << >>, << >>, eof[s])
    BY <1>1, <1>3, NothingIsNoBytes DEF Waits
  <2>3. Due(<< >>, << >>, << >>)
    BY <1>1, <1>3, NothingIsNoBytes DEF Due
  <2> QED BY <1>3, <2>1, <2>2, <2>3 DEF In, Out
<1>6. Drained
  BY <1>4 DEF Init, Drained, Short, Sides
<1> QED BY <1>2, <1>5, <1>6 DEF IInv

\* Every step of the pump and of a peer keeps the invariant.
LEMMA IInvIsInductive == IInv /\ [Next]_vars => IInv'
<1> SUFFICES ASSUME IInv, [Next]_vars PROVE IInv'
  OBVIOUS
<1>1. CASE Written
  BY <1>1, WrittenKeeps
<1>2. ASSUME NEW s \in Sides, Peer(s) PROVE IInv'
  <2>1. CASE PeerSends(s)
    BY <2>1, PeerSendsKeeps
  <2>2. CASE PeerSendsGarbage(s)
    BY <2>2, PeerSendsGarbageKeeps
  <2>3. CASE PeerWrites(s)
    BY <2>3, PeerWritesKeeps
  <2>4. CASE PeerReads(s)
    BY <2>4, PeerReadsKeeps
  <2>5. CASE PeerTakes(s)
    BY <2>5, PeerTakesKeeps
  <2>6. CASE PeerHangsUp(s)
    BY <2>6, PeerHangsUpKeeps
  <2> QED BY <1>2, <2>1, <2>2, <2>3, <2>4, <2>5, <2>6 DEF Peer
<1>3. ASSUME NEW s \in Sides, Pump(s) PROVE IInv'
  <2>1. CASE Selects(s)
    BY <2>1, SelectsKeeps
  <2>2. CASE SelectsEof(s)
    BY <2>2, SelectsEofKeeps
  <2>3. CASE Handles(s)
    BY <2>3, HandlesKeeps
  <2>4. CASE Writes(s)
    BY <2>4, WritesKeeps
  <2>5. CASE WriteFails(s)
    BY <2>5, WriteFailsKeeps
  <2> QED BY <1>3, <2>1, <2>2, <2>3, <2>4, <2>5 DEF Pump
<1>4. CASE UNCHANGED vars
  <2>1. \A t \in Sides : Held(t)' = Held(t)
    BY <1>4 DEF vars, Held
  <2>2. TypeOK'
    BY <1>4 DEF IInv, TypeOK, vars, peers, ghosts
  <2>3. \A t \in Sides : In(t)' /\ Out(t)'
    BY <1>4, <2>1, InStays, OutStays DEF IInv, vars, peers, ghosts
  <2>4. Drained'
    BY <1>4 DEF IInv, Drained, Short, vars
  <2> QED BY <2>2, <2>3, <2>4 DEF IInv
<1> QED BY <1>1, <1>2, <1>3, <1>4 DEF Next

\* The bytes on their way are always the frames still to come.
THEOREM Invariant == Spec => []IInv
  BY IInvAtFirst, IInvIsInductive, PTL DEF Spec

\* For every script, every refusal and every way the bytes are cut into chunks:
\* only whole frames that a peer sent reach a handler, only whole frames that a
\* handler emitted reach a peer, and at a select no buffer holds a frame.
THEOREM NothingIsLeftWaiting == Spec => []NothingWaitsWhole
<1>1. IInv => NothingWaitsWhole
  BY DEF IInv, Drained, Short, NothingWaitsWhole
<1> QED BY <1>1, Invariant, PTL

\* The handler's step is the conduit's: the next message, handled once.
LEMMA HandlesRefines ==
    ASSUME IInv, NEW s \in Sides, Handles(s)
    PROVE  Pumps!Handle(s)
<1>0. TypeOK /\ In(s) /\ pump = s /\ ~ close /\ current \in Frames
  BY DEF IInv, Drained, Handles, Sides
<1>1. PICK v \in Verdicts(s, current) :
        /\ emitted' = [emitted EXCEPT ![v.to] = @ \o v.frames]
        /\ DrainsOn(s, v.close)
  BY DEF Handles
<1>2. /\ UNCHANGED << arrived, sent >>
      /\ handled' = [handled EXCEPT ![s] = Append(handled[s], current)]
  BY DEF Handles
<1>3. PICK rest \in Seq(Frames) : sent[s] = (handled[s] \o << current >>) \o rest
  BY <1>0 DEF In, Held, Waits
<1>4. handled[s] \in Seq(Frames) /\ sent[s] \in Seq(Frames)
  BY <1>0, TypesOfASide
<1>5. Len(handled[s]) < Len(sent[s]) /\ sent[s][Len(handled[s]) + 1] = current
  <2>1. << current >> \in Seq(Frames) /\ Len(<< current >>) = 1
    BY <1>0
  <2> DEFINE front == handled[s] \o << current >>
             n == Len(handled[s]) + 1
  <2>2. front \in Seq(Frames) /\ Len(front) = n /\ front[n] = current /\ n \in Nat \ {0}
    BY <1>0, <1>4
  <2> HIDE DEF front
  <2>3. sent[s] = front \o rest
    BY <1>3 DEF front
  <2> HIDE DEF n
  <2>4. Len(sent[s]) >= n /\ sent[s][n] = current
    BY <1>3, <2>2, <2>3
  <2> QED BY <1>4, <2>4 DEF n
<1>6. handled' = [handled EXCEPT ![s] = Append(@, sent[s][Len(@) + 1])]
  BY <1>2, <1>5
<1>7. \E t \in Sides, n \in 0 .. Len(Refusal) : \E answer \in [1 .. n -> Messages] :
        emitted' = [emitted EXCEPT ![t] = @ \o answer]
  <2>1. v.to \in Sides /\ v.frames \in Seq(Messages) /\ Len(v.frames) <= Len(Refusal)
    BY <1>0, VerdictsAreMessages
  <2>2. Len(v.frames) \in 0 .. Len(Refusal) /\ v.frames \in [1 .. Len(v.frames) -> Messages]
    <3>1. Len(Refusal) \in Nat
      BY RelayAssumption
    <3> QED BY <2>1, <3>1
  <2> QED BY <1>1, <2>1, <2>2
<1>8. ~ (close \/ Over)
  BY <1>0 DEF Over, Sides
<1>9. (~ (close' \/ Over'))  \in BOOLEAN
  OBVIOUS
<1> QED BY <1>2, <1>5, <1>6, <1>7, <1>8, <1>9 DEF Pumps!Handle, Messages

\* A peer that takes a frame receives the next message of the conduit.
LEMMA PeerTakesRefines ==
    ASSUME IInv, NEW s \in Sides, PeerTakes(s)
    PROVE  Pumps!Arrive(s)
<1> DEFINE f == TryTakeMessage(got[s]).frame
           n == Len(arrived[s]) + 1
<1>1. /\ f \in Messages
      /\ arrived' = [arrived EXCEPT ![s] = arrived[s] \o << f >>]
  BY PeerTakesKeeps
<1>2. PICK rest \in Seq(Messages) : emitted[s] = (arrived[s] \o << f >>) \o rest
  BY PeerTakesKeeps
<1> HIDE DEF f
<1>3. arrived[s] \in Seq(Messages) /\ emitted[s] \in Seq(Messages)
  BY TypesOfASide DEF IInv
<1>4. n \in Len(arrived[s]) + 1 .. Len(emitted[s]) /\ arrived[s] \o << f >> = SubSeq(emitted[s], 1, n)
  <2> DEFINE front == arrived[s] \o << f >>
  <2>1. front \in Seq(Messages) /\ Len(front) = n /\ n \in Nat \ {0}
    BY <1>1, <1>3
  <2> HIDE DEF n, front
  <2>2. emitted[s] = front \o rest
    BY <1>2 DEF front
  <2>3. n <= Len(emitted[s]) /\ Len(emitted[s]) \in Nat
    BY <1>2, <2>1, <2>2
  <2>4. SubSeq(emitted[s], 1, n) = front
    <3>1. 1 \in 1 .. Len(front) /\ n \in 1 .. Len(front)
      BY <2>1
    <3>2. SubSeq(front \o rest, 1, n) = SubSeq(front, 1, n)
      BY <1>2, <2>1, <3>1, SubSeqOfConcat1
    <3>3. SubSeq(front, 1, n) = front
      BY <2>1, SubSeqFull
    <3> QED BY <2>2, <3>2, <3>3
  <2> QED BY <1>3, <2>1, <2>3, <2>4 DEF n, front
<1>5. UNCHANGED << sent, handled, emitted, pump, close >>
  BY DEF PeerTakes, ghosts
<1> HIDE DEF n
<1> QED BY <1>1, <1>4, <1>5 DEF Pumps!Arrive, Over

\* The conduit's view of a step that ends the connection or leaves it alone.
LEMMA EndsOrStutters ==
    ASSUME UNCHANGED << sent, handled, emitted, arrived >>, (close \/ Over) => (close' \/ Over')
    PROVE  [Pumps!Next]_(Pumps!vars)
<1>1. CASE (close \/ Over) = (close' \/ Over')
  BY <1>1 DEF Pumps!vars
<1>2. CASE ~ (close \/ Over) /\ (close' \/ Over')
  BY <1>2 DEF Pumps!Next, Pumps!End
<1> QED BY <1>1, <1>2

\* Every step of the pump or of a peer is a step of the conduit, or none.
LEMMA StepsRefine == IInv /\ [Next]_vars => [Pumps!Next]_(Pumps!vars)
<1> SUFFICES ASSUME IInv, [Next]_vars PROVE [Pumps!Next]_(Pumps!vars)
  OBVIOUS
<1>0. TypeOK
  BY DEF IInv
<1>1. CASE Written
  <2>1. UNCHANGED << sent, handled, emitted, arrived >> /\ close' = close
    BY <1>1 DEF Written, ghosts
  <2>2. close \/ Over => close' \/ Over'
    BY <1>1, <2>1 DEF Written, Over
  <2> QED BY <2>1, <2>2, EndsOrStutters
<1>2. ASSUME NEW s \in Sides, Peer(s) PROVE [Pumps!Next]_(Pumps!vars)
  <2>1. CASE PeerSends(s)
    <3> DEFINE f == Scripts[s][Len(sent[s]) + 1]
    <3>1. f \in Messages
      <4>1. Scripts[s] \in Seq(Bytes) /\ Len(sent[s]) \in Nat /\ Len(sent[s]) < Len(Scripts[s])
        BY <1>0, <2>1, TypesOfASide, RelayAssumption DEF PeerSends, MaySend, Bytes
      <4>2. Len(sent[s]) + 1 \in DOMAIN Scripts[s]
        BY <4>1
      <4>3. f \in ToSet(Scripts[s])
        BY <4>2 DEF ToSet
      <4> QED BY <4>3 DEF Frames, Messages
    <3>2. /\ sent' = [sent EXCEPT ![s] = Append(@, f)]
          /\ UNCHANGED << handled, emitted, arrived, pump, close >>
      BY <2>1 DEF PeerSends
    <3> HIDE DEF f
    <3>3. Pumps!Send(s)
      BY <3>1, <3>2 DEF Pumps!Send, Over, Messages
    <3> QED BY <3>3 DEF Pumps!Next
  <2>2. CASE PeerTakes(s)
    BY <2>2, PeerTakesRefines DEF Pumps!Next
  <2>3. CASE PeerSendsGarbage(s) \/ PeerWrites(s) \/ PeerReads(s) \/ PeerHangsUp(s)
    <3>1. UNCHANGED << sent, handled, emitted, arrived, pump, close >>
      BY <1>0, <2>3
         DEF PeerSendsGarbage, PeerWrites, PeerReads, PeerHangsUp, ghosts, TypeOK
    <3> QED BY <3>1, EndsOrStutters DEF Over
  <2> QED BY <1>2, <2>1, <2>2, <2>3 DEF Peer
<1>3. ASSUME NEW s \in Sides, Pump(s) PROVE [Pumps!Next]_(Pumps!vars)
  <2>1. CASE Handles(s)
    BY <2>1, HandlesRefines DEF Pumps!Next
  <2>2. CASE Selects(s) \/ SelectsEof(s) \/ Writes(s) \/ WriteFails(s)
    <3>1. UNCHANGED << sent, handled, emitted, arrived, close >>
      BY <2>2 DEF Selects, SelectsEof, Writes, WriteFails, ghosts
    <3>2. Over => Over'
      BY <2>2 DEF Selects, SelectsEof, Writes, WriteFails, Over
    <3> QED BY <3>1, <3>2, EndsOrStutters
  <2> QED BY <1>3, <2>1, <2>2 DEF Pump
<1>4. CASE UNCHANGED vars
  BY <1>4, EndsOrStutters DEF vars, ghosts, Over
<1> QED BY <1>1, <1>2, <1>3, <1>4 DEF Next

\* However the bytes are cut and wherever the connection breaks, the pump does
\* what the conduit allows, for every script and every refusal.
THEOREM PumpsAsAConduit == Spec => RefinesConduit
<1>1. Init => Pumps!Init
  BY DEF Init, Pumps!Init, Over
<1>2. IInv /\ [Next]_vars => [Pumps!Next]_(Pumps!vars)
  BY StepsRefine
<1> QED BY <1>1, <1>2, Invariant, PTL DEF Spec, RefinesConduit, Pumps!Spec
=============================================================================
