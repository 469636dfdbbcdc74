------------------------- MODULE FeedClient_proofs -------------------------
(***************************************************************************)
(* The feed client, proved: the frames are faithful, the pongs echo the    *)
(* pings, the orders sent are those of the ticks, and a replay is faithful *)
(* to what was read.  The first part reads frames off bytes and back, the  *)
(* second says what pings, pongs, ticks and orders become when one more    *)
(* frame or tick is handled, and the third is the inductive invariant,     *)
(* FeedInv, one conjunct after the other.  The last part is about the      *)
(* normaliser: prices and the calendar.                                    *)
(***************************************************************************)
EXTENDS FeedClient, DataLemmas

-----------------------------------------------------------------------------
(* Frames as bytes *)

\* The byte that announces a length of n, with d digits to follow.
Code(n, d) == CASE d = 0 -> n [] d = Mid -> Mark [] OTHER -> Mark + 1

\* Digit k of d of a length of n.
Digit(n, d, k) == (n \div Power(Base, d - k)) % Base

\* The lengths that can be written.
Writable == 0 .. Power(Base, Wide) - 1

\* How many digits there are, and that they are enough.
LEMMA DigitsEnough ==
  ASSUME NEW n \in Writable
  PROVE  /\ n \in Nat /\ Digits(n) \in Nat /\ Digits(n) \in {0, Mid, Wide}
         /\ Digits(n) = 0 <=> n < Mark
         /\ Digits(n) # 0 => n \in 0 .. Power(Base, Digits(n)) - 1
<1>1. Base \in Nat \ {0} /\ Mark \in Nat \ {0} /\ Mid \in Nat \ {0} /\ Wide \in Nat \ {0}
  BY BaseAssumption, WireAssumption
<1>2. Power(Base, Mid) \in Nat /\ Power(Base, Wide) \in Nat
  BY <1>1, PowerStep
<1>3. n \in 0 .. Power(Base, Wide) - 1
  BY DEF Writable
<1>4. QED
  BY <1>1, <1>2, <1>3 DEF Digits

\* The announcing byte is read back.
LEMMA CodeRead ==
  ASSUME NEW n \in Writable, NEW masked
  PROVE  LET b1 == <<"len", masked, Code(n, Digits(n))>>
         IN  /\ Extended(b1) = Digits(n) /\ b1[2] = masked
             /\ Digits(n) = 0 => b1[3] = n
             /\ Code(n, Digits(n)) \in Nat
<1>1. Mark \in Nat \ {0} /\ Mid \in Nat \ {0} /\ Wide \in Nat \ {0} /\ Mid < Wide
  BY WireAssumption
<1>2. /\ n \in Nat /\ Digits(n) \in {0, Mid, Wide}
      /\ Digits(n) = 0 <=> n < Mark
  BY DigitsEnough
<1>3. Code(n, Digits(n)) = IF Digits(n) = 0 THEN n
                           ELSE IF Digits(n) = Mid THEN Mark ELSE Mark + 1
  <2>1. CASE Digits(n) = 0
    BY <2>1, <1>1, Zenon DEF Code
  <2>2. CASE Digits(n) = Mid /\ Digits(n) # 0
    BY <2>2, <1>1, Zenon DEF Code
  <2>3. CASE Digits(n) # Mid /\ Digits(n) # 0
    BY <2>3, <1>1, Zenon DEF Code
  <2>4. QED
    BY <2>1, <2>2, <2>3, Zenon
<1>4. PICK d, c : d = Digits(n) /\ c = Code(n, Digits(n))
  OBVIOUS
<1>5. <<"len", masked, c>>[2] = masked /\ <<"len", masked, c>>[3] = c
  OBVIOUS
<1>6. Extended(<<"len", masked, c>>)
        = IF c = Mark THEN Mid ELSE IF c = Mark + 1 THEN Wide ELSE 0
  BY <1>5 DEF Extended
<1>7. c \in Nat /\ Extended(<<"len", masked, c>>) = d /\ (d = 0 => c = n)
  BY <1>1, <1>2, <1>3, <1>4, <1>6
<1>8. QED
  BY <1>4, <1>5, <1>7

\* A digit is a number.
LEMMA DigitNat ==
  ASSUME NEW n \in Nat, NEW d \in Nat, NEW k \in 1 .. d
  PROVE  Digit(n, d, k) \in Nat
<1>1. PICK b \in Nat \ {0} : b = Base
  BY BaseAssumption
<1>2. d - k \in Nat
  OBVIOUS
<1>3. PICK P \in Nat \ {0} : P = Power(b, d - k)
  BY <1>2, PowerStep
<1>4. PICK q \in Int : q = n \div P
  BY DivMod
<1>5. q % b \in Nat
  BY DivMod
<1>6. Digit(n, d, k) = q % b
  BY <1>1, <1>3, <1>4, Zenon DEF Digit
<1>7. QED
  BY <1>5, <1>6

\* A set of bytes that holds those of the headers.
HeaderBytes(S, op, masked) ==
  /\ <<"op", op>> \in S /\ <<"mask">> \in S
  /\ \A n \in Nat : <<"len", masked, n>> \in S /\ <<"digit", n>> \in S

\* r begins like a frame with this opcode and length, as far as it goes.
Heads(r, op, masked, n) ==
  /\ Len(r) >= 1 => r[1] = <<"op", op>>
  /\ Len(r) >= 2 => r[2] = <<"len", masked, Code(n, Digits(n))>>
  /\ \A k \in 1 .. Digits(n) :
       Len(r) >= 2 + k => r[2 + k] = <<"digit", Digit(n, Digits(n), k)>>

\* The length of a header.
HeadLen(masked, n) == 2 + Digits(n) + IF masked THEN MaskLen ELSE 0

\* F is a header with this opcode and the length of p, followed by p.
IsFrame(F, S, op, masked, p) ==
  LET h == HeadLen(masked, Len(p))
  IN  /\ F \in Seq(S) /\ Len(F) = h + Len(p) /\ h \in Nat /\ h >= 2
      /\ Heads(F, op, masked, Len(p))
      /\ \A k \in 1 .. Len(p) : F[h + k] = p[k]

\* A frame is its header and its payload.
LEMMA FramedBytes ==
  ASSUME NEW S, NEW op, NEW masked \in BOOLEAN, HeaderBytes(S, op, masked),
         NEW p \in Seq(S), Len(p) \in Writable
  PROVE  IsFrame(Framed(op, masked, p), S, op, masked, p)
<1> DEFINE n == Len(p)
           d == Digits(n)
           a == <<<<"op", op>>>>
           b == <<<<"len", masked, Code(n, d)>>>>
           e == [k \in 1 .. d |-> <<"digit", Digit(n, d, k)>>]
           m == IF masked THEN Mask ELSE <<>>
           M == IF masked THEN MaskLen ELSE 0
<1>1. n \in Nat /\ d \in Nat /\ Code(n, d) \in Nat /\ MaskLen \in Nat /\ M \in Nat
  <2>1. n \in Nat /\ d \in Nat
    BY DigitsEnough
  <2>2. Code(n, d) \in Nat
    BY CodeRead
  <2>3. QED
    BY <2>1, <2>2, WireAssumption
<1>2. a \in Seq(S) /\ Len(a) = 1 /\ a[1] = <<"op", op>>
  BY DEF HeaderBytes
<1>3. b \in Seq(S) /\ Len(b) = 1 /\ b[1] = <<"len", masked, Code(n, d)>>
  <2>1. PICK x \in S : x = <<"len", masked, Code(n, d)>>
    BY <1>1, Zenon DEF HeaderBytes
  <2>2. <<x>> \in Seq(S) /\ Len(<<x>>) = 1 /\ <<x>>[1] = x
    OBVIOUS
  <2>3. QED
    BY <2>1, <2>2, Zenon
<1>4. /\ e \in Seq(S) /\ Len(e) = d
      /\ \A k \in 1 .. d : e[k] = <<"digit", Digit(n, d, k)>>
  <2>1. ASSUME NEW k \in 1 .. d PROVE Digit(n, d, k) \in Nat
    BY <1>1, DigitNat
  <2>2. \A k \in 1 .. d : <<"digit", Digit(n, d, k)>> \in S
    BY <2>1 DEF HeaderBytes
  <2> HIDE DEF d
  <2>3. e \in [1 .. d -> S] /\ \A k \in 1 .. d : e[k] = <<"digit", Digit(n, d, k)>>
    BY <2>2, Zenon
  <2> HIDE DEF e
  <2>4. QED
    BY <1>1, <2>3, FunctionSeq
<1>5. m \in Seq(S) /\ Len(m) = M
  <2>1. CASE masked
    <3>1. m = [k \in 1 .. MaskLen |-> <<"mask">>]
      BY <2>1 DEF Mask
    <3>2. m \in [1 .. MaskLen -> S]
      BY <3>1, Zenon DEF HeaderBytes
    <3> HIDE DEF m
    <3>3. QED
      BY <1>1, <2>1, <3>2, FunctionSeq
  <2>2. CASE ~masked
    BY <2>2, EmptySeq
  <2>3. QED
    BY <2>1, <2>2
<1>6. Framed(op, masked, p) = a \o (b \o e) \o m \o p
  BY DEF Framed, Length, Code, Digit
<1> HIDE DEF a, b, e, m, d, n
<1> DEFINE f1 == b \o e
           f2 == a \o f1
           f3 == f2 \o m
           F == f3 \o p
<1>7. /\ f1 \in Seq(S) /\ Len(f1) = 1 + d
      /\ f1[1] = b[1] /\ \A k \in 1 .. d : f1[1 + k] = e[k]
  <2>1. /\ f1 \in Seq(S) /\ Len(f1) = Len(b) + Len(e)
        /\ \A i \in 1 .. Len(b) + Len(e) :
             f1[i] = IF i <= Len(b) THEN b[i] ELSE e[i - Len(b)]
    BY <1>3, <1>4, ConcatProperties
  <2> HIDE DEF f1
  <2>2. QED
    BY <1>1, <1>3, <1>4, <2>1
<1> HIDE DEF f1
<1>8. /\ f2 \in Seq(S) /\ Len(f2) = 2 + d
      /\ f2[1] = a[1] /\ f2[2] = b[1] /\ \A k \in 1 .. d : f2[2 + k] = e[k]
  <2>1. /\ f2 \in Seq(S) /\ Len(f2) = Len(a) + Len(f1)
        /\ \A i \in 1 .. Len(a) + Len(f1) :
             f2[i] = IF i <= Len(a) THEN a[i] ELSE f1[i - Len(a)]
    BY <1>2, <1>7, ConcatProperties
  <2> HIDE DEF f2
  <2>2. \A i \in 1 .. 1 + d : f2[1 + i] = f1[i]
    BY <1>1, <1>2, <1>7, <2>1
  <2>3. f2[1] = a[1] /\ Len(f2) = 2 + d
    BY <1>1, <1>2, <1>7, <2>1
  <2>4. f2[2] = b[1]
    <3>1. 1 \in 1 .. 1 + d /\ 1 + 1 = 2
      BY <1>1
    <3>2. QED
      BY <1>7, <2>2, <3>1
  <2>5. ASSUME NEW k \in 1 .. d PROVE f2[2 + k] = e[k]
    <3>1. 1 + k \in 1 .. 1 + d /\ 1 + (1 + k) = 2 + k
      BY <1>1
    <3>2. QED
      BY <1>7, <2>2, <3>1
  <2>6. QED
    BY <2>1, <2>3, <2>4, <2>5
<1> HIDE DEF f2
<1>9. /\ f3 \in Seq(S) /\ Len(f3) = 2 + d + M
      /\ \A i \in 1 .. 2 + d : f3[i] = f2[i]
  <2>1. /\ f3 \in Seq(S) /\ Len(f3) = Len(f2) + Len(m)
        /\ \A i \in 1 .. Len(f2) + Len(m) :
             f3[i] = IF i <= Len(f2) THEN f2[i] ELSE m[i - Len(f2)]
    BY <1>5, <1>8, ConcatProperties
  <2> HIDE DEF f3, M
  <2>2. QED
    BY <1>1, <1>5, <1>8, <2>1
<1> HIDE DEF f3
<1>10. /\ F \in Seq(S) /\ Len(F) = 2 + d + M + n
       /\ \A i \in 1 .. 2 + d : F[i] = f2[i]
       /\ \A k \in 1 .. n : F[2 + d + M + k] = p[k]
  <2>1. /\ F \in Seq(S) /\ Len(F) = Len(f3) + Len(p)
        /\ \A i \in 1 .. Len(f3) + Len(p) :
             F[i] = IF i <= Len(f3) THEN f3[i] ELSE p[i - Len(f3)]
    BY <1>9, ConcatProperties
  <2> HIDE DEF F, M
  <2>2. QED
    BY <1>1, <1>9, <2>1 DEF n
<1>11. HeadLen(masked, n) = 2 + d + M
  BY DEF HeadLen, d
<1>12. Framed(op, masked, p) = F
  BY <1>6 DEF F, f1, f2, f3
<1> HIDE DEF F, M
<1>13. Heads(F, op, masked, n)
  <2>1. F[1] = <<"op", op>> /\ F[2] = <<"len", masked, Code(n, d)>>
    <3>1. 1 \in 1 .. 2 + d /\ 2 \in 1 .. 2 + d
      BY <1>1
    <3>2. QED
      BY <1>2, <1>3, <1>8, <1>10, <3>1
  <2>2. ASSUME NEW k \in 1 .. d PROVE F[2 + k] = <<"digit", Digit(n, d, k)>>
    <3>1. 2 + k \in 1 .. 2 + d
      BY <1>1
    <3>2. F[2 + k] = f2[2 + k]
      BY <1>10, <3>1
    <3>3. f2[2 + k] = e[k] /\ e[k] = <<"digit", Digit(n, d, k)>>
      BY <1>4, <1>8
    <3>4. QED
      BY <3>2, <3>3
  <2>3. QED
    BY <2>1, <2>2, Zenon DEF Heads, d
<1>14. QED
  BY <1>1, <1>10, <1>11, <1>12, <1>13 DEF n, IsFrame

\* Once the length has come, the header is that of the frame.
LEMMA HeaderOf ==
  ASSUME NEW r, NEW op, NEW masked \in BOOLEAN, NEW n \in Writable,
         Heads(r, op, masked, n), Len(r) \in Nat, Len(r) >= 2 + Digits(n)
  PROVE  Header(r) = [hdr |-> HeadLen(masked, n), end |-> HeadLen(masked, n) + n]
<1>0. n \in Nat /\ Digits(n) \in Nat
      /\ (Digits(n) # 0 => n \in 0 .. Power(Base, Digits(n)) - 1)
  BY DigitsEnough
<1>1. PICK d \in Nat : d = Digits(n)
  BY <1>0
<1>2. r[2] = <<"len", masked, Code(n, d)>>
  <2>1. Len(r) >= 2
    BY <1>0
  <2>2. QED
    BY <1>1, <2>1, Zenon DEF Heads
<1>3. Extended(r[2]) = d /\ r[2][2] = masked /\ (d = 0 => r[2][3] = n)
  BY <1>1, <1>2, CodeRead
<1> DEFINE v == [k \in 1 .. d |-> r[2 + k][2]]
<1>4. ASSUME d # 0 PROVE Numeral(v, Base, d) = n
  <2>1. ASSUME NEW k \in 1 .. d
        PROVE  v[k] = (n \div Power(Base, d - k)) % Base
    <3>1. Len(r) >= 2 + k
      BY <1>1
    <3>2. r[2 + k] = <<"digit", Digit(n, d, k)>>
      BY <1>1, <3>1, Zenon DEF Heads
    <3>3. v[k] = Digit(n, d, k)
      BY <3>2
    <3>4. QED
      BY <3>3, Zenon DEF Digit
  <2> HIDE DEF v
  <2>2. Base \in Nat \ {0}
    BY BaseAssumption
  <2>3. n \in 0 .. Power(Base, d) - 1
    BY <1>0, <1>1, <1>4
  <2>4. QED
    BY <2>1, <2>2, <2>3, DigitsMakeUp
<1> DEFINE len == IF d = 0 THEN r[2][3] ELSE Numeral(v, Base, d)
           hdr == 2 + d + IF masked THEN MaskLen ELSE 0
<1>5. len = n
  BY <1>3, <1>4, Zenon
<1>6. hdr = HeadLen(masked, n)
  BY <1>1, Zenon DEF HeadLen
<1>7. Header(r) = [hdr |-> hdr, end |-> hdr + len]
  BY <1>3, Zenon DEF Header
<1> HIDE DEF len, hdr
<1>8. QED
  BY <1>5, <1>6, <1>7, Zenon

\* When the bytes that read_exact asks for are there, so is the frame.
LEMMA FrameComplete ==
  ASSUME NEW r, NEW op, NEW masked \in BOOLEAN, NEW n \in Writable,
         Heads(r, op, masked, n), Len(r) \in Nat, Len(r) >= Needed(r)
  PROVE  /\ Len(r) >= HeadLen(masked, n) + n /\ r[1] = <<"op", op>>
         /\ Header(r) = [hdr |-> HeadLen(masked, n), end |-> HeadLen(masked, n) + n]
<1>0. Digits(n) \in Nat
  BY DigitsEnough
<1>1. Len(r) >= 2
  BY DEF Needed
<1>2. r[1] = <<"op", op>> /\ r[2] = <<"len", masked, Code(n, Digits(n))>>
  BY <1>1 DEF Heads
<1>3. Extended(r[2]) = Digits(n)
  BY <1>2, CodeRead
<1>4. Len(r) >= 2 + Digits(n)
  BY <1>0, <1>1, <1>3 DEF Needed
<1>5. Header(r) = [hdr |-> HeadLen(masked, n), end |-> HeadLen(masked, n) + n]
  BY <1>4, HeaderOf
<1>6. Needed(r) = Header(r).end
  BY <1>0, <1>1, <1>3, <1>4 DEF Needed
<1>7. QED
  BY <1>2, <1>5, <1>6

\* The server reads a frame of the client as it was meant.
LEMMA DecodeEncode ==
  ASSUME NEW op, NEW S, NEW p \in Seq(S), Len(p) \in Writable
  PROVE  Decoded(ClientFrame(op, p)) = [op |-> op, payload |-> p]
<1> DEFINE T == {Masked(p)[k] : k \in 1 .. Len(p)} \cup {<<"op", op>>, <<"mask">>}
                  \cup {<<"len", TRUE, n>> : n \in Nat} \cup {<<"digit", n>> : n \in Nat}
           q == Masked(p)
           N == Len(p)
           F == Framed(op, TRUE, q)
           H == HeadLen(TRUE, N)
<1>1. HeaderBytes(T, op, TRUE)
  <2>1. <<"op", op>> \in T /\ <<"mask">> \in T
    BY Zenon
  <2>2. ASSUME NEW n \in Nat PROVE <<"len", TRUE, n>> \in T
    BY Zenon
  <2>3. ASSUME NEW n \in Nat PROVE <<"digit", n>> \in T
    BY Zenon
  <2>4. QED
    BY <2>1, <2>2, <2>3, Zenon DEF HeaderBytes
<1>2. N \in Nat /\ DOMAIN p = 1 .. N /\ \A k \in 1 .. N : p[k] \in S
  BY LenProperties, ElementOfSeq
<1>3. MaskLen \in Nat \ {0}
  BY WireAssumption
<1>4. /\ q \in [1 .. N -> T]
      /\ \A k \in 1 .. N : q[k] = <<"xor", (k - 1) % MaskLen, p[k]>>
  <2>1. q = [k \in 1 .. N |-> <<"xor", (k - 1) % MaskLen, p[k]>>]
    BY <1>2, Zenon DEF Masked
  <2>2. \A k \in 1 .. N : q[k] \in T
    BY Zenon
  <2> HIDE DEF q, T
  <2>3. QED
    BY <2>1, <2>2, Zenon
<1> HIDE DEF q, T
<1>5. q \in Seq(T) /\ Len(q) = N
  BY <1>2, <1>4, FunctionSeq
<1>6. Len(q) \in Writable
  BY <1>5
<1>7. /\ F \in Seq(T) /\ Len(F) = H + N /\ H \in Nat /\ H >= 2
      /\ Heads(F, op, TRUE, N)
      /\ \A k \in 1 .. N : F[H + k] = q[k]
  <2>1. TRUE \in BOOLEAN
    OBVIOUS
  <2>2. IsFrame(F, T, op, TRUE, q)
    BY <1>1, <1>5, <1>6, <2>1, FramedBytes, Zenon
  <2>3. QED
    BY <1>5, <2>2, Zenon DEF IsFrame
<1>8. ClientFrame(op, p) = F
  BY Zenon DEF ClientFrame, q
<1> HIDE DEF F
<1>9. Digits(N) \in Nat /\ H = 2 + Digits(N) + MaskLen
  BY DigitsEnough DEF HeadLen
<1> HIDE DEF H
<1>10. Len(F) \in Nat /\ Len(F) >= 2 + Digits(N)
  BY <1>2, <1>3, <1>7, <1>9
<1>11. Header(F) = [hdr |-> H, end |-> H + N]
  BY <1>7, <1>10, HeaderOf DEF H
<1>12. F[1][2] = op
  BY <1>10, <1>9, <1>7 DEF Heads
<1> DEFINE u == [k \in 1 .. Header(F).end - Header(F).hdr |->
                   IF F[Header(F).hdr + k][2] = (k - 1) % MaskLen
                     THEN F[Header(F).hdr + k][3] ELSE <<"garbled">>]
<1>13. u = p
  <2>1. Header(F).hdr = H /\ Header(F).end - Header(F).hdr = N
    BY <1>2, <1>7, <1>11
  <2>2. u = [k \in 1 .. N |-> IF F[H + k][2] = (k - 1) % MaskLen
                              THEN F[H + k][3] ELSE <<"garbled">>]
    BY <2>1, Zenon
  <2>3. ASSUME NEW k \in 1 .. N
        PROVE  (IF F[H + k][2] = (k - 1) % MaskLen
                  THEN F[H + k][3] ELSE <<"garbled">>) = p[k]
    <3>1. F[H + k] = <<"xor", (k - 1) % MaskLen, p[k]>>
      BY <1>4, <1>7
    <3>2. PICK x : x = (k - 1) % MaskLen
      OBVIOUS
    <3>3. F[H + k][2] = x /\ F[H + k][3] = p[k]
      BY <3>1, <3>2
    <3>4. QED
      BY <3>2, <3>3, Zenon
  <2>4. u = [k \in 1 .. N |-> p[k]]
    BY <2>2, <2>3, Zenon
  <2> HIDE DEF u
  <2>5. p = [k \in 1 .. N |-> p[k]]
    BY <1>2
  <2>6. QED
    BY <2>4, <2>5, Zenon
<1>14. Decoded(F) = [op |-> F[1][2], payload |-> u]
  BY Zenon DEF Decoded
<1> HIDE DEF u
<1>15. QED
  BY <1>8, <1>12, <1>13, <1>14, Zenon

\* The bytes of the server.
Byte == ({"http"} \X {"101", "403", "header", "end"})
          \cup ({"op"} \X {"text", "binary", "ping", "pong", "close", "other"})
          \cup ({"len"} \X BOOLEAN \X Nat) \cup ({"digit"} \X Nat) \cup {<<"mask">>}
          \cup ({"data"} \X Nat \X Nat)

\* What a client says in a frame.
Text == {p \in Seq(Byte \cup {<<"auth">>, <<"subscribe">>}) : Len(p) \in Writable}

\* The frames of a client.
Sendable == {ClientFrame(x[1], x[2]) : x \in {"text", "pong", "close"} \X Text}

\* The i-th frame of the server, byte by byte.
LEMMA ServerFrameBytes ==
  ASSUME NEW f \in ServerFrames, NEW i \in Nat
  PROVE  /\ f.masked \in BOOLEAN /\ f.len \in Writable
         /\ Payload(f, i) \in Seq(Byte) /\ Len(Payload(f, i)) = f.len
         /\ \A k \in 1 .. f.len : Payload(f, i)[k] = <<"data", i, k>>
         /\ Payload(f, i) \in Text
         /\ IsFrame(ServerFrame(f, i), Byte, f.op, f.masked, Payload(f, i))
<1>1. /\ f.op \in {"text", "binary", "ping", "pong", "close", "other"}
      /\ f.masked \in BOOLEAN /\ f.len \in 0 .. Power(Base, Wide) - 1
  BY FrameAssumption
<1>2. f.len \in Writable
  BY <1>1 DEF Writable
<1>3. f.len \in Nat
  BY <1>2, DigitsEnough
<1>4. \A k \in 1 .. f.len : <<"data", i, k>> \in Byte
  <2>1. ASSUME NEW k \in 1 .. f.len PROVE <<"data", i, k>> \in {"data"} \X Nat \X Nat
    BY <1>3
  <2>2. QED
    BY <2>1, Zenon DEF Byte
<1>5. /\ Payload(f, i) \in [1 .. f.len -> Byte]
      /\ \A k \in 1 .. f.len : Payload(f, i)[k] = <<"data", i, k>>
  BY <1>4, Zenon DEF Payload
<1>6. Payload(f, i) \in Seq(Byte) /\ Len(Payload(f, i)) = f.len
  BY <1>3, <1>5, FunctionSeq
<1>7. Payload(f, i) \in Text
  <2>1. Byte \subseteq Byte \cup {<<"auth">>, <<"subscribe">>}
    BY Zenon
  <2>2. Payload(f, i) \in Seq(Byte \cup {<<"auth">>, <<"subscribe">>})
    BY <1>6, <2>1, SeqMonotonic, Zenon
  <2>3. QED
    BY <1>2, <1>6, <2>2, Zenon DEF Text
<1>8. HeaderBytes(Byte, f.op, f.masked)
  <2>1. <<"op", f.op>> \in Byte
    <3>1. <<"op", f.op>> \in
            {"op"} \X {"text", "binary", "ping", "pong", "close", "other"}
      BY <1>1
    <3>2. QED
      BY <3>1, Zenon DEF Byte
  <2>2. ASSUME NEW n \in Nat
        PROVE  <<"len", f.masked, n>> \in Byte /\ <<"digit", n>> \in Byte
    <3>1. PICK b \in BOOLEAN : b = f.masked
      BY <1>1, Zenon
    <3>2. <<"len", b, n>> \in {"len"} \X BOOLEAN \X Nat
      OBVIOUS
    <3>3. <<"digit", n>> \in {"digit"} \X Nat
      OBVIOUS
    <3>4. QED
      BY <3>1, <3>2, <3>3, Zenon DEF Byte
  <2>3. <<"mask">> \in Byte
    BY Zenon DEF Byte
  <2>4. QED
    BY <2>1, <2>2, <2>3, Zenon DEF HeaderBytes
<1>9. Len(Payload(f, i)) \in Writable
  BY <1>2, <1>6
<1>10. IsFrame(ServerFrame(f, i), Byte, f.op, f.masked, Payload(f, i))
  BY <1>1, <1>6, <1>8, <1>9, FramedBytes, Zenon DEF ServerFrame
<1>11. QED
  BY <1>1, <1>2, <1>5, <1>6, <1>7, <1>10, Zenon

\* Frames are read back as they were meant.
LEMMA SendableDecoded ==
  /\ \A c \in Sendable : \E op \in {"text", "pong", "close"}, p \in Text :
        Decoded(c) = [op |-> op, payload |-> p]
  /\ \A op \in {"text", "pong", "close"}, p \in Text :
        ClientFrame(op, p) \in Sendable
        /\ Decoded(ClientFrame(op, p)) = [op |-> op, payload |-> p]
<1>1. ASSUME NEW op, NEW p \in Text
      PROVE  Decoded(ClientFrame(op, p)) = [op |-> op, payload |-> p]
  <2>1. /\ p \in Seq(Byte \cup {<<"auth">>, <<"subscribe">>})
        /\ Len(p) \in Writable
    BY Zenon DEF Text
  <2>2. QED
    BY <2>1, DecodeEncode, Zenon
<1>2. ASSUME NEW op \in {"text", "pong", "close"}, NEW p \in Text
      PROVE  ClientFrame(op, p) \in Sendable
  <2>1. PICK x \in {"text", "pong", "close"} \X Text : x[1] = op /\ x[2] = p
    <3>1. <<op, p>> \in {"text", "pong", "close"} \X Text
          /\ <<op, p>>[1] = op /\ <<op, p>>[2] = p
      OBVIOUS
    <3>2. QED
      BY <3>1, Zenon
  <2>2. QED
    BY <2>1, Zenon DEF Sendable
<1>3. ASSUME NEW c \in Sendable
      PROVE  \E op \in {"text", "pong", "close"}, p \in Text :
                Decoded(c) = [op |-> op, payload |-> p]
  <2>1. PICK x \in {"text", "pong", "close"} \X Text : c = ClientFrame(x[1], x[2])
    BY Zenon DEF Sendable
  <2>2. x[1] \in {"text", "pong", "close"} /\ x[2] \in Text
    OBVIOUS
  <2>3. QED
    BY <1>1, <2>1, <2>2, Zenon
<1>4. QED
  BY <1>1, <1>2, <1>3, Zenon

\* What authenticate, subscribe and close say can be written.
LEMMA RequestText ==
  /\ <<<<"auth">>>> \in Text /\ <<<<"subscribe">>>> \in Text /\ <<>> \in Text
  /\ <<<<"auth">>>> # <<<<"subscribe">>>>
<1>1. Power(Base, Wide) \in Nat /\ Power(Base, Wide) >= 2
  <2>1. PICK b \in Nat \ {0, 1} : b = Base
    BY BaseAssumption
  <2>2. Wide - 1 \in Nat /\ (Wide - 1) + 1 = Wide
    BY WireAssumption
  <2>3. PICK P \in Nat \ {0} : P = Power(b, Wide - 1)
    BY <2>2, PowerStep
  <2>4. Power(b, (Wide - 1) + 1) = P * b
    BY <2>2, <2>3, PowerStep
  <2>5. P * b \in Nat /\ P * b >= 2
    OBVIOUS
  <2>6. QED
    BY <2>1, <2>2, <2>4, <2>5
<1>2. 0 \in Writable /\ 1 \in Writable
  BY <1>1 DEF Writable
<1> DEFINE U == Byte \cup {<<"auth">>, <<"subscribe">>}
<1>3. <<"auth">> \in U /\ <<"subscribe">> \in U
  BY Zenon
<1>4. Text = {p \in Seq(U) : Len(p) \in Writable}
  BY Zenon DEF Text
<1> HIDE DEF U
<1>5. \A x \in U : <<x>> \in Seq(U) /\ Len(<<x>>) = 1
  OBVIOUS
<1>6. <<>> \in Seq(U) /\ Len(<<>>) = 0
  OBVIOUS
<1>7. <<<<"auth">>>> # <<<<"subscribe">>>>
  <2>1. <<<<"auth">>>>[1][1] = "auth" /\ <<<<"subscribe">>>>[1][1] = "subscribe"
    OBVIOUS
  <2>2. QED
    BY <2>1
<1>8. QED
  BY <1>2, <1>3, <1>4, <1>5, <1>6, <1>7, Zenon

-----------------------------------------------------------------------------
(* What has been sent and read, as functions of the script *)

\* The frames of s after the first n, in bytes.
AheadOf(s, n) == FlattenSeq([i \in 1 .. Len(s) - n |-> ServerFrame(s[n + i], n + i)])

\* The pings among the first n frames of s, and the pongs of t.
PingOf(f, i) == IF f.op = "ping" THEN <<Payload(f, i)>> ELSE <<>>
PingsOf(s, n) == FlattenSeq([i \in 1 .. n |-> PingOf(s[i], i)])
PongOf(c) == IF Decoded(c).op = "pong" THEN <<Decoded(c).payload>> ELSE <<>>
PongsOf(t) == FlattenSeq([i \in 1 .. Len(t) |-> PongOf(t[i])])

\* The state functions of the model are these.
LEMMA OfTheState ==
  /\ Ahead = AheadOf(script, nread) /\ Pings = PingsOf(script, nread)
  /\ Pongs = PongsOf(tx)
BY Zenon DEF Ahead, AheadOf, Pings, PingsOf, PingOf, Pongs, PongsOf, PongOf

\* What the server sends comes last in what is ahead.
LEMMA AheadServe ==
  ASSUME NEW s \in Seq(ServerFrames), NEW n \in 0 .. Len(s), NEW f \in ServerFrames
  PROVE  /\ AheadOf(s, n) \in Seq(Byte)
         /\ ServerFrame(f, Len(s) + 1) \in Seq(Byte)
         /\ AheadOf(Append(s, f), n) = AheadOf(s, n) \o ServerFrame(f, Len(s) + 1)
<1> DEFINE t == Append(s, f)
<1>1. /\ t \in Seq(ServerFrames) /\ Len(s) \in Nat /\ Len(t) = Len(s) + 1
      /\ \A i \in 1 .. Len(s) : t[i] = s[i] /\ s[i] \in ServerFrames
      /\ t[Len(s) + 1] = f
  BY AppendElements
<1> HIDE DEF t
<1>2. PICK m \in Nat : m = Len(s) - n /\ Len(t) - n = m + 1 /\ n + (m + 1) = Len(s) + 1
  BY <1>1
<1> DEFINE v == [i \in 1 .. m + 1 |-> ServerFrame(t[n + i], n + i)]
           w == [i \in 1 .. m |-> ServerFrame(s[n + i], n + i)]
<1>3. \A g \in ServerFrames, i \in Nat : ServerFrame(g, i) \in Seq(Byte)
  BY ServerFrameBytes, Zenon DEF IsFrame
<1>4. /\ \A i \in 1 .. m : /\ n + i \in Nat /\ t[n + i] = s[n + i]
                           /\ s[n + i] \in ServerFrames /\ i \in 1 .. m + 1
      /\ \A i \in 1 .. m + 1 : n + i \in Nat /\ t[n + i] \in ServerFrames
      /\ m + 1 \in 1 .. m + 1
  BY <1>1, <1>2
<1>5. v \in [1 .. m + 1 -> Seq(Byte)] /\ w \in [1 .. m -> Seq(Byte)]
  BY <1>3, <1>4, Zenon
<1>6. \A i \in 1 .. m : w[i] = v[i]
  BY <1>4, Zenon
<1>7. v[m + 1] = ServerFrame(f, Len(s) + 1)
  BY <1>1, <1>2, <1>4, Zenon
<1>8. AheadOf(t, n) = FlattenSeq(v) /\ AheadOf(s, n) = FlattenSeq(w)
  BY <1>2, Zenon DEF AheadOf
<1> HIDE DEF v, w
<1>9. FlattenSeq(v) = FlattenSeq(w) \o v[m + 1]
  BY <1>5, <1>6, FlattenLast, Zenon
<1>10. FlattenSeq(w) \in Seq(Byte)
  BY <1>5, FlattenType, Zenon
<1>11. ServerFrame(f, Len(s) + 1) \in Seq(Byte)
  <2>1. Len(s) + 1 \in Nat
    BY <1>1
  <2>2. QED
    BY <1>3, <2>1, Zenon
<1>12. QED
  BY <1>7, <1>8, <1>9, <1>10, <1>11, Zenon DEF t

\* What is ahead starts with the next frame.
LEMMA AheadTake ==
  ASSUME NEW s \in Seq(ServerFrames), NEW n \in 0 .. Len(s)
  PROVE  /\ AheadOf(s, n) \in Seq(Byte)
         /\ n = Len(s) => AheadOf(s, n) = <<>>
         /\ n < Len(s) =>
              /\ AheadOf(s, n + 1) \in Seq(Byte) /\ s[n + 1] \in ServerFrames
              /\ AheadOf(s, n) = ServerFrame(s[n + 1], n + 1) \o AheadOf(s, n + 1)
<1>1. /\ Len(s) \in Nat /\ n \in Nat
      /\ \A i \in 1 .. Len(s) : s[i] \in ServerFrames
  BY LenProperties, ElementOfSeq
<1>2. \A g \in ServerFrames, i \in Nat : ServerFrame(g, i) \in Seq(Byte)
  BY ServerFrameBytes, Zenon DEF IsFrame
<1>3. CASE n = Len(s)
  <2>1. Len(s) - n = 0
    BY <1>1, <1>3
  <2> DEFINE v == [i \in 1 .. 0 |-> ServerFrame(s[n + i], n + i)]
  <2>2. v \in [1 .. 0 -> Seq(Byte)]
    <3>1. 1 .. 0 = {}
      OBVIOUS
    <3>2. QED
      BY <3>1, Zenon
  <2>3. AheadOf(s, n) = FlattenSeq(v)
    BY <2>1, Zenon DEF AheadOf
  <2> HIDE DEF v
  <2>4. AheadOf(s, n) = <<>>
    BY <2>2, <2>3, FlattenNone, Zenon
  <2>5. ~(n < Len(s))
    BY <1>1, <1>3
  <2>6. QED
    BY <2>4, <2>5, EmptySeq
<1>4. CASE n < Len(s)
  <2>0. Len(s) - (n + 1) \in Nat /\ Len(s) - n = (Len(s) - (n + 1)) + 1
    BY <1>1, <1>4
  <2>1. PICK m \in Nat : Len(s) - (n + 1) = m /\ Len(s) - n = m + 1
    BY <2>0, Zenon
  <2> DEFINE v == [i \in 1 .. m + 1 |-> ServerFrame(s[n + i], n + i)]
             w == [i \in 1 .. m |-> ServerFrame(s[(n + 1) + i], (n + 1) + i)]
  <2>2. /\ \A i \in 1 .. m : /\ (n + 1) + i \in Nat /\ s[(n + 1) + i] \in ServerFrames
                             /\ (n + 1) + i = n + (i + 1) /\ i + 1 \in 1 .. m + 1
        /\ \A i \in 1 .. m + 1 : n + i \in Nat /\ s[n + i] \in ServerFrames
        /\ 1 \in 1 .. m + 1
    BY <1>1, <2>1
  <2>3. v \in [1 .. m + 1 -> Seq(Byte)] /\ w \in [1 .. m -> Seq(Byte)]
    BY <1>2, <2>2, Zenon
  <2>4. \A i \in 1 .. m : w[i] = v[i + 1]
    BY <2>2, Zenon
  <2>5. v[1] = ServerFrame(s[n + 1], n + 1)
    BY <2>2, Zenon
  <2>6. AheadOf(s, n) = FlattenSeq(v) /\ AheadOf(s, n + 1) = FlattenSeq(w)
    BY <2>1, Zenon DEF AheadOf
  <2> HIDE DEF v, w
  <2>7. FlattenSeq(v) = v[1] \o FlattenSeq(w)
    <3>1. Shifted(w, v, m, Byte)
      BY <2>3, <2>4, Zenon DEF Shifted
    <3>2. QED
      BY <3>1, FlattenFirst
  <2>8. FlattenSeq(v) \in Seq(Byte) /\ FlattenSeq(w) \in Seq(Byte)
    <3>1. m + 1 \in Nat
      OBVIOUS
    <3>2. QED
      BY <2>3, <3>1, FlattenType, Zenon
  <2>9. n # Len(s)
    BY <1>1, <1>4
  <2>10. QED
    BY <2>2, <2>5, <2>6, <2>7, <2>8, <2>9, Zenon
<1>5. QED
  BY <1>1, <1>3, <1>4

\* One more frame read, or sent.
LEMMA PingsStep ==
  ASSUME NEW s \in Seq(ServerFrames), NEW n \in 0 .. Len(s)
  PROVE  /\ PingsOf(s, n) \in Seq(Text) /\ PingsOf(s, 0) = <<>>
         /\ n < Len(s) => /\ PingOf(s[n + 1], n + 1) \in Seq(Text)
                          /\ PingsOf(s, n + 1) = PingsOf(s, n) \o PingOf(s[n + 1], n + 1)
         /\ \A f \in ServerFrames : PingsOf(Append(s, f), n) = PingsOf(s, n)
<1>1. /\ Len(s) \in Nat /\ n \in Nat
      /\ \A i \in 1 .. Len(s) : s[i] \in ServerFrames
  BY LenProperties, ElementOfSeq
<1>2. \A g \in ServerFrames, i \in Nat : PingOf(g, i) \in Seq(Text)
  <2>1. ASSUME NEW g \in ServerFrames, NEW i \in Nat PROVE PingOf(g, i) \in Seq(Text)
    <3>1. Payload(g, i) \in Text
      BY ServerFrameBytes, Zenon
    <3>2. <<Payload(g, i)>> \in Seq(Text) /\ <<>> \in Seq(Text)
      BY <3>1, Single, Zenon
    <3>3. QED
      BY <3>2, Zenon DEF PingOf
  <2>2. QED
    BY <2>1, Zenon
<1> DEFINE v(k) == [i \in 1 .. k |-> PingOf(s[i], i)]
<1>3. ASSUME NEW k \in 0 .. Len(s)
      PROVE  v(k) \in [1 .. k -> Seq(Text)] /\ PingsOf(s, k) = FlattenSeq(v(k))
  <2>1. \A i \in 1 .. k : i \in Nat /\ s[i] \in ServerFrames
    BY <1>1
  <2>2. QED
    BY <1>2, <2>1, Zenon DEF PingsOf
<1>4. PingsOf(s, n) \in Seq(Text)
  BY <1>1, <1>3, FlattenType, Zenon
<1>5. PingsOf(s, 0) = <<>>
  <2>1. 0 \in 0 .. Len(s)
    BY <1>1
  <2>2. QED
    BY <1>3, <2>1, FlattenNone, Zenon
<1>6. ASSUME n < Len(s)
      PROVE  /\ PingOf(s[n + 1], n + 1) \in Seq(Text)
             /\ PingsOf(s, n + 1) = PingsOf(s, n) \o PingOf(s[n + 1], n + 1)
  <2>1. /\ n + 1 \in 0 .. Len(s) /\ n + 1 \in Nat /\ s[n + 1] \in ServerFrames
        /\ n + 1 \in 1 .. n + 1 /\ \A i \in 1 .. n : i \in 1 .. n + 1
    BY <1>1, <1>6
  <2>2. /\ v(n + 1) \in [1 .. n + 1 -> Seq(Text)] /\ v(n) \in [1 .. n -> Seq(Text)]
        /\ PingsOf(s, n) = FlattenSeq(v(n))
        /\ PingsOf(s, n + 1) = FlattenSeq(v(n + 1))
    BY <1>3, <2>1, Zenon
  <2>3. PICK x, y : x = v(n + 1) /\ y = v(n)
    OBVIOUS
  <2>4. \A i \in 1 .. n : y[i] = x[i]
    BY <2>1, <2>3, Zenon
  <2>5. x[n + 1] = PingOf(s[n + 1], n + 1)
    BY <2>1, <2>3, Zenon
  <2>6. x \in [1 .. n + 1 -> Seq(Text)] /\ y \in [1 .. n -> Seq(Text)]
    BY <2>2, <2>3, Zenon
  <2>7. FlattenSeq(x) = FlattenSeq(y) \o x[n + 1]
    BY <1>1, <2>4, <2>6, FlattenLast, Zenon
  <2>8. QED
    BY <1>2, <2>1, <2>2, <2>3, <2>5, <2>7, Zenon
<1>7. ASSUME NEW f \in ServerFrames PROVE PingsOf(Append(s, f), n) = PingsOf(s, n)
  <2>1. \A i \in 1 .. Len(s) : Append(s, f)[i] = s[i]
    BY AppendElements
  <2>2. \A i \in 1 .. n : i \in 1 .. Len(s)
    BY <1>1
  <2>3. [i \in 1 .. n |-> PingOf(Append(s, f)[i], i)] = [i \in 1 .. n |-> PingOf(s[i], i)]
    BY <2>1, <2>2, Zenon
  <2>4. QED
    BY <2>3, Zenon DEF PingsOf
<1>8. QED
  BY <1>4, <1>5, <1>6, <1>7, Zenon

\* One more frame of the client.
LEMMA PongsSend ==
  ASSUME NEW t \in Seq(Sendable), NEW c \in Sendable
  PROVE  /\ PongsOf(t) \in Seq(Text) /\ PongOf(c) \in Seq(Text)
         /\ PongsOf(Append(t, c)) = PongsOf(t) \o PongOf(c)
         /\ PongsOf(<<>>) = <<>>
<1>1. /\ Append(t, c) \in Seq(Sendable) /\ Len(t) \in Nat
      /\ Len(Append(t, c)) = Len(t) + 1
      /\ \A i \in 1 .. Len(t) : Append(t, c)[i] = t[i] /\ t[i] \in Sendable
      /\ Append(t, c)[Len(t) + 1] = c
  BY AppendElements
<1>2. PICK u : u = Append(t, c)
  OBVIOUS
<1>3. \A x \in Sendable : PongOf(x) \in Seq(Text)
  <2>1. ASSUME NEW x \in Sendable PROVE PongOf(x) \in Seq(Text)
    <3>1. PICK op \in {"text", "pong", "close"}, p \in Text :
             Decoded(x) = [op |-> op, payload |-> p]
      BY SendableDecoded, Zenon
    <3>2. Decoded(x).payload = p
      BY <3>1
    <3>3. <<p>> \in Seq(Text) /\ <<>> \in Seq(Text)
      BY Single, Zenon
    <3>4. QED
      BY <3>2, <3>3, Zenon DEF PongOf
  <2>2. QED
    BY <2>1, Zenon
<1>4. PICK n \in Nat : n = Len(t)
  BY <1>1
<1> DEFINE v == [i \in 1 .. n + 1 |-> PongOf(u[i])]
           w == [i \in 1 .. n |-> PongOf(t[i])]
<1>5. /\ \A i \in 1 .. n : i \in 1 .. n + 1 /\ u[i] = t[i] /\ t[i] \in Sendable
      /\ \A i \in 1 .. n + 1 : u[i] \in Sendable
      /\ n + 1 \in 1 .. n + 1 /\ u[n + 1] = c /\ n + 1 = Len(u)
  BY <1>1, <1>2, <1>4
<1>6. v \in [1 .. n + 1 -> Seq(Text)] /\ w \in [1 .. n -> Seq(Text)]
  BY <1>3, <1>5, Zenon
<1>7. \A i \in 1 .. n : w[i] = v[i]
  BY <1>5, Zenon
<1>8. v[n + 1] = PongOf(c)
  BY <1>5, Zenon
<1>9. PongsOf(u) = FlattenSeq(v) /\ PongsOf(t) = FlattenSeq(w)
  BY <1>4, <1>5, Zenon DEF PongsOf
<1> HIDE DEF v, w
<1>10. FlattenSeq(v) = FlattenSeq(w) \o v[n + 1]
  BY <1>6, <1>7, FlattenLast, Zenon
<1>11. FlattenSeq(w) \in Seq(Text)
  BY <1>6, FlattenType, Zenon
<1>12. PongsOf(<<>>) = <<>>
  <2> DEFINE e == <<>>
             z == [i \in 1 .. 0 |-> PongOf(e[i])]
  <2>1. Len(e) = 0 /\ 1 .. 0 = {}
    OBVIOUS
  <2> HIDE DEF e
  <2>2. z \in [1 .. 0 -> Seq(Text)]
    BY <2>1, Zenon
  <2>3. PongsOf(e) = FlattenSeq(z)
    BY <2>1, Zenon DEF PongsOf
  <2> HIDE DEF z
  <2>4. PongsOf(e) = <<>>
    BY <2>2, <2>3, FlattenNone, Zenon
  <2>5. QED
    BY <2>4, Zenon DEF e
<1>13. QED
  BY <1>2, <1>3, <1>8, <1>9, <1>10, <1>11, <1>12, Zenon

-----------------------------------------------------------------------------
(* Ticks and orders *)

\* The objects of the server's frames, and the records they become.
AllObjects == UNION {Range(f.objs) : f \in ServerFrames}
Tick == {normalize(o) : o \in AllObjects} \ {None}

\* The orders that the book accepts.
ValidOrder == [side : {"Buy", "Sell"}, price : 1 .. MAX_PRICE, quantity : Int]

\* A field is one of the values of the object.
LEMMA FieldFound ==
  ASSUME NEW o, Len(o) \in Nat, NEW key
  PROVE  field(o, key) = None \/ \E k \in 1 .. Len(o) : field(o, key) = o[k][2]
<1> DEFINE I == {i \in 1 .. Len(o) : o[i][1] = key}
           at == IF I # {} THEN Min(I) ELSE 0
<1>1. field(o, key) = IF at = 0 THEN None ELSE o[at][2]
  BY Zenon DEF field, SelectInSeq
<1>2. I \in SUBSET Nat
  OBVIOUS
<1>3. CASE I # {}
  <2>1. Min(I) \in I
    BY <1>2, <1>3, MinNat
  <2>2. Min(I) \in 1 .. Len(o) /\ Min(I) # 0
    BY <2>1
  <2>3. at = Min(I)
    BY <1>3, Zenon
  <2> HIDE DEF at, I
  <2>4. QED
    BY <1>1, <2>2, <2>3, Zenon
<1>4. CASE I = {}
  <2>1. at = 0
    BY <1>4, Zenon
  <2> HIDE DEF at, I
  <2>2. QED
    BY <1>1, <2>1, Zenon
<1>5. QED
  BY <1>3, <1>4, Zenon

\* A number that is there is an integer of its unit.
LEMMA FieldNumber ==
  ASSUME NEW o \in AllObjects, NEW key
  PROVE  /\ field_num(o, key) # None => field_num(o, key).num \in Int
         /\ SizeOf(field_num(o, key)) \in Int
<1>1. PICK f \in ServerFrames : o \in Range(f.objs)
  BY Zenon DEF AllObjects
<1>2. /\ o \in Seq(Range(o))
      /\ \A k \in 1 .. Len(o) : "num" \in DOMAIN o[k][2] => o[k][2].num \in Int
  BY <1>1, DataAssumption, Zenon
<1>3. Len(o) \in Nat
  BY <1>2, LenProperties
<1>4. PICK v : v = field(o, key)
  OBVIOUS
<1>5. v = None \/ \E k \in 1 .. Len(o) : v = o[k][2]
  BY <1>3, <1>4, FieldFound, Zenon
<1>6. "num" \in DOMAIN v /\ v # None => v.num \in Int
  BY <1>2, <1>5, Zenon
<1>7. field_num(o, key) = IF v = None \/ "num" \in DOMAIN v THEN v ELSE [num |-> 0]
  BY <1>4, Zenon DEF field_num
<1>8. [num |-> 0].num = 0 /\ 0 \in Int
  OBVIOUS
<1>9. field_num(o, key) # None => field_num(o, key).num \in Int
  BY <1>6, <1>7, <1>8, Zenon
<1>10. QED
  BY <1>8, <1>9, Zenon DEF SizeOf

\* A price that is there is in range.
LEMMA PriceInRange ==
  ASSUME NEW o \in AllObjects, NEW key, Priced(field_num(o, key))
  PROVE  to_cents(field_num(o, key).num) \in 1 .. MAX_PRICE
<1>1. PICK d \in Int : d = field_num(o, key).num /\ to_cents(d) # INVALID_PRICE
  BY FieldNumber, Zenon DEF Priced
<1>2. to_cents(d) \in 1 .. MAX_PRICE
  <2>1. MAX_PRICE \in Nat \ {0}
    BY PriceAssumption
  <2>2. d > 0 /\ 2 * d + 5 <= 10 * MAX_PRICE /\ to_cents(d) = (2 * d + 5) \div 10
    BY <1>1, <2>1 DEF to_cents
  <2>3. (2 * d + 5) \div 10 # 0
    BY <1>1, <2>2 DEF INVALID_PRICE
  <2>4. (2 * d + 5) \div 10 \in 0 .. MAX_PRICE
    BY <2>1, <2>2
  <2>5. QED
    BY <2>2, <2>3, <2>4
<1>3. QED
  BY <1>1, <1>2, Zenon

\* What is known of a record.
LEMMA TickFields ==
  ASSUME NEW r \in Tick
  PROVE  /\ r.type \in {"q", "t"} /\ r.p1 \in 1 .. MAX_PRICE
         /\ r.type = "q" => r.p2 \in 1 .. MAX_PRICE
         /\ r.s1 \in Int /\ r.s2 \in Int
<1>1. PICK o \in AllObjects : r = normalize(o) /\ r # None
  BY Zenon DEF Tick
<1> DEFINE kind == field_str(o, "T")
           sym == field_str(o, "S")
           ts == field_str(o, "t")
           num(key) == field_num(o, key)
           rec(p1, s1, p2, s2) ==
             [type |-> kind.str, symbol |-> sym.str,
              p1 |-> to_cents(num(p1).num), s1 |-> SizeOf(num(s1)),
              p2 |-> IF kind.str = "q" THEN to_cents(num(p2).num) ELSE 0,
              s2 |-> IF kind.str = "q" THEN SizeOf(num(s2)) ELSE 0,
              venue_ns |-> IF ts = None THEN 0 ELSE parse_rfc3339_ns(ts.str)]
<1>2. normalize(o) =
        IF kind = None \/ sym = None THEN None
        ELSE IF kind.str = "q" /\ Priced(num("bp")) /\ Priced(num("ap"))
          THEN rec("bp", "bs", "ap", "as")
        ELSE IF kind.str = "t" /\ Priced(num("p")) THEN rec("p", "s", "", "")
        ELSE None
  BY Zenon DEF normalize
<1>4. \A key : SizeOf(num(key)) \in Int
  BY FieldNumber, Zenon
<1>5. \A key : Priced(num(key)) => to_cents(num(key).num) \in 1 .. MAX_PRICE
  BY PriceInRange, Zenon
<1> HIDE DEF num, kind, sym, ts
<1>6. CASE kind.str = "q" /\ Priced(num("bp")) /\ Priced(num("ap"))
           /\ r = rec("bp", "bs", "ap", "as")
  <2>1. /\ r.type = kind.str /\ r.p1 = to_cents(num("bp").num)
        /\ r.s1 = SizeOf(num("bs"))
    BY <1>6, Zenon
  <2>0. r.p2 = to_cents(num("ap").num) /\ r.s2 = SizeOf(num("as"))
    BY <1>6, Zenon
  <2>2. /\ to_cents(num("bp").num) \in 1 .. MAX_PRICE
        /\ to_cents(num("ap").num) \in 1 .. MAX_PRICE
        /\ SizeOf(num("bs")) \in Int /\ SizeOf(num("as")) \in Int
    BY <1>4, <1>5, <1>6, Zenon
  <2>3. QED
    BY <1>6, <2>0, <2>1, <2>2, Zenon
<1>7. CASE kind.str = "t" /\ Priced(num("p")) /\ r = rec("p", "s", "", "")
  <2>1. kind.str # "q"
    BY <1>7
  <2>2. 0 \in Int
    OBVIOUS
  <2>3. /\ r.type = kind.str /\ r.p1 = to_cents(num("p").num)
        /\ r.s1 = SizeOf(num("s")) /\ r.s2 = 0
    BY <1>7, <2>1, Zenon
  <2>4. to_cents(num("p").num) \in 1 .. MAX_PRICE /\ SizeOf(num("s")) \in Int
    BY <1>4, <1>5, <1>7, Zenon
  <2>5. QED
    BY <1>7, <2>1, <2>2, <2>3, <2>4, Zenon
<1>8. QED
  BY <1>1, <1>2, <1>6, <1>7, Zenon

\* The orders of a tick are ones the book accepts.
LEMMA OrdersValid ==
  ASSUME NEW r \in Tick, NEW last \in BOOLEAN
  PROVE  OrdersOf(r, last) \in Seq(ValidOrder)
<1>1. /\ r.type \in {"q", "t"} /\ r.p1 \in 1 .. MAX_PRICE
      /\ r.type = "q" => r.p2 \in 1 .. MAX_PRICE
      /\ r.s1 \in Int /\ r.s2 \in Int
  BY TickFields
<1>2. \A s \in Int : Lots(s) \in Int
  <2>1. QtyMod \in Nat \ {0}
    BY RecAssumption
  <2>2. ASSUME NEW s \in Int PROVE (s * 100) % QtyMod \in Int
    <3>1. PICK x \in Int : x = s * 100
      OBVIOUS
    <3>2. x % QtyMod \in Int
      BY <2>1, DivMod
    <3>3. QED
      BY <3>1, <3>2
  <2>3. QED
    BY <2>2 DEF Lots
<1>3. \A side \in {"Buy", "Sell"}, p \in 1 .. MAX_PRICE, q \in Int :
         Order(side, p, q) \in ValidOrder
  BY DEF Order, ValidOrder
<1>4. CASE r.type = "q"
  <2>1. PICK a \in ValidOrder, b \in ValidOrder :
           a = Order("Buy", r.p1, Lots(r.s1)) /\ b = Order("Sell", r.p2, Lots(r.s2))
    BY <1>1, <1>2, <1>3, <1>4
  <2>2. <<a, b>> \in Seq(ValidOrder)
    OBVIOUS
  <2>3. OrdersOf(r, last) = <<a, b>>
    BY <1>4, <2>1, Zenon DEF OrdersOf
  <2>4. QED
    BY <2>2, <2>3, Zenon
<1>5. CASE r.type # "q"
  <2>1. PICK side \in {"Buy", "Sell"} : side = IF last THEN "Sell" ELSE "Buy"
    OBVIOUS
  <2>2. PICK q \in Int : q = IF r.s1 = 0 THEN 1 ELSE r.s1
    BY <1>1
  <2>3. PICK a \in ValidOrder : a = Order(side, r.p1, q)
    BY <1>1, <1>3, Zenon
  <2>4. <<a>> \in Seq(ValidOrder)
    OBVIOUS
  <2>5. OrdersOf(r, last) = <<a>>
    BY <1>5, <2>1, <2>2, <2>3, Zenon DEF OrdersOf
  <2>6. QED
    BY <2>4, <2>5, Zenon
<1>6. QED
  BY <1>4, <1>5

\* The ticks of an object, and of the first n frames of s.
TickOf(o) == IF normalize(o) = None THEN <<>> ELSE <<normalize(o)>>
TicksReadOf(s, n) == FlattenSeq([i \in 1 .. n |-> TicksOf(s[i].objs)])

\* The state function of the model is this.
LEMMA TicksOfTheState == TicksRead = TicksReadOf(script, nread)
BY Zenon DEF TicksRead, TicksReadOf

\* What normalize makes of an object is a tick, or nothing.
LEMMA TickOfObject ==
  ASSUME NEW o \in AllObjects
  PROVE  TickOf(o) \in Seq(Tick) /\ (normalize(o) # None => normalize(o) \in Tick)
<1>1. normalize(o) # None => normalize(o) \in Tick
  BY Zenon DEF Tick
<1>2. CASE normalize(o) = None
  BY <1>1, <1>2, EmptySeq, Zenon DEF TickOf
<1>3. CASE normalize(o) # None
  <2>1. <<normalize(o)>> \in Seq(Tick)
    BY <1>1, <1>3, Single, Zenon
  <2>2. QED
    BY <1>1, <1>3, <2>1, Zenon DEF TickOf
<1>4. QED
  BY <1>2, <1>3

\* The first object's ticks come first.
LEMMA TicksOfFirst ==
  ASSUME NEW q \in Seq(AllObjects)
  PROVE  /\ TicksOf(q) \in Seq(Tick)
         /\ q = <<>> => TicksOf(q) = <<>>
         /\ q # <<>> => /\ Head(q) \in AllObjects /\ Tail(q) \in Seq(AllObjects)
                        /\ TicksOf(Tail(q)) \in Seq(Tick)
                        /\ TicksOf(q) = TickOf(Head(q)) \o TicksOf(Tail(q))
<1>1. \A p \in Seq(AllObjects) :
         /\ [k \in 1 .. Len(p) |-> TickOf(p[k])] \in [1 .. Len(p) -> Seq(Tick)]
         /\ TicksOf(p) = FlattenSeq([k \in 1 .. Len(p) |-> TickOf(p[k])])
  <2>1. ASSUME NEW p \in Seq(AllObjects)
        PROVE  /\ [k \in 1 .. Len(p) |-> TickOf(p[k])] \in [1 .. Len(p) -> Seq(Tick)]
               /\ TicksOf(p) = FlattenSeq([k \in 1 .. Len(p) |-> TickOf(p[k])])
    <3>1. \A k \in 1 .. Len(p) : p[k] \in AllObjects
      BY ElementOfSeq
    <3>2. \A k \in 1 .. Len(p) : TickOf(p[k]) \in Seq(Tick)
      BY <3>1, TickOfObject, Zenon
    <3>3. QED
      BY <3>2, Zenon DEF TicksOf, TickOf
  <2>2. QED
    BY <2>1, Zenon
<1>2. \A p \in Seq(AllObjects) : Len(p) \in Nat /\ TicksOf(p) \in Seq(Tick)
  <2>1. \A p \in Seq(AllObjects) : Len(p) \in Nat
    BY LenProperties
  <2>2. QED
    BY <1>1, <2>1, FlattenType, Zenon
<1>3. ASSUME q = <<>> PROVE TicksOf(q) = <<>>
  <2>1. Len(q) = 0
    BY <1>3
  <2>2. QED
    BY <1>1, <2>1, FlattenNone, Zenon
<1>4. ASSUME q # <<>>
      PROVE  /\ Head(q) \in AllObjects /\ Tail(q) \in Seq(AllObjects)
             /\ TicksOf(Tail(q)) \in Seq(Tick)
             /\ TicksOf(q) = TickOf(Head(q)) \o TicksOf(Tail(q))
  <2>1. /\ Head(q) \in AllObjects /\ Tail(q) \in Seq(AllObjects) /\ q[1] = Head(q)
        /\ Len(q) \in Nat /\ Len(Tail(q)) = Len(q) - 1 /\ Len(q) >= 1
        /\ \A i \in 1 .. Len(Tail(q)) : Tail(q)[i] = q[i + 1]
    BY <1>4, HeadTailProperties, LenProperties, ContainsHead
  <2>2. PICK n \in Nat : n = Len(Tail(q)) /\ n + 1 = Len(q)
    <3>1. Len(q) \in Nat /\ Len(Tail(q)) = Len(q) - 1 /\ Len(q) >= 1
      BY <2>1, Zenon
    <3>2. Len(Tail(q)) \in Nat /\ Len(Tail(q)) + 1 = Len(q)
      BY <3>1
    <3>3. QED
      BY <3>2, Zenon
  <2>3. PICK t \in Seq(AllObjects) : t = Tail(q)
    BY <2>1, Zenon
  <2> DEFINE v == [k \in 1 .. n + 1 |-> TickOf(q[k])]
             w == [k \in 1 .. n |-> TickOf(t[k])]
  <2>4. /\ v \in [1 .. n + 1 -> Seq(Tick)] /\ w \in [1 .. n -> Seq(Tick)]
        /\ TicksOf(q) = FlattenSeq(v) /\ TicksOf(t) = FlattenSeq(w)
    BY <1>1, <2>2, <2>3, Zenon
  <2>5. \A i \in 1 .. n : i + 1 \in 1 .. n + 1 /\ t[i] = q[i + 1]
    BY <2>1, <2>2, <2>3
  <2>6. \A i \in 1 .. n : w[i] = v[i + 1]
    BY <2>5, Zenon
  <2>7. v[1] = TickOf(Head(q))
    <3>1. 1 \in 1 .. n + 1
      OBVIOUS
    <3>2. QED
      BY <2>1, <3>1, Zenon
  <2> HIDE DEF v, w
  <2>8. Shifted(w, v, n, Tick)
    BY <2>4, <2>6, Zenon DEF Shifted
  <2>9. FlattenSeq(v) = v[1] \o FlattenSeq(w)
    BY <2>8, FlattenFirst
  <2>10. QED
    BY <1>2, <2>1, <2>3, <2>4, <2>7, <2>9, Zenon
<1>5. QED
  BY <1>2, <1>3, <1>4, Zenon

\* Only text and binary frames with data hold ticks.
LEMMA ObjectsOf ==
  ASSUME NEW f \in ServerFrames
  PROVE  /\ f.objs \in Seq(AllObjects) /\ TicksOf(f.objs) \in Seq(Tick)
         /\ f.msg # "data" => TicksOf(f.objs) = <<>>
         /\ f.op \notin {"text", "binary"} => TicksOf(f.objs) = <<>>
<1>1. /\ f.objs \in Seq(Range(f.objs))
      /\ f.objs # <<>> => f.msg = "data"
      /\ f.msg \in {"subscription", "data"} => f.op \in {"text", "binary"}
  BY DataAssumption, Zenon
<1>2. Range(f.objs) \subseteq AllObjects
  BY Zenon DEF AllObjects
<1>3. f.objs \in Seq(AllObjects)
  BY <1>1, <1>2, SeqMonotonic, Zenon
<1>4. f.msg = "data" => f.op \in {"text", "binary"}
  BY <1>1
<1>5. QED
  BY <1>1, <1>3, <1>4, TicksOfFirst, Zenon

\* One more frame read, or sent.
LEMMA TicksReadStep ==
  ASSUME NEW s \in Seq(ServerFrames), NEW n \in 0 .. Len(s)
  PROVE  /\ TicksReadOf(s, n) \in Seq(Tick) /\ TicksReadOf(s, 0) = <<>>
         /\ n < Len(s) =>
              /\ TicksOf(s[n + 1].objs) \in Seq(Tick) /\ s[n + 1] \in ServerFrames
              /\ TicksReadOf(s, n + 1) = TicksReadOf(s, n) \o TicksOf(s[n + 1].objs)
         /\ \A f \in ServerFrames : TicksReadOf(Append(s, f), n) = TicksReadOf(s, n)
<1>1. /\ Len(s) \in Nat /\ n \in Nat
      /\ \A i \in 1 .. Len(s) : s[i] \in ServerFrames
  BY LenProperties, ElementOfSeq
<1>2. \A g \in ServerFrames : TicksOf(g.objs) \in Seq(Tick)
  BY ObjectsOf, Zenon
<1> DEFINE v(k) == [i \in 1 .. k |-> TicksOf(s[i].objs)]
<1>3. ASSUME NEW k \in 0 .. Len(s)
      PROVE  v(k) \in [1 .. k -> Seq(Tick)] /\ TicksReadOf(s, k) = FlattenSeq(v(k))
  <2>1. \A i \in 1 .. k : i \in Nat /\ s[i] \in ServerFrames
    BY <1>1
  <2>2. QED
    BY <1>2, <2>1, Zenon DEF TicksReadOf
<1>4. TicksReadOf(s, n) \in Seq(Tick)
  BY <1>1, <1>3, FlattenType, Zenon
<1>5. TicksReadOf(s, 0) = <<>>
  <2>1. 0 \in 0 .. Len(s)
    BY <1>1
  <2>2. QED
    BY <1>3, <2>1, FlattenNone, Zenon
<1>6. ASSUME n < Len(s)
      PROVE  /\ TicksOf(s[n + 1].objs) \in Seq(Tick) /\ s[n + 1] \in ServerFrames
             /\ TicksReadOf(s, n + 1) = TicksReadOf(s, n) \o TicksOf(s[n + 1].objs)
  <2>1. /\ n + 1 \in 0 .. Len(s) /\ n + 1 \in Nat /\ s[n + 1] \in ServerFrames
        /\ n + 1 \in 1 .. n + 1 /\ \A i \in 1 .. n : i \in 1 .. n + 1
    BY <1>1, <1>6
  <2>2. /\ v(n + 1) \in [1 .. n + 1 -> Seq(Tick)] /\ v(n) \in [1 .. n -> Seq(Tick)]
        /\ TicksReadOf(s, n) = FlattenSeq(v(n))
        /\ TicksReadOf(s, n + 1) = FlattenSeq(v(n + 1))
    BY <1>3, <2>1, Zenon
  <2>3. PICK x, y : x = v(n + 1) /\ y = v(n)
    OBVIOUS
  <2>4. \A i \in 1 .. n : y[i] = x[i]
    BY <2>1, <2>3, Zenon
  <2>5. x[n + 1] = TicksOf(s[n + 1].objs)
    BY <2>1, <2>3, Zenon
  <2>6. x \in [1 .. n + 1 -> Seq(Tick)] /\ y \in [1 .. n -> Seq(Tick)]
    BY <2>2, <2>3, Zenon
  <2>7. FlattenSeq(x) = FlattenSeq(y) \o x[n + 1]
    BY <1>1, <2>4, <2>6, FlattenLast, Zenon
  <2>8. QED
    BY <1>2, <2>1, <2>2, <2>3, <2>5, <2>7, Zenon
<1>7. ASSUME NEW f \in ServerFrames
      PROVE  TicksReadOf(Append(s, f), n) = TicksReadOf(s, n)
  <2>1. \A i \in 1 .. Len(s) : Append(s, f)[i] = s[i]
    BY AppendElements
  <2>2. \A i \in 1 .. n : i \in 1 .. Len(s)
    BY <1>1
  <2>3. [i \in 1 .. n |-> TicksOf(Append(s, f)[i].objs)]
          = [i \in 1 .. n |-> TicksOf(s[i].objs)]
    BY <2>1, <2>2, Zenon
  <2>4. QED
    BY <2>3, Zenon DEF TicksReadOf
<1>8. QED
  BY <1>4, <1>5, <1>6, <1>7, Zenon

-----------------------------------------------------------------------------
\* An even number of trades so far: the next one sells.
Even(records) == PrefixSum(Trades(records), Len(records)) % 2 = 0

\* The orders of the i-th record.
OrdersAt(records, i) ==
  OrdersOf(records[i], PrefixSum(Trades(records), i) % 2 = 1)

\* The trades counted, and the side they leave.
LEMMA TradesCount ==
  ASSUME NEW t \in Seq(Tick), NEW r \in Tick
  PROVE  /\ \A i \in 0 .. Len(t) : /\ PrefixSum(Trades(t), i) \in Int
                                   /\ PrefixSum(Trades(Append(t, r)), i)
                                        = PrefixSum(Trades(t), i)
         /\ PrefixSum(Trades(Append(t, r)), Len(t) + 1)
              = PrefixSum(Trades(t), Len(t)) + IF r.type = "t" THEN 1 ELSE 0
<1>1. /\ Append(t, r) \in Seq(Tick) /\ Len(t) \in Nat
      /\ Len(Append(t, r)) = Len(t) + 1
      /\ \A i \in 1 .. Len(t) : Append(t, r)[i] = t[i] /\ t[i] \in Tick
      /\ Append(t, r)[Len(t) + 1] = r
  BY AppendElements
<1>2. PICK n \in Nat : n = Len(t)
  BY <1>1
<1>3. PICK u : u = Append(t, r)
  OBVIOUS
<1> DEFINE v == Trades(t)
           w == Trades(u)
<1>4. /\ \A i \in 1 .. n : v[i] = IF t[i].type = "t" THEN 1 ELSE 0
      /\ \A i \in 1 .. n + 1 : w[i] = IF u[i].type = "t" THEN 1 ELSE 0
  <2>1. Len(u) = n + 1
    BY <1>1, <1>2, <1>3
  <2>2. QED
    BY <1>2, <2>1, Zenon DEF Trades
<1> HIDE DEF v, w
<1>5. \A i \in 1 .. n : v[i] \in Int /\ v[i] = w[i]
  <2>1. \A i \in 1 .. n : i \in 1 .. n + 1 /\ u[i] = t[i]
    BY <1>1, <1>2, <1>3
  <2>2. 0 \in Int /\ 1 \in Int
    OBVIOUS
  <2>3. QED
    BY <1>4, <2>1, <2>2, Zenon
<1>6. \A i \in 0 .. n : PrefixSum(v, i) \in Int
  <2>1. Int \in {Int, Nat}
    BY Zenon
  <2>2. QED
    BY <1>5, <2>1, PrefixSumType, Zenon
<1>7. \A i \in 0 .. n : PrefixSum(w, i) = PrefixSum(v, i)
  <2>1. ASSUME NEW i \in 0 .. n PROVE PrefixSum(v, i) = PrefixSum(w, i)
    <3>1. i \in Nat /\ \A j \in 1 .. i : v[j] = w[j]
      BY <1>5
    <3>2. QED
      BY <3>1, PrefixSumSame, Zenon
  <2>2. QED
    BY <2>1, Zenon
<1>8. PrefixSum(w, n + 1) = PrefixSum(v, n) + IF r.type = "t" THEN 1 ELSE 0
  <2>1. PrefixSum(w, n + 1) = PrefixSum(w, n) + w[n + 1]
    BY PrefixSumStep, Zenon
  <2>2. n \in 0 .. n /\ n + 1 \in 1 .. n + 1 /\ u[n + 1] = r
    BY <1>1, <1>2, <1>3
  <2>3. QED
    BY <1>4, <1>7, <2>1, <2>2, Zenon
<1>9. QED
  BY <1>2, <1>3, <1>6, <1>7, <1>8, Zenon DEF v, w

\* Another tick brings its own orders, and a trade turns the side.
LEMMA ExpectedStep ==
  ASSUME NEW t \in Seq(Tick), NEW r \in Tick
  PROVE  /\ Expected(t) \in Seq(ValidOrder)
         /\ OrdersOf(r, Even(t)) \in Seq(ValidOrder)
         /\ Expected(Append(t, r)) = Expected(t) \o OrdersOf(r, Even(t))
         /\ Even(Append(t, r)) = IF TurnsSide(r) THEN ~Even(t) ELSE Even(t)
<1>1. /\ Append(t, r) \in Seq(Tick) /\ Len(t) \in Nat
      /\ Len(Append(t, r)) = Len(t) + 1
      /\ \A i \in 1 .. Len(t) : Append(t, r)[i] = t[i] /\ t[i] \in Tick
      /\ Append(t, r)[Len(t) + 1] = r
  BY AppendElements
<1>2. PICK n \in Nat : n = Len(t)
  BY <1>1
<1>3. PICK u : u = Append(t, r)
  OBVIOUS
<1>4. /\ \A i \in 0 .. n : /\ PrefixSum(Trades(t), i) \in Int
                           /\ PrefixSum(Trades(u), i) = PrefixSum(Trades(t), i)
      /\ PrefixSum(Trades(u), n + 1)
           = PrefixSum(Trades(t), n) + IF r.type = "t" THEN 1 ELSE 0
  BY <1>2, <1>3, TradesCount, Zenon
<1>5. PICK k \in Int : k = PrefixSum(Trades(t), n)
  <2>1. n \in 0 .. n
    OBVIOUS
  <2>2. QED
    BY <1>4, <2>1, Zenon
<1>6. /\ Even(t) = (k % 2 = 0) /\ Even(t) \in BOOLEAN
      /\ Even(u) = (PrefixSum(Trades(u), n + 1) % 2 = 0)
  <2>1. Len(u) = n + 1
    BY <1>1, <1>2, <1>3
  <2>2. QED
    BY <1>2, <1>5, <2>1, Zenon DEF Even
<1>7. Even(u) = IF TurnsSide(r) THEN ~Even(t) ELSE Even(t)
  <2>1. CASE r.type = "t"
    <3>1. PrefixSum(Trades(u), n + 1) = k + 1
      BY <1>4, <1>5, <2>1, Zenon
    <3>2. ((k + 1) % 2 = 0) <=> ~(k % 2 = 0)
      OBVIOUS
    <3>3. QED
      BY <1>6, <2>1, <3>1, <3>2, Zenon DEF TurnsSide
  <2>2. CASE r.type # "t"
    <3>1. PrefixSum(Trades(u), n + 1) = k + 0
      BY <1>4, <1>5, <2>2, Zenon
    <3>2. k + 0 = k
      OBVIOUS
    <3>3. QED
      BY <1>6, <2>2, <3>1, <3>2, Zenon DEF TurnsSide
  <2>3. QED
    BY <2>1, <2>2
<1> DEFINE v == [i \in 1 .. n + 1 |-> OrdersAt(u, i)]
           w == [i \in 1 .. n |-> OrdersAt(t, i)]
<1>8. \A q : Expected(q) = FlattenSeq([i \in 1 .. Len(q) |-> OrdersAt(q, i)])
  BY Zenon DEF Expected, OrdersAt, OrdersOf
<1>9. Expected(u) = FlattenSeq(v) /\ Expected(t) = FlattenSeq(w)
  <2>1. Len(u) = n + 1
    BY <1>1, <1>2, <1>3
  <2>2. QED
    BY <1>2, <1>8, <2>1, Zenon
<1>10. \A i \in 1 .. n : OrdersAt(u, i) = OrdersAt(t, i)
  <2>1. \A i \in 1 .. n : i \in 0 .. n /\ u[i] = t[i]
    BY <1>1, <1>2, <1>3
  <2>2. QED
    BY <1>4, <2>1, Zenon DEF OrdersAt
<1>11. OrdersAt(u, n + 1) = OrdersOf(r, Even(t))
  <2>1. u[n + 1] = r
    BY <1>1, <1>2, <1>3
  <2>2. CASE r.type = "t"
    <3>1. PrefixSum(Trades(u), n + 1) = k + 1
      BY <1>4, <1>5, <2>2, Zenon
    <3>2. ((k + 1) % 2 = 1) = (k % 2 = 0)
      OBVIOUS
    <3>3. QED
      BY <1>6, <2>1, <3>1, <3>2, Zenon DEF OrdersAt
  <2>3. CASE r.type # "t"
    <3>1. r.type = "q"
      BY <2>3, TickFields
    <3>2. QED
      BY <2>1, <3>1, Zenon DEF OrdersAt, OrdersOf
  <2>4. QED
    BY <2>2, <2>3
<1>12. v \in [1 .. n + 1 -> Seq(ValidOrder)] /\ w \in [1 .. n -> Seq(ValidOrder)]
  <2>1. \A q, i : q[i] \in Tick => OrdersAt(q, i) \in Seq(ValidOrder)
    <3>1. \A j : (j % 2 = 1) \in BOOLEAN
      BY Zenon
    <3>2. QED
      BY <3>1, OrdersValid, Zenon DEF OrdersAt
  <2>2. /\ \A i \in 1 .. n : t[i] \in Tick
        /\ \A i \in 1 .. n + 1 : u[i] \in Tick
    BY <1>1, <1>2, <1>3
  <2>3. QED
    BY <2>1, <2>2, Zenon
<1>13. /\ \A i \in 1 .. n : w[i] = v[i]
       /\ v[n + 1] = OrdersOf(r, Even(t))
  <2>1. n + 1 \in 1 .. n + 1 /\ \A i \in 1 .. n : i \in 1 .. n + 1
    OBVIOUS
  <2>2. QED
    BY <1>10, <1>11, <2>1, Zenon
<1> HIDE DEF v, w
<1>14. FlattenSeq(v) = FlattenSeq(w) \o v[n + 1]
  BY <1>12, <1>13, FlattenLast, Zenon
<1>15. FlattenSeq(w) \in Seq(ValidOrder)
  BY <1>12, FlattenType, Zenon
<1>16. OrdersOf(r, Even(t)) \in Seq(ValidOrder)
  BY <1>6, OrdersValid, Zenon
<1>17. QED
  BY <1>3, <1>7, <1>9, <1>13, <1>14, <1>15, <1>16, Zenon

\* No ticks, no orders.
LEMMA ExpectedNone == Expected(<<>>) = <<>> /\ Even(<<>>)
<1> DEFINE e == <<>>
           z == [i \in 1 .. 0 |-> OrdersAt(e, i)]
<1>1. Len(e) = 0 /\ 1 .. 0 = {}
  OBVIOUS
<1> HIDE DEF e
<1>2. z \in [1 .. 0 -> Seq(ValidOrder)]
  BY <1>1, Zenon
<1>3. Expected(e) = FlattenSeq([i \in 1 .. Len(e) |-> OrdersAt(e, i)])
  BY Zenon DEF Expected, OrdersAt, OrdersOf
<1>4. Expected(e) = FlattenSeq(z)
  BY <1>1, <1>3, Zenon
<1> HIDE DEF z
<1>5. Expected(e) = <<>>
  BY <1>2, <1>4, FlattenNone, Zenon
<1>6. PrefixSum(Trades(e), Len(e)) = 0
  BY <1>1, PrefixSumStep, Zenon
<1>7. 0 % 2 = 0
  OBVIOUS
<1>8. Even(e)
  BY <1>6, <1>7, Zenon DEF Even
<1>9. QED
  BY <1>5, <1>8, Zenon DEF e

-----------------------------------------------------------------------------
(* The stream *)

\* What has been received and not used, and what is still on the wire, start
\* the bytes x; nothing of x is missing while the server is up.
Awaits(r, w, up, x) ==
  \E lost \in Seq(Byte) : Cat(Cat(r, w), lost) = x /\ (up => lost = <<>>)

\* The server sends F.
LEMMA AwaitsServe ==
  ASSUME NEW r \in Seq(Byte), NEW w \in Seq(Byte), NEW x \in Seq(Byte),
         NEW F \in Seq(Byte), NEW up, up, Awaits(r, w, up, x)
  PROVE  Cat(w, F) \in Seq(Byte) /\ Awaits(r, Cat(w, F), up, Cat(x, F))
<1>1. PICK l \in Seq(Byte) : Cat(Cat(r, w), l) = x /\ l = <<>>
  BY Zenon DEF Awaits
<1>2. Cat(Cat(r, w), <<>>) = x
  BY <1>1
<1>3. Cat(r, w) = x
  BY <1>2, CatFacts
<1>4. Cat(r, Cat(w, F)) = Cat(x, F)
  BY <1>3, CatAssociative
<1>5. Cat(w, F) \in Seq(Byte) /\ Cat(x, F) \in Seq(Byte) /\ <<>> \in Seq(Byte)
  BY CatFacts
<1>6. Cat(Cat(r, Cat(w, F)), <<>>) = Cat(x, F)
  BY <1>4, <1>5, CatFacts
<1>7. QED
  BY <1>5, <1>6, Zenon DEF Awaits

\* The connection ends, and the wire may be lost.
LEMMA AwaitsDrop ==
  ASSUME NEW r \in Seq(Byte), NEW w \in Seq(Byte), NEW x, NEW up,
         Awaits(r, w, up, x)
  PROVE  Awaits(r, w, FALSE, x) /\ Awaits(r, <<>>, FALSE, x)
<1>1. PICK l \in Seq(Byte) : Cat(Cat(r, w), l) = x
  BY Zenon DEF Awaits
<1>2. Cat(w, l) \in Seq(Byte) /\ Cat(r, <<>>) = r
  BY CatFacts
<1>3. Cat(Cat(r, w), l) = Cat(r, Cat(w, l))
  BY CatAssociative
<1>4. Cat(Cat(r, <<>>), Cat(w, l)) = x
  BY <1>1, <1>2, <1>3, Zenon
<1>5. QED
  BY <1>1, <1>2, <1>4, Zenon DEF Awaits

\* SSL_read returns the first n bytes of the wire.
LEMMA AwaitsRead ==
  ASSUME NEW r \in Seq(Byte), NEW w \in Seq(Byte), NEW x, NEW up,
         NEW n \in 1 .. Len(w), Awaits(r, w, up, x)
  PROVE  /\ Cat(r, SubSeq(w, 1, n)) \in Seq(Byte)
         /\ SubSeq(w, n + 1, Len(w)) \in Seq(Byte)
         /\ Awaits(Cat(r, SubSeq(w, 1, n)), SubSeq(w, n + 1, Len(w)), up, x)
<1>1. PICK a \in Seq(Byte), b \in Seq(Byte) :
         a = SubSeq(w, 1, n) /\ b = SubSeq(w, n + 1, Len(w)) /\ Cat(a, b) = w
  <2>1. /\ SubSeq(w, 1, n) \in Seq(Byte) /\ SubSeq(w, n + 1, Len(w)) \in Seq(Byte)
        /\ Cat(SubSeq(w, 1, n), SubSeq(w, n + 1, Len(w))) = w
    BY CatSplit
  <2>2. QED
    BY <2>1, Zenon
<1>2. Cat(Cat(r, a), b) = Cat(r, Cat(a, b))
  BY CatAssociative
<1>3. Cat(r, a) \in Seq(Byte)
  BY CatFacts
<1>4. Awaits(Cat(r, a), b, up, x)
  BY <1>1, <1>2, Zenon DEF Awaits
<1>5. QED
  BY <1>1, <1>3, <1>4, Zenon

\* The front c of what is awaited, when it has been received: what remains.
LEMMA AwaitsTake ==
  ASSUME NEW r \in Seq(Byte), NEW w \in Seq(Byte), NEW up,
         NEW c \in Seq(Byte), NEW d \in Seq(Byte),
         Awaits(r, w, up, Cat(c, d)), Len(c) <= Len(r)
  PROVE  /\ SubSeq(r, Len(c) + 1, Len(r)) \in Seq(Byte)
         /\ Awaits(SubSeq(r, Len(c) + 1, Len(r)), w, up, d)
<1>1. PICK l \in Seq(Byte) : Cat(Cat(r, w), l) = Cat(c, d) /\ (up => l = <<>>)
  BY Zenon DEF Awaits
<1>2. PICK m \in Seq(Byte) : m = Cat(w, l)
  BY CatFacts
<1>3. Cat(Cat(r, w), l) = Cat(r, Cat(w, l))
  BY CatAssociative
<1>4. Cat(r, m) = Cat(c, d)
  BY <1>1, <1>2, <1>3, Zenon
<1>5. SubSeq(r, Len(c) + 1, Len(r)) \in Seq(Byte)
      /\ d = Cat(SubSeq(r, Len(c) + 1, Len(r)), m)
  BY <1>4, Overlap
<1>6. PICK e \in Seq(Byte) : e = SubSeq(r, Len(c) + 1, Len(r))
  BY <1>5, Zenon
<1>7. Cat(Cat(e, w), l) = Cat(e, Cat(w, l))
  BY CatAssociative
<1>8. Cat(Cat(e, w), l) = d
  BY <1>2, <1>5, <1>6, <1>7, Zenon
<1>9. QED
  BY <1>1, <1>6, <1>8, Zenon DEF Awaits

\* What has been received agrees with the front of what is awaited.
LEMMA AwaitsAgree ==
  ASSUME NEW r \in Seq(Byte), NEW w \in Seq(Byte), NEW up,
         NEW c \in Seq(Byte), NEW d \in Seq(Byte), Awaits(r, w, up, Cat(c, d))
  PROVE  /\ Len(r) \in Nat /\ Len(c) \in Nat
         /\ \A j \in 1 .. Len(r) : j <= Len(c) => r[j] = c[j]
         /\ Len(r) <= Len(c) + Len(d)
<1>1. PICK l \in Seq(Byte) : Cat(Cat(r, w), l) = Cat(c, d)
  BY Zenon DEF Awaits
<1>2. PICK m \in Seq(Byte) : m = Cat(w, l)
  BY CatFacts
<1>3. Cat(Cat(r, w), l) = Cat(r, Cat(w, l))
  BY CatAssociative
<1>4. PICK z : z = Cat(r, m) /\ z = Cat(c, d)
  BY <1>1, <1>2, <1>3, Zenon
<1>5. /\ Len(r) \in Nat /\ Len(m) \in Nat /\ Len(z) = Len(r) + Len(m)
      /\ \A i \in 1 .. Len(r) : z[i] = r[i]
  <2>1. /\ Len(r) \in Nat /\ Len(m) \in Nat
        /\ Len(Cat(r, m)) = Len(r) + Len(m)
        /\ \A i \in 1 .. Len(r) : Cat(r, m)[i] = r[i]
    BY CatElements
  <2>2. QED
    BY <1>4, <2>1, Zenon
<1>6. /\ Len(c) \in Nat /\ Len(d) \in Nat /\ Len(z) = Len(c) + Len(d)
      /\ \A i \in 1 .. Len(c) : z[i] = c[i]
  <2>1. /\ Len(c) \in Nat /\ Len(d) \in Nat
        /\ Len(Cat(c, d)) = Len(c) + Len(d)
        /\ \A i \in 1 .. Len(c) : Cat(c, d)[i] = c[i]
    BY CatElements
  <2>2. QED
    BY <1>4, <2>1, Zenon
<1>7. ASSUME NEW j \in 1 .. Len(r), j <= Len(c) PROVE r[j] = c[j]
  BY <1>5, <1>6, <1>7
<1>8. QED
  BY <1>5, <1>6, <1>7

-----------------------------------------------------------------------------
(* The connection: what is invariant of the WebSocket and the server *)

WsTypes ==
  /\ script \in Seq(ServerFrames) /\ nread \in 0 .. Len(script)
  /\ rx \in Seq(Byte) /\ wire \in Seq(Byte) /\ tx \in Seq(Sendable)
  /\ ret \in BOOLEAN
  /\ srv \in {"down", "asked", "up", "gone"}
  /\ call \in {"none", "connect", "authenticate", "subscribe", "read_frame"}

\* The upgrade is over, and rx holds frames.
Upgraded == held # {} /\ call # "connect" /\ (ret \/ nread > 0)

\* Before the response nothing has come; then the response and the frames not
\* taken, and after the upgrade these frames alone.
Connection ==
  /\ srv \in {"down", "asked"} => rx = <<>> /\ wire = <<>> /\ script = <<>>
  /\ srv = "down" => call = "none" /\ ~Upgraded
  /\ srv = "asked" => call = "connect"
  /\ call = "connect" /\ srv # "asked" =>
       \E status \in {"101", "403"} :
         Awaits(rx, wire, srv = "up", Cat(Response(status), AheadOf(script, nread)))
  /\ Upgraded => Awaits(rx, wire, srv = "up", AheadOf(script, nread))
  /\ call # "none" => held # {}
  /\ call = "connect" => nread = 0 /\ ret
  /\ call \in {"authenticate", "subscribe", "read_frame"} => Upgraded

\* What was handed out is a frame of the server, whole.
HandedOut ==
  got # <<>> => \E i \in 1 .. nread : /\ script[i].op \in {"text", "binary"}
                                     /\ got = Payload(script[i], i)

\* At most the last pong is missing, when a call has failed.
Echoed ==
  held # {} =>
    \E missing \in Seq(Text) :
      /\ PingsOf(script, nread) = Cat(PongsOf(tx), missing)
      /\ Len(missing) <= 1
      /\ call # "none" \/ ret => missing = <<>>

WInv == WsTypes /\ Connection /\ HandedOut /\ Echoed

\* The response, byte by byte.
LEMMA ResponseBytes ==
  ASSUME NEW status \in {"101", "403"}
  PROVE  /\ Response(status) \in Seq(Byte) /\ Len(Response(status)) = 3
         /\ Response(status)[1] = <<"http", status>>
         /\ Response(status)[2] = <<"http", "header">>
         /\ Response(status)[3] = <<"http", "end">>
<1>1. PICK a \in Byte, b \in Byte, c \in Byte :
         a = <<"http", status>> /\ b = <<"http", "header">> /\ c = <<"http", "end">>
  <2>1. /\ <<"http", status>> \in {"http"} \X {"101", "403", "header", "end"}
        /\ <<"http", "header">> \in {"http"} \X {"101", "403", "header", "end"}
        /\ <<"http", "end">> \in {"http"} \X {"101", "403", "header", "end"}
    OBVIOUS
  <2>2. QED
    BY <2>1, Zenon DEF Byte
<1>2. /\ <<a, b, c>> \in Seq(Byte) /\ Len(<<a, b, c>>) = 3 /\ <<a, b, c>>[1] = a
      /\ <<a, b, c>>[2] = b /\ <<a, b, c>>[3] = c
  OBVIOUS
<1>3. Response(status) = <<a, b, c>>
  BY <1>1, Zenon DEF Response
<1>4. QED
  BY <1>1, <1>2, <1>3, Zenon

\* Initially there is no connection.
LEMMA WInvInit == ASSUME WsInit PROVE WInv
<1>1. WsTypes
  BY EmptySeq DEF WsTypes, WsInit
<1>2. ~Upgraded
  BY Zenon DEF Upgraded, WsInit
<1>3. Connection
  BY <1>2 DEF Connection, WsInit
<1>4. HandedOut /\ Echoed
  BY Zenon DEF HandedOut, Echoed, WsInit
<1>5. QED
  BY <1>1, <1>3, <1>4 DEF WInv

\* Whatever leaves the stream as it is keeps WInv.
LEMMA WInvSame == ASSUME WInv, UNCHANGED wsvars PROVE WInv'
<1> USE DEF wsvars
<1>1. WsTypes'
  BY DEF WInv, WsTypes
<1>2. Upgraded' = Upgraded
  BY Zenon DEF Upgraded
<1>3. Connection'
  BY <1>2 DEF WInv, Connection
<1>4. HandedOut' /\ Echoed'
  BY DEF WInv, HandedOut, Echoed
<1>5. QED
  BY <1>1, <1>3, <1>4 DEF WInv

\* The response comes on a wire that is empty.
LEMMA WInvRespond ==
  ASSUME WInv, NEW status \in {"101", "403"}, Respond(status)
  PROVE  WInv'
<1> USE DEF Respond
<1>1. Response(status) \in Seq(Byte)
  BY ResponseBytes
<1>2. WsTypes'
  BY <1>1 DEF WInv, WsTypes
<1>3. call = "connect" /\ nread = 0 /\ held # {} /\ rx = <<>> /\ script = <<>> /\ ret
  BY DEF WInv, Connection
<1>4. AheadOf(script, nread) = <<>>
  <2>1. Len(script) = 0 /\ script \in Seq(ServerFrames) /\ nread \in 0 .. Len(script)
    BY <1>3, EmptySeq
  <2>2. QED
    BY <1>3, <2>1, AheadTake
<1>5. Awaits(rx', wire', srv' = "up", Cat(Response(status), AheadOf(script', nread')))
  <2>1. /\ Cat(<<>>, Response(status)) = Response(status)
        /\ Cat(Response(status), <<>>) = Response(status)
        /\ <<>> \in Seq(Byte)
    BY <1>1, CatFacts
  <2>2. rx' = <<>> /\ wire' = Response(status)
        /\ AheadOf(script', nread') = <<>>
    BY <1>3, <1>4, Zenon
  <2>3. QED
    BY <2>1, <2>2, Zenon DEF Awaits
<1>6. ~Upgraded'
  BY <1>3, Zenon DEF Upgraded
<1>7. Connection'
  BY <1>3, <1>5, <1>6 DEF WInv, Connection
<1>8. HandedOut' /\ Echoed'
  BY DEF WInv, HandedOut, Echoed
<1>9. QED
  BY <1>2, <1>7, <1>8 DEF WInv

\* A frame of the server comes last, behind the response too.
LEMMA WInvServe ==
  ASSUME WInv, NEW f \in ServerFrames, Serve(f)
  PROVE  WInv'
<1> DEFINE F == ServerFrame(f, Len(script) + 1)
           A == AheadOf(script, nread)
<1>1. /\ script \in Seq(ServerFrames) /\ nread \in 0 .. Len(script)
      /\ rx \in Seq(Byte) /\ wire \in Seq(Byte)
  BY DEF WInv, WsTypes
<1>2. /\ script' = Append(script, f) /\ nread' = nread
      /\ rx' = rx /\ wire' = Cat(wire, F) /\ srv = "up" /\ srv' = "up"
      /\ UNCHANGED <<tx, held, call, left, ret, got>>
  BY Zenon DEF Serve, Cat
<1>3. /\ A \in Seq(Byte) /\ F \in Seq(Byte)
      /\ AheadOf(script', nread') = Cat(A, F)
  BY <1>1, <1>2, AheadServe, Zenon DEF Cat
<1>4. /\ script' \in Seq(ServerFrames) /\ Len(script) \in Nat
      /\ Len(script') = Len(script) + 1
      /\ \A i \in 1 .. Len(script) : script'[i] = script[i]
  BY <1>1, <1>2, AppendElements
<1> HIDE DEF F, A
<1>5. WsTypes'
  <2>1. Cat(wire, F) \in Seq(Byte)
    BY <1>1, <1>3, CatFacts
  <2>2. nread' \in 0 .. Len(script')
    BY <1>1, <1>2, <1>4
  <2>3. QED
    BY <1>2, <1>4, <2>1, <2>2 DEF WInv, WsTypes
<1>6. Upgraded' = Upgraded
  BY <1>2, Zenon DEF Upgraded
<1>7. (srv = "up") = TRUE /\ (srv' = "up") = TRUE
  BY <1>2
<1>8. ASSUME NEW x \in Seq(Byte), Awaits(rx, wire, srv = "up", x)
      PROVE  Awaits(rx', wire', srv' = "up", Cat(x, F))
  <2>1. PICK up : up = (srv = "up")
    OBVIOUS
  <2>2. up /\ Awaits(rx, wire, up, x) /\ up = (srv' = "up")
    BY <1>7, <1>8, <2>1, Zenon
  <2>3. Awaits(rx, Cat(wire, F), up, Cat(x, F))
    BY <1>1, <1>3, <2>2, AwaitsServe, Zenon
  <2>4. QED
    BY <1>2, <2>2, <2>3, Zenon
<1>9. ASSUME call = "connect"
      PROVE  \E status \in {"101", "403"} :
               Awaits(rx', wire', srv' = "up",
                      Cat(Response(status), AheadOf(script', nread')))
  <2>1. PICK status \in {"101", "403"} :
           Awaits(rx, wire, srv = "up", Cat(Response(status), A))
    BY <1>2, <1>9 DEF WInv, Connection, A
  <2>2. Response(status) \in Seq(Byte)
    BY ResponseBytes
  <2>3. Cat(Response(status), A) \in Seq(Byte)
    BY <1>3, <2>2, CatFacts
  <2>4. Cat(Cat(Response(status), A), F) = Cat(Response(status), Cat(A, F))
    BY <1>3, <2>2, CatAssociative
  <2>5. QED
    BY <1>3, <1>8, <2>1, <2>3, <2>4, Zenon
<1>10. ASSUME Upgraded
       PROVE  Awaits(rx', wire', srv' = "up", AheadOf(script', nread'))
  BY <1>3, <1>8, <1>10, Zenon DEF WInv, Connection, A
<1>11. Connection'
  BY <1>2, <1>6, <1>9, <1>10 DEF WInv, Connection
<1>12. HandedOut'
  <2>1. \A i \in 1 .. nread : script'[i] = script[i]
    BY <1>1, <1>4
  <2>2. QED
    BY <1>2, <2>1, Zenon DEF WInv, HandedOut
<1>13. Echoed'
  <2>1. PingsOf(script', nread') = PingsOf(script, nread)
    BY <1>1, <1>2, PingsStep, Zenon
  <2>2. QED
    BY <1>2, <2>1, Zenon DEF WInv, Echoed
<1>14. QED
  BY <1>5, <1>11, <1>12, <1>13 DEF WInv

\* The end of the connection cuts what is awaited, nothing else.
LEMMA WInvDrop == ASSUME WInv, Drop PROVE WInv'
<1>1. /\ rx' = rx /\ (wire' = wire \/ wire' = <<>>) /\ srv' = "gone"
      /\ srv \in {"asked", "up"}
      /\ UNCHANGED <<script, tx, held, call, left, ret, got, nread>>
  BY Zenon DEF Drop
<1>2. rx \in Seq(Byte) /\ wire \in Seq(Byte)
  BY DEF WInv, WsTypes
<1>3. WsTypes'
  BY <1>1, <1>2, EmptySeq DEF WInv, WsTypes
<1>4. Upgraded' = Upgraded
  BY <1>1, Zenon DEF Upgraded
<1>5. ASSUME NEW x, NEW up, Awaits(rx, wire, up, x)
      PROVE  Awaits(rx', wire', srv' = "up", x)
  <2>1. Awaits(rx, wire, FALSE, x) /\ Awaits(rx, <<>>, FALSE, x)
    BY <1>2, <1>5, AwaitsDrop, Zenon
  <2>2. (srv' = "up") = FALSE
    BY <1>1
  <2>3. QED
    BY <1>1, <2>1, <2>2, Zenon
<1>6. ASSUME call = "connect"
      PROVE  \E status \in {"101", "403"} :
               Awaits(rx', wire', srv' = "up",
                      Cat(Response(status), AheadOf(script', nread')))
  <2>1. CASE srv = "asked"
    <3>1. rx = <<>> /\ wire = <<>>
      BY <2>1 DEF WInv, Connection
    <3>2. PICK status \in {"101", "403"} : TRUE
      OBVIOUS
    <3>3. Response(status) \in Seq(Byte) /\ AheadOf(script, nread) \in Seq(Byte)
      BY ResponseBytes, AheadTake DEF WInv, WsTypes
    <3>4. PICK x \in Seq(Byte) : x = Cat(Response(status), AheadOf(script, nread))
      BY <3>3, CatFacts
    <3>5. Cat(Cat(<<>>, <<>>), x) = x
      BY CatFacts
    <3>6. Awaits(rx, wire, FALSE, x)
      BY <3>1, <3>5, Zenon DEF Awaits
    <3>7. QED
      BY <1>1, <1>5, <3>4, <3>6, Zenon
  <2>2. CASE srv # "asked"
    BY <1>1, <1>5, <1>6, <2>2, Zenon DEF WInv, Connection
  <2>3. QED
    BY <2>1, <2>2
<1>7. ASSUME Upgraded
      PROVE  Awaits(rx', wire', srv' = "up", AheadOf(script', nread'))
  BY <1>1, <1>5, <1>7, Zenon DEF WInv, Connection
<1>8. Connection'
  BY <1>1, <1>4, <1>6, <1>7 DEF WInv, Connection
<1>9. HandedOut' /\ Echoed'
  BY <1>1, Zenon DEF WInv, HandedOut, Echoed
<1>10. QED
  BY <1>3, <1>8, <1>9 DEF WInv

\* connect starts afresh: nothing has been received.
LEMMA WInvConnect == ASSUME WInv, WsInit, connect PROVE WInv'
<1>1. /\ UNCHANGED <<script, wire, rx, tx, left, got, nread>>
      /\ \/ srv' = srv /\ call' = "none" /\ ret' = FALSE
         \/ srv' = "asked" /\ call' = "connect" /\ ret' = ret
            /\ held' = {"fd", "ctx", "ssl"}
  BY Zenon DEF connect, Return
<1>2. /\ srv = "down" /\ script = <<>> /\ wire = <<>> /\ rx = <<>> /\ tx = <<>>
      /\ got = <<>> /\ nread = 0 /\ ret = TRUE
  BY DEF WsInit
<1>3. WsTypes'
  BY <1>1, <1>2, EmptySeq DEF WInv, WsTypes
<1>4. ~Upgraded'
  <2>1. nread' = 0 /\ ~(0 > 0)
    BY <1>1, <1>2
  <2>2. (call' = "none" /\ ret' = FALSE) \/ call' = "connect"
    BY <1>1, Zenon
  <2>3. QED
    BY <2>1, <2>2, Zenon DEF Upgraded
<1>5. {"fd", "ctx", "ssl"} # {}
  OBVIOUS
<1>6. Connection'
  BY <1>1, <1>2, <1>4, <1>5 DEF Connection
<1>7. HandedOut'
  BY <1>1, <1>2, Zenon DEF HandedOut
<1>8. Echoed'
  <2>1. PingsOf(script, 0) = <<>>
    <3>1. script \in Seq(ServerFrames) /\ 0 \in 0 .. Len(script)
      BY <1>2 DEF WInv, WsTypes
    <3>2. QED
      BY <3>1, PingsStep, Zenon
  <2>2. PongsOf(<<>>) = <<>>
    <3>1. PICK c \in Sendable : TRUE
      BY RequestText, SendableDecoded
    <3>2. <<>> \in Seq(Sendable)
      OBVIOUS
    <3>3. QED
      BY <3>1, <3>2, PongsSend, Zenon
  <2>3. Cat(<<>>, <<>>) = <<>> /\ <<>> \in Seq(Text)
    BY CatFacts
  <2>4. Len(<<>>) <= 1
    OBVIOUS
  <2>5. QED
    BY <1>1, <1>2, <2>1, <2>2, <2>3, <2>4, Zenon DEF Echoed
<1>9. QED
  BY <1>3, <1>6, <1>7, <1>8 DEF WInv

\* A frame that is not a pong leaves the pongs as they are.
LEMMA SaysText ==
  ASSUME NEW t \in Seq(Sendable), NEW op \in {"text", "close"}, NEW p \in Text
  PROVE  /\ Append(t, ClientFrame(op, p)) \in Seq(Sendable)
         /\ PongsOf(Append(t, ClientFrame(op, p))) = PongsOf(t)
<1>1. PICK c \in Sendable : c = ClientFrame(op, p) /\ Decoded(c) = [op |-> op, payload |-> p]
  <2>1. op \in {"text", "pong", "close"}
    OBVIOUS
  <2>2. QED
    BY <2>1, SendableDecoded, Zenon
<1>2. Decoded(c).op = op /\ op # "pong"
  BY <1>1
<1>3. PongOf(c) = <<>>
  BY <1>2, Zenon DEF PongOf
<1>4. PongsOf(t) \in Seq(Text) /\ PongsOf(Append(t, c)) = PongsOf(t) \o PongOf(c)
  BY PongsSend, Zenon
<1>5. Cat(PongsOf(t), <<>>) = PongsOf(t)
  BY <1>4, CatFacts
<1>6. Append(t, c) \in Seq(Sendable)
  BY AppendElements
<1>7. QED
  BY <1>1, <1>3, <1>4, <1>5, <1>6, Zenon DEF Cat

\* A request goes out on an upgraded connection.
LEMMA WInvRequest ==
  ASSUME WInv, held # {}, ret,
         NEW what, <<<<what>>>> \in Text,
         NEW name \in {"authenticate", "subscribe"}, Request(what, name)
  PROVE  WInv'
<1>1. /\ call = "none" /\ UNCHANGED <<srv, script, wire, rx, held, got, nread>>
      /\ \/ /\ tx' = Append(tx, ClientFrame("text", <<<<what>>>>))
            /\ call' = name /\ ret' = ret
         \/ call' = "none" /\ ret' = FALSE /\ tx' = tx
  BY Zenon DEF Request, send_frame, Return
<1>2. tx \in Seq(Sendable)
  BY DEF WInv, WsTypes
<1>3. tx' \in Seq(Sendable) /\ PongsOf(tx') = PongsOf(tx)
  <2>1. "text" \in {"text", "close"}
    OBVIOUS
  <2>2. /\ Append(tx, ClientFrame("text", <<<<what>>>>)) \in Seq(Sendable)
        /\ PongsOf(Append(tx, ClientFrame("text", <<<<what>>>>))) = PongsOf(tx)
    BY <1>2, <2>1, SaysText, Zenon
  <2>3. QED
    BY <1>1, <1>2, <2>2, Zenon
<1>4. WsTypes'
  BY <1>1, <1>3 DEF WInv, WsTypes
<1>5. Upgraded
  BY <1>1 DEF Upgraded
<1>6. Awaits(rx', wire', srv' = "up", AheadOf(script', nread'))
  BY <1>1, <1>5, Zenon DEF WInv, Connection
<1>7. /\ srv \notin {"down", "asked"}
      /\ call' # "none" => Upgraded'
  <2>1. srv \notin {"down", "asked"}
    BY <1>1, <1>5 DEF WInv, Connection
  <2>2. ASSUME call' # "none" PROVE Upgraded'
    BY <1>1, <2>2 DEF Upgraded
  <2>3. QED
    BY <2>1, <2>2
<1>8. Connection'
  BY <1>1, <1>6, <1>7 DEF Connection
<1>9. HandedOut'
  BY <1>1, Zenon DEF WInv, HandedOut
<1>10. Echoed'
  BY <1>1, <1>3, Zenon DEF WInv, Echoed
<1>11. QED
  BY <1>4, <1>8, <1>9, <1>10 DEF WInv

\* read_frame is called on an upgraded connection only.
LEMMA WInvReadFrame == ASSUME WInv, held # {}, ret, read_frame PROVE WInv'
<1>1. /\ call = "none" /\ call' = "read_frame"
      /\ UNCHANGED <<srv, script, wire, rx, tx, held, left, ret, got, nread>>
  BY Zenon DEF read_frame
<1>2. WsTypes'
  BY <1>1 DEF WInv, WsTypes
<1>3. Upgraded /\ Upgraded'
  BY <1>1 DEF Upgraded
<1>4. Connection'
  BY <1>1, <1>3 DEF WInv, Connection
<1>5. HandedOut' /\ Echoed'
  BY <1>1, Zenon DEF WInv, HandedOut, Echoed
<1>6. QED
  BY <1>2, <1>4, <1>5 DEF WInv

\* close ends the connection, and a close frame is no pong.
LEMMA WInvClose == ASSUME WInv, close PROVE WInv'
<1>1. /\ call = "none" /\ held' = {}
      /\ tx' = Append(tx, ClientFrame("close", <<>>)) \/ tx' = tx
      /\ UNCHANGED <<srv, script, wire, rx, call, left, ret, got, nread>>
  BY Zenon DEF close, send_frame
<1>2. tx' \in Seq(Sendable)
  <2>1. tx \in Seq(Sendable)
    BY DEF WInv, WsTypes
  <2>2. "close" \in {"text", "close"} /\ <<>> \in Text
    BY RequestText
  <2>3. Append(tx, ClientFrame("close", <<>>)) \in Seq(Sendable)
    BY <2>1, <2>2, SaysText, Zenon
  <2>4. QED
    BY <1>1, <2>1, <2>3, Zenon
<1>3. WsTypes'
  BY <1>1, <1>2 DEF WInv, WsTypes
<1>4. ~Upgraded'
  BY <1>1, Zenon DEF Upgraded
<1>5. Connection'
  BY <1>1, <1>4 DEF WInv, Connection
<1>6. HandedOut' /\ Echoed'
  BY <1>1, Zenon DEF WInv, HandedOut, Echoed
<1>7. QED
  BY <1>3, <1>5, <1>6 DEF WInv

\* The death of the process leaves no connection.
LEMMA WInvKilled == ASSUME WInv, Killed PROVE WInv'
<1>1. /\ srv' = "gone" /\ held' = {} /\ call' = "none"
      /\ rx' = <<>> /\ wire' = <<>> /\ tx' = <<>> /\ got' = <<>> /\ ret' = FALSE
      /\ UNCHANGED <<script, nread>>
  BY Zenon DEF Killed
<1>2. WsTypes'
  BY <1>1, EmptySeq DEF WInv, WsTypes
<1>3. ~Upgraded'
  BY <1>1, Zenon DEF Upgraded
<1>4. Connection'
  BY <1>1, <1>3 DEF Connection
<1>5. HandedOut' /\ Echoed'
  BY <1>1, Zenon DEF HandedOut, Echoed
<1>6. QED
  BY <1>2, <1>4, <1>5 DEF WInv

\* SSL_read brings more, or the call fails.
LEMMA WInvSslRead == ASSUME WInv, SSL_read PROVE WInv'
<1>1. /\ call # "none"
      /\ UNCHANGED <<srv, script, tx, held, left, got, nread>>
      /\ \/ \E n \in 1 .. Len(wire) :
              /\ rx' = Cat(rx, SubSeq(wire, 1, n))
              /\ wire' = SubSeq(wire, n + 1, Len(wire))
              /\ UNCHANGED <<call, ret>>
         \/ /\ srv = "gone" /\ call' = "none" /\ ret' = FALSE
            /\ UNCHANGED <<rx, wire>>
  <2>1. call # "none"
    BY DEF SSL_read, Wanting
  <2>2. QED
    BY <2>1, Zenon DEF SSL_read, Return, Cat
<1>2. rx \in Seq(Byte) /\ wire \in Seq(Byte)
  BY DEF WInv, WsTypes
<1>3. CASE UNCHANGED <<call, ret>>
  <2>1. PICK n \in 1 .. Len(wire) : /\ rx' = Cat(rx, SubSeq(wire, 1, n))
                                    /\ wire' = SubSeq(wire, n + 1, Len(wire))
    BY <1>1, <1>3
  <2>2. rx' \in Seq(Byte) /\ wire' \in Seq(Byte)
        /\ \A x, up : Awaits(rx, wire, up, x) => Awaits(rx', wire', up, x)
    <3>1. Cat(rx, SubSeq(wire, 1, n)) \in Seq(Byte)
          /\ SubSeq(wire, n + 1, Len(wire)) \in Seq(Byte)
      <4>1. SubSeq(wire, 1, n) \in Seq(Byte) /\ SubSeq(wire, n + 1, Len(wire)) \in Seq(Byte)
        BY <1>2, CatSplit
      <4>2. QED
        BY <1>2, <4>1, CatFacts
    <3>2. ASSUME NEW x, NEW up, Awaits(rx, wire, up, x)
          PROVE  Awaits(Cat(rx, SubSeq(wire, 1, n)), SubSeq(wire, n + 1, Len(wire)), up, x)
      BY <1>2, <3>2, AwaitsRead
    <3>3. QED
      BY <2>1, <3>1, <3>2, Zenon
  <2>3. WsTypes'
    BY <1>1, <1>3, <2>2 DEF WInv, WsTypes
  <2>4. Upgraded' = Upgraded
    BY <1>1, <1>3, Zenon DEF Upgraded
  <2>5. srv \notin {"down", "asked"}
    <3>1. wire # <<>>
      BY <1>2, <2>1
    <3>2. QED
      BY <3>1 DEF WInv, Connection
  <2>6. ASSUME call = "connect"
        PROVE  \E status \in {"101", "403"} :
                 Awaits(rx', wire', srv' = "up",
                        Cat(Response(status), AheadOf(script', nread')))
    <3>1. PICK status \in {"101", "403"} :
             Awaits(rx, wire, srv = "up", Cat(Response(status), AheadOf(script, nread)))
      BY <2>5, <2>6 DEF WInv, Connection
    <3>2. QED
      BY <1>1, <2>2, <3>1, Zenon
  <2>7. ASSUME Upgraded
        PROVE  Awaits(rx', wire', srv' = "up", AheadOf(script', nread'))
    BY <1>1, <2>2, <2>7, Zenon DEF WInv, Connection
  <2>8. Connection'
    BY <1>1, <1>3, <2>4, <2>5, <2>6, <2>7 DEF WInv, Connection
  <2>9. HandedOut' /\ Echoed'
    BY <1>1, <1>3, Zenon DEF WInv, HandedOut, Echoed
  <2>10. QED
    BY <2>3, <2>8, <2>9 DEF WInv
<1>4. CASE srv = "gone" /\ call' = "none" /\ ret' = FALSE /\ UNCHANGED <<rx, wire>>
  <2>1. WsTypes'
    BY <1>1, <1>4 DEF WInv, WsTypes
  <2>2. Upgraded' => Upgraded
    <3>1. SUFFICES ASSUME Upgraded' PROVE Upgraded
      OBVIOUS
    <3>2. held # {} /\ nread > 0
      BY <1>1, <1>4, <3>1 DEF Upgraded
    <3>3. call # "connect"
      BY <3>2 DEF WInv, Connection
    <3>4. QED
      BY <3>2, <3>3 DEF Upgraded
  <2>3. ASSUME Upgraded'
        PROVE  Awaits(rx', wire', srv' = "up", AheadOf(script', nread'))
    BY <1>1, <1>4, <2>2, <2>3, Zenon DEF WInv, Connection
  <2>4. Connection'
    BY <1>1, <1>4, <2>3 DEF Connection
  <2>5. HandedOut' /\ Echoed'
    BY <1>1, <1>4, Zenon DEF WInv, HandedOut, Echoed
  <2>6. QED
    BY <2>1, <2>4, <2>5 DEF WInv
<1>5. QED
  BY <1>1, <1>3, <1>4

\* The header block ends with the third byte of the response.
LEMMA HeaderBlock ==
  ASSUME WInv, call = "connect", HeaderEnd # 0
  PROVE  /\ srv # "asked" /\ HeaderEnd = 3
         /\ \E status \in {"101", "403"} :
              /\ Awaits(rx, wire, srv = "up",
                        Cat(Response(status), AheadOf(script, nread)))
              /\ Len(Response(status)) <= Len(rx)
<1> DEFINE I == {i \in 1 .. Len(rx) : rx[i][1] = "http" /\ rx[i][2] = "end"}
<1>1. HeaderEnd = IF I # {} THEN Min(I) ELSE 0
  BY Zenon DEF HeaderEnd, SelectInSeq
<1>2. I # {} /\ HeaderEnd = Min(I)
  BY <1>1, Zenon
<1>3. rx \in Seq(Byte) /\ wire \in Seq(Byte) /\ Len(rx) \in Nat
      /\ script \in Seq(ServerFrames) /\ nread \in 0 .. Len(script)
  BY LenProperties DEF WInv, WsTypes
<1>4. Min(I) \in I /\ \A y \in I : Min(I) <= y
  <2>1. I \in SUBSET Nat
    BY <1>3
  <2>2. QED
    BY <1>2, <2>1, MinNat
<1>5. srv # "asked"
  <2>1. SUFFICES ASSUME srv = "asked" PROVE FALSE
    OBVIOUS
  <2>2. rx = <<>>
    BY <2>1 DEF WInv, Connection
  <2>3. QED
    BY <1>2, <2>2
<1>6. PICK status \in {"101", "403"} :
         Awaits(rx, wire, srv = "up", Cat(Response(status), AheadOf(script, nread)))
  BY <1>5 DEF WInv, Connection
<1>7. /\ Response(status) \in Seq(Byte) /\ Len(Response(status)) = 3
      /\ Response(status)[1] = <<"http", status>>
      /\ Response(status)[2] = <<"http", "header">>
      /\ Response(status)[3] = <<"http", "end">>
  BY ResponseBytes
<1>8. AheadOf(script, nread) \in Seq(Byte)
  BY <1>3, AheadTake
<1>9. \A j \in 1 .. Len(rx) : j <= 3 => rx[j] = Response(status)[j]
  <2>1. \A j \in 1 .. Len(rx) : j <= Len(Response(status)) => rx[j] = Response(status)[j]
    <3>0. PICK up : up = (srv = "up")
      OBVIOUS
    <3>1. PICK c \in Seq(Byte), d \in Seq(Byte) :
             c = Response(status) /\ d = AheadOf(script, nread)
      BY <1>7, <1>8, Zenon
    <3>2. Awaits(rx, wire, up, Cat(c, d))
      BY <1>6, <3>0, <3>1, Zenon
    <3>3. \A j \in 1 .. Len(rx) : j <= Len(c) => rx[j] = c[j]
      BY <1>3, <3>2, AwaitsAgree
    <3>4. QED
      BY <3>1, <3>3, Zenon
  <2>2. QED
    BY <1>7, <2>1
<1>10. PICK m \in 1 .. Len(rx) : /\ m = Min(I) /\ rx[m][1] = "http" /\ rx[m][2] = "end"
  BY <1>4
<1>11. m # 1 /\ m # 2
  <2>1. 1 \in 1 .. Len(rx) => rx[1] = <<"http", status>>
    BY <1>7, <1>9
  <2>2. 2 \in 1 .. Len(rx) => rx[2] = <<"http", "header">>
    BY <1>7, <1>9
  <2>3. QED
    BY <1>10, <2>1, <2>2
<1>12. 3 \in 1 .. Len(rx) /\ Len(rx) >= 3
  BY <1>3, <1>10, <1>11
<1>13. 3 \in I
  <2>1. rx[3] = <<"http", "end">>
    BY <1>7, <1>9, <1>12
  <2>2. rx[3][1] = "http" /\ rx[3][2] = "end"
    BY <2>1
  <2>3. QED
    BY <1>12, <2>2
<1>14. m = 3
  BY <1>3, <1>4, <1>10, <1>11, <1>13
<1>15. QED
  BY <1>2, <1>5, <1>6, <1>7, <1>10, <1>12, <1>14

\* http_upgrade keeps the bytes behind the header block.
LEMMA WInvUpgrade == ASSUME WInv, http_upgrade PROVE WInv'
<1>1. /\ call = "connect" /\ HeaderEnd # 0 /\ call' = "none"
      /\ UNCHANGED <<srv, script, wire, tx, held, left, got, nread>>
      /\ \/ rx' = CarryOver /\ ret' = TRUE
         \/ rx' = rx /\ ret' = FALSE
  BY Zenon DEF http_upgrade, Return
<1>2. PICK status \in {"101", "403"} :
         /\ Awaits(rx, wire, srv = "up", Cat(Response(status), AheadOf(script, nread)))
         /\ Len(Response(status)) <= Len(rx)
  BY <1>1, HeaderBlock, Zenon
<1>3. srv # "asked" /\ HeaderEnd = 3
  BY <1>1, HeaderBlock, Zenon
<1>4. rx \in Seq(Byte) /\ wire \in Seq(Byte)
      /\ script \in Seq(ServerFrames) /\ nread \in 0 .. Len(script)
  BY DEF WInv, WsTypes
<1>5. Response(status) \in Seq(Byte) /\ Len(Response(status)) = 3
  BY ResponseBytes
<1>6. AheadOf(script, nread) \in Seq(Byte)
  BY <1>4, AheadTake
<1>7. CarryOver \in Seq(Byte) /\ Awaits(CarryOver, wire, srv = "up", AheadOf(script, nread))
  <2>1. CarryOver = SubSeq(rx, Len(Response(status)) + 1, Len(rx))
    BY <1>3, <1>5, Zenon DEF CarryOver
  <2>2. QED
    BY <1>2, <1>4, <1>5, <1>6, <2>1, AwaitsTake, Zenon
<1>8. WsTypes'
  BY <1>1, <1>4, <1>7 DEF WInv, WsTypes
<1>9. nread = 0 /\ held # {} /\ ret /\ srv # "down"
  BY <1>1 DEF WInv, Connection
<1>10. Upgraded' => rx' = CarryOver
  BY <1>1, <1>9 DEF Upgraded
<1>11. Connection'
  BY <1>1, <1>3, <1>7, <1>9, <1>10 DEF Connection
<1>12. HandedOut'
  BY <1>1, Zenon DEF WInv, HandedOut
<1>13. Echoed'
  <2>1. call # "none"
    BY <1>1
  <2>2. QED
    BY <1>1, <2>1, Zenon DEF WInv, Echoed
<1>14. QED
  BY <1>8, <1>11, <1>12, <1>13 DEF WInv

\* What read_frame does with frame f, of payload p.
Takes(f, p) ==
  \/ f.op \in {"text", "binary"} /\ Deliver(p) /\ UNCHANGED tx
  \/ f.op = "ping" /\ Answer(p) /\ UNCHANGED <<left, got>>
  \/ f.op \in {"pong", "other"} /\ UNCHANGED <<tx, call, ret, left, got>>
  \/ f.op = "close" /\ Return(FALSE) /\ UNCHANGED <<tx, left, got>>

\* take_frame in terms of the header and the first byte.
LEMMA TakesOf ==
  ASSUME take_frame, NEW f, NEW p, NEW h, NEW e, rx[1][2] = f.op,
         Header(rx) = [hdr |-> h, end |-> e], SubSeq(rx, h + 1, e) = p
  PROVE  /\ Takes(f, p) /\ rx' = SubSeq(rx, e + 1, Len(rx)) /\ nread' = nread + 1
         /\ UNCHANGED <<srv, script, wire, held>>
<1>1. Header(rx).hdr = h /\ Header(rx).end = e
  OBVIOUS
<1>2. QED
  BY <1>1, Zenon DEF take_frame, Takes

\* A header that has come is the header of the frame.
LEMMA HeadsOf ==
  ASSUME NEW r, NEW F, NEW op, NEW masked, NEW n, Heads(F, op, masked, n),
         Len(r) \in Nat, Len(F) \in Nat, Digits(n) \in Nat, Len(F) >= 2 + Digits(n),
         \A j \in 1 .. Len(r) : j <= Len(F) => r[j] = F[j]
  PROVE  Heads(r, op, masked, n)
<1>1. Len(r) >= 1 => r[1] = <<"op", op>>
  <2>1. F[1] = <<"op", op>>
    BY DEF Heads
  <2>2. Len(r) >= 1 => r[1] = F[1]
    OBVIOUS
  <2>3. QED
    BY <2>1, <2>2
<1>2. Len(r) >= 2 => r[2] = <<"len", masked, Code(n, Digits(n))>>
  <2>1. F[2] = <<"len", masked, Code(n, Digits(n))>>
    BY DEF Heads
  <2>2. Len(r) >= 2 => r[2] = F[2]
    OBVIOUS
  <2>3. QED
    BY <2>1, <2>2
<1>3. ASSUME NEW k \in 1 .. Digits(n), Len(r) >= 2 + k
      PROVE  r[2 + k] = <<"digit", Digit(n, Digits(n), k)>>
  <2>1. Len(F) >= 2 + k /\ 2 + k \in 1 .. Len(r) /\ 2 + k <= Len(F)
    BY <1>3
  <2>2. F[2 + k] = <<"digit", Digit(n, Digits(n), k)>>
    BY <2>1 DEF Heads
  <2>3. QED
    BY <2>1, <2>2
<1>4. QED
  BY <1>1, <1>2, <1>3 DEF Heads

\* take_frame takes the next frame of the server, whole.
LEMMA TakeFrame ==
  ASSUME WInv, take_frame
  PROVE  /\ nread + 1 \in 1 .. Len(script) /\ nread' = nread + 1
         /\ script[nread + 1] \in ServerFrames
         /\ UNCHANGED <<srv, script, wire, held>>
         /\ call \in {"authenticate", "subscribe", "read_frame"}
         /\ rx' \in Seq(Byte)
         /\ Awaits(rx', wire', srv' = "up", AheadOf(script', nread'))
         /\ Takes(script[nread + 1], Payload(script[nread + 1], nread + 1))
<1>1. /\ script \in Seq(ServerFrames) /\ nread \in 0 .. Len(script)
      /\ rx \in Seq(Byte) /\ wire \in Seq(Byte) /\ Len(rx) \in Nat
      /\ Len(script) \in Nat
  BY LenProperties DEF WInv, WsTypes
<1>2. /\ call \in {"authenticate", "subscribe", "read_frame"}
      /\ Len(rx) >= Needed(rx)
  BY Zenon DEF take_frame
<1>3. PICK up : up = (srv = "up")
  OBVIOUS
<1>4. Awaits(rx, wire, up, AheadOf(script, nread))
  <2>1. Upgraded
    BY <1>2 DEF WInv, Connection
  <2>2. QED
    BY <1>3, <2>1, Zenon DEF WInv, Connection
<1>5. nread < Len(script)
  <2>1. SUFFICES ASSUME nread = Len(script) PROVE FALSE
    BY <1>1
  <2>2. AheadOf(script, nread) = <<>>
    BY <1>1, <2>1, AheadTake
  <2>3. Cat(<<>>, <<>>) = <<>> /\ <<>> \in Seq(Byte)
    BY CatFacts
  <2>4. Awaits(rx, wire, up, Cat(<<>>, <<>>))
    BY <1>4, <2>2, <2>3, Zenon
  <2>5. Len(rx) <= Len(<<>>) + Len(<<>>)
    BY <1>1, <2>3, <2>4, AwaitsAgree, Zenon
  <2>6. Len(rx) < 2
    BY <1>1, <2>5
  <2>7. Needed(rx) = 2
    BY <2>6, Zenon DEF Needed
  <2>8. QED
    BY <1>2, <2>6, <2>7
<1>6. PICK i \in Nat : i = nread + 1 /\ i \in 1 .. Len(script)
  BY <1>1, <1>5
<1>7. PICK f \in ServerFrames, d \in Seq(Byte) :
         /\ f = script[i] /\ d = AheadOf(script, i)
         /\ AheadOf(script, nread) = Cat(ServerFrame(f, i), d)
  <2>1. /\ AheadOf(script, nread + 1) \in Seq(Byte) /\ script[nread + 1] \in ServerFrames
        /\ AheadOf(script, nread)
             = ServerFrame(script[nread + 1], nread + 1) \o AheadOf(script, nread + 1)
    BY <1>1, <1>5, AheadTake
  <2>2. QED
    BY <1>6, <2>1, Zenon DEF Cat
<1>8. /\ f.masked \in BOOLEAN /\ f.len \in Writable
      /\ Payload(f, i) \in Seq(Byte) /\ Len(Payload(f, i)) = f.len
      /\ IsFrame(ServerFrame(f, i), Byte, f.op, f.masked, Payload(f, i))
  BY ServerFrameBytes
<1>9. PICK p \in Seq(Byte), n \in Writable, h \in Nat, F \in Seq(Byte) :
         /\ p = Payload(f, i) /\ n = f.len /\ Len(p) = n
         /\ h = HeadLen(f.masked, n) /\ F = ServerFrame(f, i)
         /\ Len(F) = h + n /\ h >= 2
         /\ Heads(F, f.op, f.masked, n)
         /\ \A k \in 1 .. n : F[h + k] = p[k]
  <2>1. /\ ServerFrame(f, i) \in Seq(Byte) /\ HeadLen(f.masked, f.len) \in Nat
        /\ Len(ServerFrame(f, i)) = HeadLen(f.masked, f.len) + f.len
        /\ HeadLen(f.masked, f.len) >= 2
        /\ Heads(ServerFrame(f, i), f.op, f.masked, f.len)
        /\ \A k \in 1 .. f.len : ServerFrame(f, i)[HeadLen(f.masked, f.len) + k] = Payload(f, i)[k]
    BY <1>8, Zenon DEF IsFrame
  <2>2. QED
    BY <1>8, <2>1, Zenon
<1>10. Awaits(rx, wire, up, Cat(F, d))
  BY <1>4, <1>7, <1>9, Zenon
<1>11. \A j \in 1 .. Len(rx) : j <= Len(F) => rx[j] = F[j]
  BY <1>1, <1>10, AwaitsAgree
<1>12. n \in Nat /\ Digits(n) \in Nat /\ Len(F) \in Nat
  BY DigitsEnough, LenProperties
<1>13. Len(F) >= 2 + Digits(n)
  <2>1. MaskLen \in Nat /\ n \in Nat
    BY <1>12, WireAssumption
  <2>2. Len(F) = (2 + Digits(n) + IF f.masked THEN MaskLen ELSE 0) + n
    BY <1>9, Zenon DEF HeadLen
  <2>3. QED
    BY <1>12, <2>1, <2>2
<1>14. Heads(rx, f.op, f.masked, n)
  BY <1>1, <1>9, <1>11, <1>12, <1>13, HeadsOf
<1>15. /\ Len(rx) >= h + n /\ rx[1] = <<"op", f.op>>
       /\ Header(rx) = [hdr |-> h, end |-> h + n]
  BY <1>1, <1>2, <1>8, <1>9, <1>14, FrameComplete
<1>16. SubSeq(rx, h + 1, h + n) = p
  <2>1. /\ SubSeq(rx, h + 1, h + n) \in Seq(Byte)
        /\ Len(SubSeq(rx, h + 1, h + n)) = n
        /\ \A k \in 1 .. n : SubSeq(rx, h + 1, h + n)[k] = rx[h + k]
    <3>1. PICK m \in Int, e \in Int : m = h + 1 /\ e = h + n
      BY <1>12
    <3>2. \A k \in m .. e : rx[k] \in Byte
      <4>1. \A k \in 1 .. Len(rx) : rx[k] \in Byte
        BY <1>1, ElementOfSeq
      <4>2. QED
        BY <1>1, <1>12, <1>15, <3>1, <4>1
    <3>3. /\ SubSeq(rx, m, e) \in Seq(Byte)
          /\ Len(SubSeq(rx, m, e)) = IF m <= e THEN e - m + 1 ELSE 0
          /\ \A k \in 1 .. e - m + 1 : SubSeq(rx, m, e)[k] = rx[m + k - 1]
      BY <3>2, SubSeqProperties
    <3>4. PICK q : q = SubSeq(rx, m, e)
      OBVIOUS
    <3>5. e - m + 1 = n /\ \A k \in 1 .. n : m + k - 1 = h + k
      BY <1>12, <3>1
    <3>6. Len(q) = n
      BY <1>12, <3>1, <3>3, <3>4
    <3>7. \A k \in 1 .. n : q[k] = rx[h + k]
      BY <3>3, <3>4, <3>5, Zenon
    <3>8. QED
      BY <3>1, <3>3, <3>4, <3>6, <3>7, Zenon
  <2>2. ASSUME NEW k \in 1 .. n PROVE rx[h + k] = p[k]
    <3>1. Len(F) = h + n /\ Len(rx) >= h + n /\ Len(rx) \in Nat
      BY <1>1, <1>9, <1>15, LenProperties, Zenon
    <3>2. h + k \in 1 .. Len(rx) /\ h + k <= Len(F)
      BY <1>12, <3>1
    <3>3. rx[h + k] = F[h + k]
      BY <1>11, <3>2, Zenon
    <3>4. QED
      BY <1>9, <3>3, Zenon
  <2>3. PICK q \in Seq(Byte) : /\ q = SubSeq(rx, h + 1, h + n) /\ Len(q) = n
                               /\ \A k \in 1 .. n : q[k] = p[k]
    BY <2>1, <2>2
  <2>4. q = p
    <3>1. Len(q) = Len(p) /\ \A k \in 1 .. Len(q) : q[k] = p[k]
      BY <1>9, <2>3, Zenon
    <3>2. QED
      BY <3>1, SeqEqual
  <2>5. QED
    BY <2>3, <2>4
<1>17. rx[1][2] = f.op
  BY <1>15
<1>18. PICK e \in Nat : e = h + n /\ e = Len(F) /\ e <= Len(rx)
  BY <1>9, <1>12, <1>15
<1>19. /\ Takes(f, p) /\ rx' = SubSeq(rx, e + 1, Len(rx)) /\ nread' = nread + 1
       /\ UNCHANGED <<srv, script, wire, held>>
  BY <1>15, <1>16, <1>17, <1>18, TakesOf
<1>20. rx' \in Seq(Byte) /\ Awaits(rx', wire, up, d)
  <2>1. Len(F) <= Len(rx) /\ rx' = SubSeq(rx, Len(F) + 1, Len(rx))
    BY <1>18, <1>19
  <2>2. /\ SubSeq(rx, Len(F) + 1, Len(rx)) \in Seq(Byte)
        /\ Awaits(SubSeq(rx, Len(F) + 1, Len(rx)), wire, up, d)
    BY <1>1, <1>10, <2>1, AwaitsTake
  <2>3. QED
    BY <2>1, <2>2, Zenon
<1>21. QED
  BY <1>2, <1>3, <1>6, <1>7, <1>9, <1>19, <1>20, Zenon

\* A pong for every ping.
LEMMA PongText ==
  ASSUME NEW t \in Seq(Sendable), NEW p \in Text
  PROVE  /\ Append(t, ClientFrame("pong", p)) \in Seq(Sendable)
         /\ PongsOf(Append(t, ClientFrame("pong", p))) = Cat(PongsOf(t), <<p>>)
<1>1. PICK c \in Sendable :
         c = ClientFrame("pong", p) /\ Decoded(c) = [op |-> "pong", payload |-> p]
  <2>1. "pong" \in {"text", "pong", "close"}
    OBVIOUS
  <2>2. QED
    BY <2>1, SendableDecoded, Zenon
<1>2. Decoded(c).op = "pong" /\ Decoded(c).payload = p
  BY <1>1
<1>3. PongOf(c) = <<p>>
  BY <1>2, Zenon DEF PongOf
<1>4. PongsOf(Append(t, c)) = PongsOf(t) \o PongOf(c)
  BY PongsSend, Zenon
<1>5. Append(t, c) \in Seq(Sendable)
  BY AppendElements
<1>6. QED
  BY <1>1, <1>3, <1>4, <1>5, Zenon DEF Cat

\* take_frame takes the next frame whole, and a ping gets its pong or the
\* call fails.
LEMMA WInvTake == ASSUME WInv, take_frame PROVE WInv'
<1>1. /\ script \in Seq(ServerFrames) /\ nread \in 0 .. Len(script)
      /\ tx \in Seq(Sendable) /\ Len(script) \in Nat /\ ret \in BOOLEAN
  BY LenProperties DEF WInv, WsTypes
<1>2. /\ nread + 1 \in 1 .. Len(script) /\ nread' = nread + 1
      /\ script[nread + 1] \in ServerFrames
      /\ UNCHANGED <<srv, script, wire, held>>
      /\ call \in {"authenticate", "subscribe", "read_frame"}
      /\ rx' \in Seq(Byte)
      /\ Awaits(rx', wire', srv' = "up", AheadOf(script', nread'))
      /\ Takes(script[nread + 1], Payload(script[nread + 1], nread + 1))
  BY TakeFrame
<1>3. PICK i \in Nat : i = nread + 1 /\ i \in 1 .. Len(script)
  BY <1>1, <1>2
<1>4. PICK f \in ServerFrames : f = script[i]
  BY <1>2, <1>3
<1>5. PICK p \in Text : p = Payload(f, i)
  BY ServerFrameBytes
<1>6. Takes(f, p)
  BY <1>2, <1>3, <1>4, <1>5, Zenon
<1>7. \/ f.op # "ping" /\ tx' = tx
         /\ ((call' = call /\ ret' = ret) \/ (call' = "none" /\ ret' \in BOOLEAN))
      \/ f.op = "ping" /\ tx' = Append(tx, ClientFrame("pong", p))
         /\ call' = call /\ ret' = ret
      \/ f.op = "ping" /\ tx' = tx /\ call' = "none" /\ ret' = FALSE
  <2>1. CASE f.op \in {"text", "binary"} /\ Deliver(p) /\ UNCHANGED tx
    <3>1. (call' = call /\ ret' = ret) \/ (call' = "none" /\ ret' \in BOOLEAN)
      BY <2>1 DEF Deliver, Return
    <3>2. f.op # "ping"
      BY <2>1
    <3>3. QED
      BY <2>1, <3>1, <3>2
  <2>2. CASE f.op = "ping" /\ Answer(p) /\ UNCHANGED <<left, got>>
    BY <2>2, Zenon DEF Answer, Return, send_frame
  <2>3. CASE f.op \in {"pong", "other"} /\ UNCHANGED <<tx, call, ret, left, got>>
    BY <2>3
  <2>4. CASE f.op = "close" /\ Return(FALSE) /\ UNCHANGED <<tx, left, got>>
    BY <2>4 DEF Return
  <2>5. QED
    BY <1>6, <2>1, <2>2, <2>3, <2>4, Zenon DEF Takes
<1>8. got' = got \/ (f.op \in {"text", "binary"} /\ got' = p)
  BY <1>6, Zenon DEF Takes, Deliver
<1>9. /\ Append(tx, ClientFrame("pong", p)) \in Seq(Sendable)
      /\ PongsOf(Append(tx, ClientFrame("pong", p))) = Cat(PongsOf(tx), <<p>>)
  BY <1>1, PongText
<1>10. WsTypes'
  <2>1. tx' \in Seq(Sendable)
    BY <1>1, <1>7, <1>9, Zenon
  <2>2. ret' \in BOOLEAN
    BY <1>1, <1>7
  <2>3. call' \in {"none", "authenticate", "subscribe", "read_frame"}
    BY <1>2, <1>7
  <2>4. nread' \in 0 .. Len(script)
    BY <1>1, <1>2
  <2>5. QED
    BY <1>2, <2>1, <2>2, <2>3, <2>4 DEF WInv, WsTypes
<1>11. held # {} /\ srv \notin {"down", "asked"} /\ call # "none"
  BY <1>2 DEF WInv, Connection
<1>12. call' # "connect"
  BY <1>2, <1>7
<1>13. nread' > 0
  BY <1>1, <1>2
<1>14. Upgraded'
  BY <1>2, <1>11, <1>12, <1>13, Zenon DEF Upgraded
<1>15. Connection'
  BY <1>2, <1>11, <1>12, <1>14 DEF Connection
<1>16. HandedOut'
  <2>1. 1 .. nread \subseteq 1 .. i /\ i \in 1 .. i /\ nread' = i
    BY <1>1, <1>2, <1>3
  <2>2. QED
    BY <1>2, <1>4, <1>5, <1>8, <2>1, Zenon DEF WInv, HandedOut
<1>17. Echoed'
  <2>1. PICK m \in Seq(Text) : /\ PingsOf(script, nread) = Cat(PongsOf(tx), m)
                               /\ m = <<>>
    BY <1>11, Zenon DEF WInv, Echoed
  <2>2. PongsOf(tx) \in Seq(Text)
    <3>1. PICK c \in Sendable : TRUE
      BY RequestText, SendableDecoded
    <3>2. QED
      BY <1>1, <3>1, PongsSend, Zenon
  <2>3. Cat(PongsOf(tx), <<>>) = PongsOf(tx) /\ <<>> \in Seq(Text) /\ Len(<<>>) <= 1
    BY <2>2, CatFacts
  <2>4. PingsOf(script, nread) = PongsOf(tx)
    BY <2>1, <2>3, Zenon
  <2>5. PingsOf(script, i) = Cat(PingsOf(script, nread), PingOf(f, i))
    <3>1. PingsOf(script, nread + 1)
            = PingsOf(script, nread) \o PingOf(script[nread + 1], nread + 1)
      <4>1. nread < Len(script)
        BY <1>1, <1>2
      <4>2. QED
        BY <1>1, <4>1, PingsStep
    <3>2. QED
      BY <1>3, <1>4, <3>1, Zenon DEF Cat
  <2>6. PingsOf(script', nread') = Cat(PongsOf(tx), PingOf(f, i))
    BY <1>2, <1>3, <2>4, <2>5, Zenon
  <2>7. /\ <<p>> \in Seq(Text) /\ Len(<<p>>) <= 1
        /\ Cat(Cat(PongsOf(tx), <<p>>), <<>>) = Cat(PongsOf(tx), <<p>>)
    <3>1. <<p>> \in Seq(Text) /\ Len(<<p>>) <= 1
      BY Single
    <3>2. QED
      BY <2>2, <3>1, CatFacts
  <2>8. CASE f.op # "ping" /\ tx' = tx
    <3>1. PingOf(f, i) = <<>>
      BY <2>8, Zenon DEF PingOf
    <3>2. QED
      BY <2>3, <2>6, <2>8, <3>1, Zenon DEF Echoed
  <2>9. CASE f.op = "ping"
    <3>1. PingOf(f, i) = <<p>>
      BY <1>5, <2>9, Zenon DEF PingOf
    <3>2. CASE tx' = Append(tx, ClientFrame("pong", p))
      <4>1. PingsOf(script', nread') = Cat(PongsOf(tx'), <<>>)
        BY <1>9, <2>6, <2>7, <3>1, <3>2, Zenon
      <4>2. QED
        BY <2>3, <4>1, Zenon DEF Echoed
    <3>3. CASE tx' = tx /\ call' = "none" /\ ret' = FALSE
      <4>1. PingsOf(script', nread') = Cat(PongsOf(tx'), <<p>>)
        BY <2>6, <3>1, <3>3, Zenon
      <4>2. QED
        BY <2>7, <3>3, <4>1, Zenon DEF Echoed
    <3>4. QED
      BY <1>7, <2>9, <3>2, <3>3, Zenon
  <2>10. QED
    BY <1>7, <2>8, <2>9, Zenon
<1>18. QED
  BY <1>10, <1>15, <1>16, <1>17 DEF WInv

-----------------------------------------------------------------------------
(* The process: where main is, and what the socket is doing then *)

Stages == {"start", "open", "connect", "auth", "subscribe", "stream", "frame",
           "objects", "send", "replay", "exit", "crashed"}

\* Which call may be under way at which place of main.
InCall ==
  /\ mpc # "replay"
  /\ mpc \in {"start", "open", "connect"} => WsInit
  /\ mpc = "auth" => call \in {"none", "connect"} /\ nread = 0
  /\ mpc = "subscribe" => call \in {"none", "authenticate"}
  /\ mpc = "stream" => call \in {"none", "subscribe"}
  /\ mpc = "frame" => call \in {"none", "read_frame"}
  /\ mpc \in {"objects", "send"} => call = "none" /\ ret
  /\ mpc \notin {"start", "open", "connect"} => held # {} \/ ~ret

Control ==
  /\ proc \in {"live", "replay"} /\ mpc \in Stages
  /\ ~Streaming => call = "none" /\ held = {}
  /\ proc = "replay" => mpc \in {"start", "replay", "send", "exit"}
  /\ Streaming => InCall

\* Where main is, as long as a live process runs.
LEMMA StreamingAt ==
  ASSUME Control
  PROVE  /\ mpc \in {"open", "connect", "auth", "subscribe", "stream", "frame",
                     "objects"} => Streaming
         /\ mpc = "replay" => proc = "replay"
         /\ call # "none" => Streaming
BY DEF Control, Streaming, Over, InCall, Stages

\* Every step keeps WInv.
LEMMA WInvNext == ASSUME WInv, Control, Next PROVE WInv'
<1>1. CASE UNCHANGED wsvars
  BY <1>1, WInvSame
<1>2. CASE connect /\ mpc = "connect"
  <2>1. WsInit
    BY <1>2, StreamingAt DEF Control, InCall
  <2>2. QED
    BY <1>2, <2>1, WInvConnect
<1>3. CASE mpc = "auth" /\ ret /\ authenticate
  <2>1. held # {}
    BY <1>3, StreamingAt DEF Control, InCall
  <2>2. "authenticate" \in {"authenticate", "subscribe"}
    OBVIOUS
  <2>3. Request("auth", "authenticate")
    BY <1>3, Zenon DEF authenticate
  <2>4. QED
    BY <1>3, <2>1, <2>2, <2>3, RequestText, WInvRequest, Zenon
<1>4. CASE mpc = "subscribe" /\ ret /\ subscribe
  <2>1. held # {}
    BY <1>4, StreamingAt DEF Control, InCall
  <2>2. "subscribe" \in {"authenticate", "subscribe"}
    OBVIOUS
  <2>3. Request("subscribe", "subscribe")
    BY <1>4, Zenon DEF subscribe
  <2>4. QED
    BY <1>4, <2>1, <2>2, <2>3, RequestText, WInvRequest, Zenon
<1>5. CASE stream_loop
  <2>1. held # {}
    BY <1>5, StreamingAt DEF Control, InCall, stream_loop
  <2>2. QED
    BY <1>5, <2>1, WInvReadFrame, Zenon DEF stream_loop
<1>6. CASE close
  BY <1>6, WInvClose
<1>7. CASE Killed
  BY <1>7, WInvKilled
<1>8. CASE ReadStep
  BY <1>8, WInvSslRead, WInvUpgrade, WInvTake, Zenon DEF ReadStep
<1>9. CASE Server
  BY <1>9, WInvRespond, WInvServe, WInvDrop, Zenon DEF Server
<1>10. QED
  BY <1>1, <1>2, <1>3, <1>4, <1>5, <1>6, <1>7, <1>8, <1>9, Zenon
     DEF Next, Main, dial, open_capture, set_up, give_up, split, on_object,
         frame_done, run_replay, send_wire, Signal, ExchangeGone, Crash, StartReplay

\* A step inside a call.
LEMMA ReadEffect ==
  ASSUME WInv, ReadStep
  PROVE  /\ UNCHANGED <<srv, script, held>> /\ held # {} /\ call # "none"
         /\ call' \in {call, "none"} /\ (call = "connect" => nread' = nread)
<1>1. CASE SSL_read
  <2>1. call # "none" /\ UNCHANGED <<srv, script, held, nread>> /\ call' \in {call, "none"}
    BY <1>1 DEF SSL_read, Wanting, Return
  <2>2. QED
    BY <2>1 DEF WInv, Connection
<1>2. CASE http_upgrade
  <2>1. call # "none" /\ UNCHANGED <<srv, script, held, nread>> /\ call' \in {call, "none"}
    BY <1>2 DEF http_upgrade, Return
  <2>2. QED
    BY <2>1 DEF WInv, Connection
<1>3. CASE take_frame
  <2>1. /\ UNCHANGED <<srv, script, held>>
        /\ call \in {"authenticate", "subscribe", "read_frame"}
        /\ Takes(script[nread + 1], Payload(script[nread + 1], nread + 1))
    BY <1>3, TakeFrame
  <2>2. call' \in {call, "none"}
    BY <2>1 DEF Takes, Deliver, Answer, Return
  <2>3. QED
    BY <2>1, <2>2 DEF WInv, Connection
<1>4. QED
  BY <1>1, <1>2, <1>3 DEF ReadStep

\* A step of the server.
LEMMA ServerEffect ==
  ASSUME Server
  PROVE  UNCHANGED <<rx, tx, held, call, left, ret, got, nread>> /\ srv # "down"
<1>1. ASSUME NEW status, Respond(status)
      PROVE  UNCHANGED <<rx, tx, held, call, left, ret, got, nread>> /\ srv # "down"
  BY <1>1 DEF Respond
<1>2. ASSUME NEW f, Serve(f)
      PROVE  UNCHANGED <<rx, tx, held, call, left, ret, got, nread>> /\ srv # "down"
  BY <1>2 DEF Serve
<1>3. CASE Drop
  BY <1>3 DEF Drop
<1>4. QED
  BY <1>1, <1>2, <1>3, Zenon DEF Server

\* Every step keeps Control.
LEMMA ControlNext == ASSUME WInv, Control, Next PROVE Control'
<1> USE DEF Stages
<1>0. ASSUME UNCHANGED wsvars
      PROVE  WsInit' = WsInit /\ UNCHANGED <<call, held, ret, nread>>
  BY <1>0, Zenon DEF wsvars, WsInit
<1>a. WsInit => call = "none" /\ held = {}
  BY DEF WsInit
<1>1. CASE dial
  BY <1>1, <1>0, <1>a DEF dial, Leave, Control, Streaming, Over, InCall
<1>2. CASE open_capture
  BY <1>2, <1>0, <1>a DEF open_capture, Goto, Leave, Control, Streaming, Over, InCall
<1>3. CASE mpc = "connect" /\ connect /\ Goto("auth")
  <2>1. Streaming /\ WsInit
    BY <1>3, StreamingAt DEF Control, InCall
  <2>2. nread' = 0 /\ (held' # {} \/ ~ret') /\ call' \in {"none", "connect"}
    BY <1>3, <2>1 DEF connect, Return, WsInit
  <2>3. QED
    BY <1>3, <2>1, <2>2 DEF Goto, Control, Streaming, Over, InCall
<1>4. CASE mpc = "auth" /\ ret /\ authenticate /\ Goto("subscribe")
  <2>1. Streaming /\ held # {}
    BY <1>4, StreamingAt DEF Control, InCall
  <2>2. held' = held /\ call' \in {"none", "authenticate"}
    BY <1>4 DEF authenticate, Request, Return
  <2>3. QED
    BY <1>4, <2>1, <2>2 DEF Goto, Control, Streaming, Over, InCall
<1>5. CASE mpc = "subscribe" /\ ret /\ subscribe /\ Goto("stream")
  <2>1. Streaming /\ held # {}
    BY <1>5, StreamingAt DEF Control, InCall
  <2>2. held' = held /\ call' \in {"none", "subscribe"}
    BY <1>5 DEF subscribe, Request, Return
  <2>3. QED
    BY <1>5, <2>1, <2>2 DEF Goto, Control, Streaming, Over, InCall
<1>6. CASE stream_loop
  <2>1. mpc = "stream" /\ Streaming /\ held # {}
    BY <1>6, StreamingAt DEF stream_loop, Control, InCall
  <2>2. held' = held /\ call' = "read_frame"
    BY <1>6 DEF stream_loop, read_frame
  <2>3. QED
    BY <1>6, <2>1, <2>2 DEF stream_loop, Goto, Control, Streaming, Over, InCall
<1>7. CASE close /\ Leave /\ mpc # "replay"
  <2>1. held' = {} /\ call' = "none"
    BY <1>7 DEF close
  <2>2. QED
    BY <1>7, <2>1 DEF Leave, Control, Streaming, Over, InCall
<1>8. CASE split
  BY <1>8, <1>0 DEF split, Control, Streaming, Over, InCall
<1>9. CASE on_object
  BY <1>9, <1>0 DEF on_object, Control, Streaming, Over, InCall
<1>10. CASE frame_done /\ UNCHANGED wsvars /\ mpc' = "stream" /\ UNCHANGED proc
  BY <1>10, <1>0 DEF frame_done, Control, Streaming, Over, InCall
<1>11. CASE run_replay
  BY <1>11, <1>0 DEF run_replay, Leave, Control, Streaming, Over, InCall
<1>12. CASE send_wire
  BY <1>12, <1>0 DEF send_wire, Back, Control, Streaming, Over, InCall
<1>13. CASE Streaming /\ ReadStep /\ UNCHANGED fvars
  <2>1. /\ held' = held /\ held # {} /\ call # "none" /\ call' \in {call, "none"}
        /\ call = "connect" => nread' = nread
    BY <1>13, ReadEffect
  <2>2. mpc \notin {"start", "open", "connect", "objects", "send"}
    BY <1>13, <2>1 DEF Control, InCall, WsInit
  <2>3. proc' = proc /\ mpc' = mpc
    BY <1>13 DEF fvars
  <2>4. QED
    BY <1>13, <2>1, <2>2, <2>3 DEF Control, Streaming, Over, InCall
<1>14. CASE Streaming /\ Server /\ UNCHANGED fvars
  <2>1. UNCHANGED <<held, call, ret, nread>> /\ srv # "down"
    BY <1>14, ServerEffect
  <2>2. ~WsInit
    BY <2>1 DEF WsInit
  <2>3. proc' = proc /\ mpc' = mpc
    BY <1>14 DEF fvars
  <2>4. QED
    BY <1>14, <2>1, <2>2, <2>3 DEF Control, Streaming, Over, InCall
<1>15. CASE Signal \/ ExchangeGone
  BY <1>15, <1>0 DEF Signal, ExchangeGone, Control, Streaming, Over, InCall
<1>16. CASE Crash \/ StartReplay
  <2>1. held' = {} /\ call' = "none"
    BY <1>16 DEF Crash, StartReplay, Killed
  <2>2. QED
    BY <1>16, <2>1 DEF Crash, StartReplay, Control, Streaming, Over, InCall
<1>17. CASE give_up
  <2>1. mpc # "replay"
    BY <1>17 DEF give_up
  <2>2. QED
    BY <1>7, <1>17, <2>1 DEF give_up
<1>18. CASE frame_done
  <2>1. mpc # "replay"
    BY <1>18 DEF frame_done
  <2>2. QED
    BY <1>7, <1>10, <1>18, <2>1 DEF frame_done
<1>19. QED
  BY <1>1, <1>2, <1>3, <1>4, <1>5, <1>6, <1>8, <1>9, <1>11, <1>12, <1>13, <1>14,
     <1>15, <1>16, <1>17, <1>18, Zenon DEF Next, Main, set_up

-----------------------------------------------------------------------------
(* No data before the subscription is confirmed *)

Early == {"start", "open", "connect", "auth", "subscribe"}

Announced ==
  /\ \A i \in 1 .. Len(script) : script[i].msg = "data" =>
       \E j \in 1 .. i - 1 : script[j].msg = "subscription"
  /\ Streaming /\ mpc \in Early => ~Asked(<<"subscribe">>) /\ ~Sent("subscription")
  /\ call = "subscribe" => \A j \in 1 .. nread : script[j].msg # "subscription"

\* What is asked for among the frames t.
AskedIn(t, what) == \E i \in DOMAIN t : Decoded(t[i]) = [op |-> "text", payload |-> <<what>>]

\* The state function of the model is this.
LEMMA AskedOfTheState == ASSUME NEW what PROVE Asked(what) <=> AskedIn(tx, what)
BY Zenon DEF Asked, AskedIn

\* Another frame asks for what it says.
LEMMA AskedAppend ==
  ASSUME NEW t \in Seq(Sendable), NEW c \in Sendable, NEW what,
         AskedIn(Append(t, c), what)
  PROVE  AskedIn(t, what) \/ Decoded(c) = [op |-> "text", payload |-> <<what>>]
<1>1. /\ Append(t, c) \in Seq(Sendable) /\ Len(t) \in Nat
      /\ Len(Append(t, c)) = Len(t) + 1
      /\ \A i \in 1 .. Len(t) : Append(t, c)[i] = t[i]
      /\ Append(t, c)[Len(t) + 1] = c
  BY AppendElements
<1>2. PICK u : u = Append(t, c)
  OBVIOUS
<1>3. DOMAIN t = 1 .. Len(t) /\ DOMAIN u = 1 .. Len(t) + 1
  BY <1>1, <1>2, LenProperties
<1>4. PICK i \in DOMAIN u : Decoded(u[i]) = [op |-> "text", payload |-> <<what>>]
  BY <1>2, Zenon DEF AskedIn
<1>5. CASE i = Len(t) + 1
  BY <1>1, <1>2, <1>4, <1>5, Zenon
<1>6. CASE i # Len(t) + 1
  <2>1. i \in 1 .. Len(t)
    BY <1>1, <1>3, <1>6
  <2>2. QED
    BY <1>1, <1>2, <1>3, <1>4, <2>1, Zenon DEF AskedIn
<1>7. QED
  BY <1>5, <1>6

\* The frames that are not the subscription do not ask for it.
LEMMA AskedElse ==
  ASSUME NEW t \in Seq(Sendable), ~AskedIn(t, <<"subscribe">>)
  PROVE  /\ ~AskedIn(Append(t, ClientFrame("text", <<<<"auth">>>>)), <<"subscribe">>)
         /\ \A p \in Text : ~AskedIn(Append(t, ClientFrame("pong", p)), <<"subscribe">>)
<1>1. PICK c \in Sendable : /\ c = ClientFrame("text", <<<<"auth">>>>)
                            /\ Decoded(c) = [op |-> "text", payload |-> <<<<"auth">>>>]
  <2>1. "text" \in {"text", "pong", "close"} /\ <<<<"auth">>>> \in Text
    BY RequestText
  <2>2. QED
    BY <2>1, SendableDecoded, Zenon
<1>2. [op |-> "text", payload |-> <<<<"auth">>>>] # [op |-> "text", payload |-> <<<<"subscribe">>>>]
  BY RequestText
<1>3. ~AskedIn(Append(t, ClientFrame("text", <<<<"auth">>>>)), <<"subscribe">>)
  BY <1>1, <1>2, AskedAppend, Zenon
<1>4. ASSUME NEW p \in Text
      PROVE  ~AskedIn(Append(t, ClientFrame("pong", p)), <<"subscribe">>)
  <2>1. PICK d \in Sendable : /\ d = ClientFrame("pong", p)
                              /\ Decoded(d) = [op |-> "pong", payload |-> p]
    <3>1. "pong" \in {"text", "pong", "close"}
      OBVIOUS
    <3>2. QED
      BY <3>1, SendableDecoded, Zenon
  <2>2. [op |-> "pong", payload |-> p] # [op |-> "text", payload |-> <<<<"subscribe">>>>]
    OBVIOUS
  <2>3. QED
    BY <2>1, <2>2, AskedAppend, Zenon
<1>5. QED
  BY <1>3, <1>4

\* What the text of frame i says.
LEMMA MessageOf ==
  ASSUME NEW i \in Nat, script[i] \in ServerFrames, script[i].op \in {"text", "binary"}
  PROVE  Message(Payload(script[i], i)) = script[i].msg /\ Payload(script[i], i) # <<>>
         /\ Payload(script[i], i)[1][2] = i
<1>1. PICK f \in ServerFrames : f = script[i]
  BY Zenon
<1>2. f.len \in Nat /\ f.len > 0
  <2>1. f.len \in 0 .. Power(Base, Wide) - 1 /\ f.len > 0
    BY <1>1, FrameAssumption, Zenon
  <2>2. QED
    BY <2>1
<1>3. /\ Len(Payload(f, i)) = f.len
      /\ \A k \in 1 .. f.len : Payload(f, i)[k] = <<"data", i, k>>
  BY ServerFrameBytes
<1>4. Payload(f, i)[1] = <<"data", i, 1>> /\ Payload(f, i) # <<>>
  BY <1>2, <1>3
<1>5. Payload(f, i)[1][2] = i
  BY <1>4
<1>6. QED
  BY <1>1, <1>4, <1>5, Zenon DEF Message

\* Steps that change nothing of this.
LEMMA AnnouncedKept ==
  ASSUME Announced, script' = script,
         call' = "subscribe" => call = "subscribe" /\ nread' = nread,
         Streaming' /\ mpc' \in Early => Streaming /\ mpc \in Early /\ tx' = tx
  PROVE  Announced'
<1>1. tx' = tx => (Asked(<<"subscribe">>)' <=> Asked(<<"subscribe">>))
  BY Zenon DEF Asked
<1>2. Sent("subscription")' <=> Sent("subscription")
  BY Zenon DEF Sent
<1>3. Streaming' /\ mpc' \in Early => ~Asked(<<"subscribe">>)' /\ ~Sent("subscription")'
  BY <1>1, <1>2, Zenon DEF Announced
<1>4. call' = "subscribe" => \A j \in 1 .. nread' : script'[j].msg # "subscription"
  BY Zenon DEF Announced
<1>5. \A i \in 1 .. Len(script') : script'[i].msg = "data" =>
        \E j \in 1 .. i - 1 : script'[j].msg = "subscription"
  BY Zenon DEF Announced
<1>6. QED
  BY <1>3, <1>4, <1>5, Zenon DEF Announced

\* The server sends data only after the confirmation.
LEMMA AnnouncedServe ==
  ASSUME WInv, Announced, NEW f \in ServerFrames, Serve(f), UNCHANGED fvars
  PROVE  Announced'
<1>1. /\ script' = Append(script, f) /\ MaySend(f.msg)
      /\ tx' = tx /\ call' = call /\ nread' = nread
      /\ mpc' = mpc /\ proc' = proc
  BY Zenon DEF Serve, fvars
<1>2. script \in Seq(ServerFrames) /\ nread \in 0 .. Len(script)
  BY DEF WInv, WsTypes
<1>3. /\ Len(script) \in Nat /\ Len(script') = Len(script) + 1
      /\ \A i \in 1 .. Len(script) : script'[i] = script[i]
      /\ script'[Len(script) + 1] = f
  BY <1>1, <1>2, AppendElements
<1>4. DOMAIN script = 1 .. Len(script) /\ DOMAIN script' = 1 .. Len(script) + 1
  BY <1>1, <1>2, <1>3, LenProperties, AppendElements
<1>5. Asked(<<"subscribe">>)' <=> Asked(<<"subscribe">>)
  BY <1>1, Zenon DEF Asked
<1>6. Streaming' <=> Streaming
  BY <1>1, Zenon DEF Streaming, Over
<1>7. f.msg = "subscription" => Asked(<<"subscribe">>)
  BY <1>1 DEF MaySend
<1>8. f.msg = "data" => Sent("subscription")
  BY <1>1 DEF MaySend
<1>9. Sent("subscription")' => Sent("subscription") \/ f.msg = "subscription"
  <2>1. SUFFICES ASSUME NEW i \in DOMAIN script', script'[i].msg = "subscription"
                 PROVE  Sent("subscription") \/ f.msg = "subscription"
    BY Zenon DEF Sent
  <2>2. i \in 1 .. Len(script) \/ i = Len(script) + 1
    BY <1>3, <1>4
  <2>3. QED
    BY <1>3, <1>4, <2>1, <2>2, Zenon DEF Sent
<1>10. Streaming' /\ mpc' \in Early => ~Asked(<<"subscribe">>)' /\ ~Sent("subscription")'
  BY <1>1, <1>5, <1>6, <1>7, <1>9, Zenon DEF Announced
<1>11. call' = "subscribe" => \A j \in 1 .. nread' : script'[j].msg # "subscription"
  <2>1. \A j \in 1 .. nread : script'[j] = script[j]
    BY <1>2, <1>3
  <2>2. QED
    BY <1>1, <2>1, Zenon DEF Announced
<1>12. ASSUME NEW i \in 1 .. Len(script'), script'[i].msg = "data"
       PROVE  \E j \in 1 .. i - 1 : script'[j].msg = "subscription"
  <2>1. CASE i \in 1 .. Len(script)
    <3>1. PICK j \in 1 .. i - 1 : script[j].msg = "subscription"
      BY <1>3, <1>12, <2>1, Zenon DEF Announced
    <3>2. j \in 1 .. Len(script)
      BY <1>3, <2>1
    <3>3. QED
      BY <1>3, <3>1, <3>2, Zenon
  <2>2. CASE i = Len(script) + 1
    <3>1. f.msg = "data"
      BY <1>3, <1>12, <2>2, Zenon
    <3>2. PICK j \in 1 .. Len(script) : script[j].msg = "subscription"
      BY <1>4, <1>8, <3>1, Zenon DEF Sent
    <3>3. j \in 1 .. i - 1
      BY <1>3, <2>2
    <3>4. QED
      BY <1>3, <3>2, <3>3, Zenon
  <2>3. QED
    BY <1>3, <2>1, <2>2
<1>13. QED
  BY <1>10, <1>11, <1>12, Zenon DEF Announced

\* await for the subscription ends with the first confirmation.
LEMMA AnnouncedTake ==
  ASSUME WInv, Control, Announced, take_frame, UNCHANGED fvars
  PROVE  Announced'
<1>1. /\ script \in Seq(ServerFrames) /\ nread \in 0 .. Len(script)
      /\ tx \in Seq(Sendable) /\ Len(script) \in Nat
  BY LenProperties DEF WInv, WsTypes
<1>2. /\ nread + 1 \in 1 .. Len(script) /\ nread' = nread + 1
      /\ script[nread + 1] \in ServerFrames /\ script' = script
      /\ call \in {"authenticate", "subscribe", "read_frame"}
      /\ Takes(script[nread + 1], Payload(script[nread + 1], nread + 1))
  BY TakeFrame
<1>3. PICK i \in Nat : i = nread + 1
  BY <1>1
<1>4. PICK f \in ServerFrames, p \in Text : f = script[i] /\ p = Payload(f, i)
  BY <1>2, <1>3, ServerFrameBytes, Zenon
<1>5. Takes(f, p)
  BY <1>2, <1>3, <1>4, Zenon
<1>6. tx' = tx \/ tx' = Append(tx, ClientFrame("pong", p))
  BY <1>5, Zenon DEF Takes, Answer, send_frame
<1>7. call' \in {call, "none"}
  BY ReadEffect DEF ReadStep
<1>8. Streaming' = Streaming /\ mpc' = mpc
  BY Zenon DEF fvars, Streaming, Over
<1>9. ~Asked(<<"subscribe">>) => ~Asked(<<"subscribe">>)'
  <2>1. SUFFICES ASSUME ~AskedIn(tx, <<"subscribe">>) PROVE ~AskedIn(tx', <<"subscribe">>)
    BY Zenon DEF Asked, AskedIn
  <2>2. QED
    BY <1>1, <1>6, <2>1, AskedElse, Zenon
<1>10. Sent("subscription")' <=> Sent("subscription")
  BY <1>2, Zenon DEF Sent
<1>11. Streaming' /\ mpc' \in Early => ~Asked(<<"subscribe">>)' /\ ~Sent("subscription")'
  BY <1>8, <1>9, <1>10, Zenon DEF Announced
<1>12. ASSUME call' = "subscribe", NEW j \in 1 .. nread'
       PROVE  script'[j].msg # "subscription"
  <2>1. call = "subscribe"
    BY <1>7, <1>12
  <2>2. f.msg # "subscription"
    <3>1. SUFFICES ASSUME f.msg = "subscription" PROVE FALSE
      OBVIOUS
    <3>2. f.op \in {"text", "binary"}
      <4>1. "subscription" \in {"subscription", "data"}
        OBVIOUS
      <4>2. QED
        BY <3>1, <4>1, DataAssumption, Zenon
    <3>3. Deliver(p)
      BY <1>5, <3>2 DEF Takes
    <3>4. Message(p) = "subscription" /\ Marker = "subscription"
      <4>1. Message(p) = f.msg
        BY <1>4, <3>2, MessageOf, Zenon
      <4>2. QED
        BY <2>1, <3>1, <4>1 DEF Marker
    <3>5. call' = "none"
      BY <2>1, <3>3, <3>4 DEF Deliver, Return
    <3>6. QED
      BY <1>12, <3>5
  <2>3. CASE j \in 1 .. nread
    BY <1>2, <2>1, <2>3, Zenon DEF Announced
  <2>4. CASE j = i
    BY <1>2, <1>4, <2>2, <2>4, Zenon
  <2>5. QED
    BY <1>1, <1>2, <1>3, <2>3, <2>4
<1>13. \A k \in 1 .. Len(script') : script'[k].msg = "data" =>
         \E j \in 1 .. k - 1 : script'[j].msg = "subscription"
  BY <1>2, Zenon DEF Announced
<1>14. QED
  BY <1>11, <1>12, <1>13, Zenon DEF Announced

\* Every step keeps Announced.
LEMMA AnnouncedNext == ASSUME WInv, Control, Announced, Next PROVE Announced'
<1>0. ASSUME UNCHANGED wsvars PROVE UNCHANGED <<script, call, nread, tx>>
  BY <1>0, Zenon DEF wsvars
<1> USE DEF Early
<1>1. CASE dial
  BY <1>0, <1>1, AnnouncedKept DEF dial, Leave, Streaming, Over
<1>2. CASE open_capture
  BY <1>0, <1>2, AnnouncedKept DEF open_capture, Goto, Leave, Streaming, Over
<1>3. CASE mpc = "connect" /\ connect /\ Goto("auth")
  <2>1. script' = script /\ call' # "subscribe" /\ tx' = tx
    BY <1>3 DEF connect, Return
  <2>2. QED
    BY <1>3, <2>1, AnnouncedKept DEF Goto, Streaming, Over
<1>4. CASE mpc = "auth" /\ ret /\ authenticate /\ Goto("subscribe")
  <2>1. /\ script' = script /\ call' # "subscribe"
        /\ tx' = tx \/ tx' = Append(tx, ClientFrame("text", <<<<"auth">>>>))
    BY <1>4 DEF authenticate, Request, Return, send_frame
  <2>2. ~AskedIn(tx, <<"subscribe">>) /\ ~Sent("subscription")
    <3>1. Streaming /\ mpc \in Early
      BY <1>4, StreamingAt
    <3>2. QED
      BY <3>1, AskedOfTheState, Zenon DEF Announced
  <2>3. tx \in Seq(Sendable)
    BY DEF WInv, WsTypes
  <2>4. ~AskedIn(tx', <<"subscribe">>)
    BY <2>1, <2>2, <2>3, AskedElse, Zenon
  <2>5. ~Asked(<<"subscribe">>)'
    BY <2>4, Zenon DEF Asked, AskedIn
  <2>6. ~Sent("subscription")'
    BY <2>1, <2>2, Zenon DEF Sent
  <2>7. QED
    BY <2>1, <2>5, <2>6, Zenon DEF Announced
<1>5. CASE mpc = "subscribe" /\ ret /\ subscribe /\ Goto("stream")
  <2>1. script' = script /\ nread' = nread
    BY <1>5, Zenon DEF subscribe, Request
  <2>2. ~Sent("subscription")
    BY <1>5, StreamingAt DEF Announced
  <2>3. script \in Seq(ServerFrames) /\ nread \in 0 .. Len(script)
    BY DEF WInv, WsTypes
  <2>4. 1 .. nread \subseteq DOMAIN script
    BY <2>3, LenProperties
  <2>5. \A j \in 1 .. nread' : script'[j].msg # "subscription"
    BY <2>1, <2>2, <2>4, Zenon DEF Sent
  <2>6. mpc' \notin Early
    BY <1>5 DEF Goto
  <2>7. QED
    BY <2>1, <2>5, <2>6, Zenon DEF Announced
<1>6. CASE stream_loop
  BY <1>6, AnnouncedKept DEF stream_loop, read_frame, Goto, Streaming, Over
<1>7. CASE close /\ Leave
  <2>1. script' = script /\ call' = call /\ nread' = nread
    BY <1>7, Zenon DEF close
  <2>2. QED
    BY <1>7, <2>1, AnnouncedKept DEF Leave, Streaming, Over
<1>8. CASE split
  BY <1>0, <1>8, AnnouncedKept DEF split, Streaming, Over
<1>9. CASE on_object
  BY <1>0, <1>9, AnnouncedKept DEF on_object, Streaming, Over
<1>10. CASE mpc' = "stream" /\ UNCHANGED wsvars
  BY <1>0, <1>10, AnnouncedKept DEF Streaming, Over
<1>11. CASE run_replay
  BY <1>0, <1>11, AnnouncedKept DEF run_replay, Leave, Streaming, Over
<1>12. CASE send_wire
  BY <1>0, <1>12, AnnouncedKept DEF send_wire, Back, Streaming, Over
<1>13. CASE Streaming /\ ReadStep /\ UNCHANGED fvars
  <2>1. CASE SSL_read \/ http_upgrade
    <3>1. /\ UNCHANGED <<script, tx, nread>> /\ (call' = call \/ call' = "none")
      BY <2>1, Zenon DEF SSL_read, http_upgrade, Return
    <3>2. proc' = proc /\ mpc' = mpc
      BY <1>13, Zenon DEF fvars
    <3>3. QED
      BY <3>1, <3>2, AnnouncedKept DEF Streaming, Over
  <2>2. CASE take_frame
    BY <1>13, <2>2, AnnouncedTake
  <2>3. QED
    BY <1>13, <2>1, <2>2 DEF ReadStep
<1>14. CASE Streaming /\ Server /\ UNCHANGED fvars
  <2>1. proc' = proc /\ mpc' = mpc
    BY <1>14, Zenon DEF fvars
  <2>2. ASSUME NEW status, Respond(status) PROVE Announced'
    BY <2>1, <2>2, AnnouncedKept DEF Respond, Streaming, Over
  <2>3. CASE Drop
    BY <2>1, <2>3, AnnouncedKept DEF Drop, Streaming, Over
  <2>4. QED
    BY <1>14, <2>2, <2>3, AnnouncedServe, Zenon DEF Server
<1>15. CASE Signal \/ ExchangeGone
  BY <1>0, <1>15, AnnouncedKept DEF Signal, ExchangeGone, Streaming, Over
<1>16. CASE Crash \/ StartReplay
  <2>1. script' = script /\ call' = "none"
    BY <1>16, Zenon DEF Crash, StartReplay, Killed
  <2>2. QED
    BY <1>16, <2>1, AnnouncedKept DEF Crash, StartReplay, Streaming, Over
<1>17. QED
  BY <1>1, <1>2, <1>3, <1>4, <1>5, <1>6, <1>7, <1>8, <1>9, <1>10, <1>11, <1>12,
     <1>13, <1>14, <1>15, <1>16, Zenon
     DEF Next, Main, set_up, give_up, frame_done

-----------------------------------------------------------------------------
(* The frame that read_frame returned, and the types of the process *)

\* read_frame has returned a frame that main has not looked at.
Fresh == mpc = "frame" /\ call = "none" /\ ret

Fetched ==
  Streaming /\ Fresh => /\ nread > 0 /\ script[nread].op \in {"text", "binary"}
                        /\ got = Payload(script[nread], nread)

FTypes ==
  /\ ticks \in Seq(Tick) /\ file \in Seq(Tick) /\ objs \in Seq(AllObjects)
  /\ orders \in Seq(ValidOrder) /\ received \in Seq(ValidOrder)
  /\ fd \in {"none", "up", "gone"} /\ buy \in BOOLEAN /\ disk \in 0 .. All

\* read_frame returns with the frame read last, and main looks at it before
\* the next.
LEMMA FetchedNext == ASSUME WInv, Control, Fetched, Next PROVE Fetched'
<1>1. CASE mpc' # "frame"
  BY <1>1 DEF Fetched, Fresh
<1>2. CASE UNCHANGED wsvars /\ UNCHANGED <<mpc, proc>>
  BY <1>2, Zenon DEF Fetched, Fresh, Streaming, Over, wsvars
<1>3. CASE stream_loop
  <2>1. call' = "read_frame"
    BY <1>3, Zenon DEF stream_loop, read_frame
  <2>2. QED
    BY <2>1 DEF Fetched, Fresh
<1>4. CASE Streaming /\ ReadStep /\ UNCHANGED fvars
  <2>0. UNCHANGED <<mpc, proc>>
    BY <1>4, Zenon DEF fvars
  <2>1. SUFFICES ASSUME mpc = "frame", call' = "none", ret'
                 PROVE  /\ nread' > 0 /\ script'[nread'].op \in {"text", "binary"}
                        /\ got' = Payload(script'[nread'], nread')
    BY <2>0, Zenon DEF Fetched, Fresh
  <2>2. call \in {"none", "read_frame"}
    BY <1>4, <2>1 DEF Control, InCall
  <2>3. call = "read_frame"
    BY <1>4, <2>2, ReadEffect
  <2>4. take_frame
    <3>1. ~http_upgrade
      BY <2>3 DEF http_upgrade
    <3>2. ~SSL_read
      BY <2>1, <2>3 DEF SSL_read, Return
    <3>3. QED
      BY <1>4, <3>1, <3>2 DEF ReadStep
  <2>5. /\ nread + 1 \in 1 .. Len(script) /\ nread' = nread + 1 /\ script' = script
        /\ Takes(script[nread + 1], Payload(script[nread + 1], nread + 1))
    BY <2>4, TakeFrame
  <2>6. PICK i, f : i = nread + 1 /\ f = script[i]
    OBVIOUS
  <2>7. Takes(f, Payload(f, i))
    BY <2>5, <2>6, Zenon
  <2>8. f.op \in {"text", "binary"} /\ got' = Payload(f, i)
    BY <2>1, <2>3, <2>7 DEF Takes, Deliver, Answer, Return
  <2>9. nread' = i /\ nread' > 0
    BY <2>5, <2>6
  <2>10. QED
    BY <2>5, <2>6, <2>8, <2>9, Zenon
<1>5. CASE Streaming /\ Server /\ UNCHANGED fvars
  <2>1. UNCHANGED <<call, ret, got, nread>>
    BY <1>5, ServerEffect
  <2>2. UNCHANGED <<mpc, proc>>
    BY <1>5, Zenon DEF fvars
  <2>3. script \in Seq(ServerFrames) /\ nread \in 0 .. Len(script)
    BY DEF WInv, WsTypes
  <2>4. nread > 0 => script'[nread] = script[nread]
    <3>1. ASSUME NEW status, Respond(status) PROVE script' = script
      BY <3>1, Zenon DEF Respond
    <3>2. ASSUME NEW f \in ServerFrames, Serve(f), nread > 0 PROVE script'[nread] = script[nread]
      <4>1. script' = Append(script, f)
        BY <3>2, Zenon DEF Serve
      <4>2. Len(script) \in Nat /\ \A i \in 1 .. Len(script) : Append(script, f)[i] = script[i]
        BY <2>3, AppendElements
      <4>3. nread \in 1 .. Len(script)
        BY <2>3, <3>2, <4>2
      <4>4. QED
        BY <4>1, <4>2, <4>3, Zenon
    <3>3. CASE Drop
      BY <3>3, Zenon DEF Drop
    <3>4. QED
      BY <1>5, <3>1, <3>2, <3>3, Zenon DEF Server
  <2>5. QED
    BY <2>1, <2>2, <2>4, Zenon DEF Fetched, Fresh, Streaming, Over
<1>6. CASE dial
  BY <1>1, <1>6 DEF dial, Leave
<1>7. CASE open_capture
  BY <1>1, <1>7 DEF open_capture, Goto, Leave
<1>8. CASE set_up
  BY <1>1, <1>8 DEF set_up, Goto
<1>9. CASE give_up
  BY <1>1, <1>9 DEF give_up, Leave
<1>10. CASE split
  BY <1>1, <1>10 DEF split
<1>11. CASE on_object
  BY <1>1, <1>11 DEF on_object
<1>12. CASE frame_done
  BY <1>1, <1>12 DEF frame_done, Leave
<1>13. CASE run_replay
  BY <1>1, <1>13 DEF run_replay, Leave
<1>14. CASE send_wire
  BY <1>1, <1>14 DEF send_wire, Back
<1>15. CASE Crash \/ StartReplay
  BY <1>1, <1>15 DEF Crash, StartReplay
<1>16. CASE Signal \/ ExchangeGone
  BY <1>2, <1>16 DEF Signal, ExchangeGone
<1>17. QED
  BY <1>3, <1>4, <1>5, <1>6, <1>7, <1>8, <1>9, <1>10, <1>11, <1>12, <1>13, <1>14,
     <1>15, <1>16, Zenon DEF Next, Main

\* The objects that main gets from a frame are those of the frame read last.
LEMMA SplitObjects ==
  ASSUME WInv, Control, Fetched, split
  PROVE  /\ Streaming /\ Fresh /\ nread > 0 /\ nread \in 1 .. Len(script)
         /\ script[nread] \in ServerFrames
         /\ objs' = script[nread].objs /\ objs' \in Seq(AllObjects)
<1>1. mpc = "frame" /\ Streaming /\ Fresh
  BY StreamingAt DEF split, Fresh
<1>2. /\ nread > 0 /\ script[nread].op \in {"text", "binary"}
      /\ got = Payload(script[nread], nread)
  BY <1>1 DEF Fetched
<1>3. script \in Seq(ServerFrames) /\ nread \in 0 .. Len(script)
  BY DEF WInv, WsTypes
<1>4. nread \in Nat /\ nread \in 1 .. Len(script) /\ script[nread] \in ServerFrames
  BY <1>2, <1>3, LenProperties, ElementOfSeq
<1>5. got[1][2] = nread
  BY <1>2, <1>4, MessageOf
<1>6. objs' = script[nread].objs
  BY <1>5, Zenon DEF split
<1>7. script[nread].objs \in Seq(AllObjects)
  BY <1>4, ObjectsOf
<1>8. QED
  BY <1>1, <1>2, <1>4, <1>6, <1>7

-----------------------------------------------------------------------------
(* The orders *)

\* The exchange has received what comes first of the orders of t, and while
\* it is up the rest is o.
Owes(t, rcv, up, o) ==
  \E rest \in Seq(ValidOrder) : Expected(t) = Cat(rcv, rest) /\ (up => rest = o)

\* The orders of another tick are owed after the others.
LEMMA OwesTick ==
  ASSUME NEW t \in Seq(Tick), NEW r \in Tick, NEW rcv \in Seq(ValidOrder),
         NEW b \in BOOLEAN, NEW up, Owes(t, rcv, up, <<>>), up => b = Even(t)
  PROVE  Owes(Append(t, r), rcv, up, OrdersOf(r, b))
<1>1. PICK rest \in Seq(ValidOrder) : Expected(t) = Cat(rcv, rest) /\ (up => rest = <<>>)
  BY Zenon DEF Owes
<1>2. PICK o \in Seq(ValidOrder) : o = OrdersOf(r, Even(t))
  BY ExpectedStep, Zenon
<1>3. Expected(Append(t, r)) = Cat(Cat(rcv, rest), o)
  BY <1>1, <1>2, ExpectedStep, Zenon DEF Cat
<1>4. Cat(Cat(rcv, rest), o) = Cat(rcv, Cat(rest, o))
  BY CatAssociative
<1>5. PICK more \in Seq(ValidOrder) : more = Cat(rest, o)
  BY CatFacts
<1>6. Cat(<<>>, o) = o
  BY CatFacts
<1>7. up => more = OrdersOf(r, b)
  BY <1>1, <1>2, <1>5, <1>6, Zenon
<1>8. QED
  BY <1>3, <1>4, <1>5, <1>7, Zenon DEF Owes

\* The first order owed is received.
LEMMA OwesSend ==
  ASSUME NEW t, NEW rcv \in Seq(ValidOrder), NEW o \in Seq(ValidOrder), o # <<>>,
         NEW up, up, Owes(t, rcv, up, o)
  PROVE  /\ Append(rcv, Head(o)) \in Seq(ValidOrder) /\ Tail(o) \in Seq(ValidOrder)
         /\ Owes(t, Append(rcv, Head(o)), up, Tail(o))
<1>1. Expected(t) = Cat(rcv, o)
  BY Zenon DEF Owes
<1>2. PICK h \in ValidOrder, l \in Seq(ValidOrder) :
         h = Head(o) /\ l = Tail(o) /\ o = Cat(<<h>>, l)
  <2>1. Head(o) \in ValidOrder /\ Tail(o) \in Seq(ValidOrder) /\ o = <<Head(o)>> \o Tail(o)
    BY HeadTailProperties
  <2>2. QED
    BY <2>1, Zenon DEF Cat
<1>3. <<h>> \in Seq(ValidOrder)
  BY Single
<1>4. Cat(Cat(rcv, <<h>>), l) = Cat(rcv, Cat(<<h>>, l))
  <2>1. PICK x \in Seq(ValidOrder) : x = <<h>>
    BY <1>3, Zenon
  <2>2. Cat(Cat(rcv, x), l) = Cat(rcv, Cat(x, l))
    BY CatAssociative
  <2>3. QED
    BY <2>1, <2>2, Zenon
<1>5. Append(rcv, h) = Cat(rcv, <<h>>) /\ Append(rcv, h) \in Seq(ValidOrder)
  <2>1. Append(rcv, h) = rcv \o <<h>> /\ Append(rcv, h) \in Seq(ValidOrder)
    BY AppendIsConcat, AppendProperties
  <2>2. QED
    BY <2>1, Zenon DEF Cat
<1>6. Expected(t) = Cat(Append(rcv, h), l)
  BY <1>1, <1>2, <1>4, <1>5, Zenon
<1>7. QED
  BY <1>2, <1>5, <1>6, Zenon DEF Owes

\* Once the exchange has gone, what is left of a tick does not matter.
LEMMA OwesLess ==
  ASSUME NEW t, NEW rcv, NEW up, NEW o, NEW down, NEW p, Owes(t, rcv, up, o), ~down
  PROVE  Owes(t, rcv, down, p)
BY Zenon DEF Owes

Emitted ==
  /\ mpc = "start" => ticks = <<>> /\ received = <<>> /\ fd = "none" /\ buy
  /\ mpc = "send" => orders # <<>>
  /\ ~Over /\ mpc # "send" => orders = <<>>
  /\ Over => fd = "none"
  /\ fd # "none" => buy = Even(ticks)
  /\ Owes(ticks, received, fd = "up", orders)

\* A tick is handled.
LEMMA EmitStep ==
  ASSUME FTypes, Emitted, NEW r \in Tick, emit_orders(r), ~Over, mpc # "send",
         UNCHANGED <<fd, received>>
  PROVE  /\ ticks' \in Seq(Tick) /\ orders' \in Seq(ValidOrder) /\ buy' \in BOOLEAN
         /\ fd # "none" => buy' = Even(ticks')
         /\ Owes(ticks', received', fd' = "up", orders')
<1>1. /\ ticks \in Seq(Tick) /\ received \in Seq(ValidOrder) /\ buy \in BOOLEAN
      /\ fd \in {"none", "up", "gone"}
  BY DEF FTypes
<1>2. /\ ticks' = Append(ticks, r)
      /\ buy' = IF fd # "none" /\ TurnsSide(r) THEN ~buy ELSE buy
      /\ orders' = IF fd = "none" THEN <<>> ELSE OrdersOf(r, buy)
  BY Zenon DEF emit_orders
<1>3. ticks' \in Seq(Tick)
  BY <1>1, <1>2, AppendElements
<1>4. orders' \in Seq(ValidOrder)
  BY <1>1, <1>2, OrdersValid, EmptySeq
<1>5. buy' \in BOOLEAN
  BY <1>1, <1>2
<1>6. Even(Append(ticks, r)) = IF TurnsSide(r) THEN ~Even(ticks) ELSE Even(ticks)
  BY <1>1, ExpectedStep
<1>7. fd # "none" => buy = Even(ticks)
  BY DEF Emitted
<1>8. fd # "none" => buy' = Even(ticks')
  BY <1>2, <1>6, <1>7, Zenon
<1>9. PICK up : up = (fd = "up")
  OBVIOUS
<1>10. Owes(ticks, received, up, <<>>)
  <2>1. orders = <<>>
    BY DEF Emitted
  <2>2. QED
    BY <1>9, <2>1, Zenon DEF Emitted
<1>11. up => fd # "none"
  BY <1>9
<1>12. Owes(Append(ticks, r), received, up, OrdersOf(r, buy))
  <2>1. up => buy = Even(ticks)
    BY <1>7, <1>11, Zenon
  <2>2. QED
    BY <1>1, <1>10, <2>1, OwesTick, Zenon
<1>13. Owes(ticks', received', up, orders')
  <2>1. CASE fd = "none"
    <3>1. ~up
      BY <1>11, <2>1
    <3>2. Owes(Append(ticks, r), received, up, orders')
      BY <1>12, <3>1, OwesLess, Zenon
    <3>3. QED
      BY <1>2, <3>2, Zenon
  <2>2. CASE fd # "none"
    BY <1>2, <1>12, <2>2, Zenon
  <2>3. QED
    BY <2>1, <2>2
<1>14. QED
  BY <1>3, <1>4, <1>5, <1>8, <1>9, <1>13, Zenon

\* A record that run_replay reads is one of the capture.
LEMMA ReplayIndex ==
  ASSUME FTypes, Len(ticks) < disk \div RecUnits
  PROVE  Len(ticks) + 1 \in 1 .. Len(file) /\ file[Len(ticks) + 1] \in Tick
<1>1. /\ Len(ticks) \in Nat /\ Len(file) \in Nat /\ RecUnits \in Nat \ {0}
      /\ file \in Seq(Tick) /\ disk \in 0 .. RecUnits * Len(file)
  BY LenProperties, RecAssumption DEF FTypes, All
<1>2. disk \div RecUnits <= Len(file)
  <2>1. PICK q \in Int, m \in 0 .. RecUnits - 1 :
           q = disk \div RecUnits /\ disk = RecUnits * q + m
    <3>1. disk \in Int
      BY <1>1
    <3>2. QED
      BY <1>1, <3>1, DivMod
  <2>2. SUFFICES ASSUME q >= Len(file) + 1 PROVE FALSE
    BY <1>1, <2>1
  <2>3. RecUnits * q >= RecUnits * (Len(file) + 1)
    BY <1>1, <2>2
  <2>4. QED
    BY <1>1, <2>1, <2>3
<1>3. Len(ticks) + 1 \in 1 .. Len(file)
  <2>1. PICK q \in Int : q = disk \div RecUnits
    BY <1>1, DivMod
  <2>2. QED
    BY <1>1, <1>2, <2>1
<1>4. QED
  BY <1>1, <1>3, ElementOfSeq

\* All that is in the capture is an Int.
LEMMA AllNat == ASSUME FTypes PROVE All \in Nat
<1>1. Len(file) \in Nat /\ RecUnits \in Nat
  BY LenProperties, RecAssumption DEF FTypes
<1>2. QED
  BY <1>1 DEF All

\* Steps that leave ticks and orders alone.
LEMMA EmissionQuiet ==
  ASSUME FTypes, Emitted, UNCHANGED <<ticks, file, orders, received, fd, buy>>,
         objs' \in Seq(AllObjects), disk' \in 0 .. All,
         mpc' = "start" => mpc = "start", mpc' = "send" <=> mpc = "send", Over' <=> Over
  PROVE  FTypes' /\ Emitted'
<1>1. FTypes'
  BY DEF FTypes, All
<1>2. Owes(ticks', received', fd' = "up", orders')
  BY Zenon DEF Emitted
<1>3. Even(ticks') = Even(ticks)
  BY Zenon
<1>4. Emitted'
  BY <1>2, <1>3, Zenon DEF Emitted
<1>5. QED
  BY <1>1, <1>4

\* The process ends.
LEMMA EmissionOver ==
  ASSUME FTypes, Emitted, UNCHANGED <<ticks, file, orders, received, objs, buy>>,
         fd' = "none", disk' \in 0 .. All, mpc' \in {"exit", "crashed"}
  PROVE  FTypes' /\ Emitted'
<1>1. FTypes'
  BY DEF FTypes, All
<1>2. ~(fd' = "up")
  OBVIOUS
<1>3. Owes(ticks, received, fd' = "up", orders)
  BY <1>2, OwesLess, Zenon DEF Emitted
<1>4. Owes(ticks', received', fd' = "up", orders')
  BY <1>3, Zenon
<1>5. Emitted'
  BY <1>4 DEF Emitted, Over
<1>6. QED
  BY <1>1, <1>5

\* main ends on one of its returns.
LEMMA EmissionLeave ==
  ASSUME FTypes, Emitted, Leave
  PROVE  FTypes' /\ Emitted'
<1>1. disk' \in 0 .. All
  BY AllNat DEF Leave, FTypes, Closed
<1>2. QED
  BY <1>1, EmissionOver, Zenon DEF Leave

\* The orders of a tick are started on.
LEMMA EmissionTick ==
  ASSUME FTypes, Emitted, NEW r \in Tick, emit_orders(r), UNCHANGED <<fd, received, disk>>,
         ~Over, mpc # "send", NEW back \in {"objects", "replay"},
         mpc' = IF orders' = <<>> THEN back ELSE "send",
         objs' \in Seq(AllObjects), file' = file \/ file' = Append(file, r)
  PROVE  FTypes' /\ Emitted'
<1>1. /\ ticks' \in Seq(Tick) /\ orders' \in Seq(ValidOrder) /\ buy' \in BOOLEAN
      /\ fd # "none" => buy' = Even(ticks')
      /\ Owes(ticks', received', fd' = "up", orders')
  BY EmitStep
<1>2. file' \in Seq(Tick) /\ disk' \in 0 .. All'
  <2>1. file \in Seq(Tick) /\ disk \in 0 .. All
    BY DEF FTypes
  <2>2. CASE file' = file
    BY <2>1, <2>2 DEF All
  <2>3. CASE file' = Append(file, r)
    <3>1. /\ Append(file, r) \in Seq(Tick) /\ Len(file) \in Nat
          /\ Len(Append(file, r)) = Len(file) + 1
      BY <2>1, AppendElements
    <3>2. RecUnits \in Nat
      BY RecAssumption
    <3>3. RecUnits * (Len(file) + 1) >= RecUnits * Len(file) /\ RecUnits * (Len(file) + 1) \in Nat
      BY <3>1, <3>2
    <3>4. All' >= All /\ All' \in Nat /\ All \in Nat
      BY <2>3, <3>1, <3>2, <3>3, AllNat DEF All
    <3>5. QED
      BY <2>1, <2>3, <3>1, <3>4
  <2>4. QED
    BY <2>2, <2>3
<1>3. FTypes'
  BY <1>1, <1>2 DEF FTypes
<1>4. /\ mpc' \notin {"start", "exit", "crashed"}
      /\ mpc' = "send" <=> orders' # <<>>
  OBVIOUS
<1>5. fd' # "none" => buy' = Even(ticks')
  BY <1>1, Zenon
<1>6. Emitted'
  BY <1>1, <1>4, <1>5 DEF Emitted, Over
<1>7. QED
  BY <1>3, <1>6

\* send_wire sends the next order, or skips the rest of the tick.
LEMMA EmissionSend == ASSUME FTypes, Emitted, send_wire PROVE FTypes' /\ Emitted'
<1>1. /\ mpc = "send" /\ orders # <<>>
      /\ orders \in Seq(ValidOrder) /\ received \in Seq(ValidOrder)
  BY DEF send_wire, Emitted, FTypes
<1>2. /\ UNCHANGED <<fd, objs, buy, ticks, file, disk>>
      /\ mpc' = IF orders' = <<>> THEN Back ELSE "send"
  BY Zenon DEF send_wire
<1>3. Back \in {"objects", "replay"}
  BY DEF Back
<1>4. PICK up : up = (fd = "up")
  OBVIOUS
<1>5. Owes(ticks, received, up, orders)
  BY <1>4, Zenon DEF Emitted
<1>6. /\ received' \in Seq(ValidOrder) /\ orders' \in Seq(ValidOrder)
      /\ Owes(ticks, received', up, orders')
  <2>1. CASE fd = "up" /\ received' = Append(received, Head(orders)) /\ orders' = Tail(orders)
    <3>1. up
      BY <1>4, <2>1
    <3>2. /\ Append(received, Head(orders)) \in Seq(ValidOrder)
          /\ Tail(orders) \in Seq(ValidOrder)
          /\ Owes(ticks, Append(received, Head(orders)), up, Tail(orders))
      BY <1>1, <1>5, <3>1, OwesSend, Zenon
    <3>3. QED
      BY <2>1, <3>2, Zenon
  <2>2. CASE fd = "gone" /\ orders' = <<>> /\ received' = received
    <3>1. ~up
      BY <1>4, <2>2
    <3>2. Owes(ticks, received, up, <<>>)
      BY <1>5, <3>1, OwesLess, Zenon
    <3>3. QED
      BY <1>1, <2>2, <3>2, EmptySeq, Zenon
  <2>3. QED
    BY <2>1, <2>2, Zenon DEF send_wire
<1>7. FTypes'
  BY <1>2, <1>6 DEF FTypes, All
<1>8. /\ mpc' \notin {"start", "exit", "crashed"}
      /\ mpc' = "send" <=> orders' # <<>>
  BY <1>2, <1>3
<1>9. ~Over
  BY <1>1 DEF Over
<1>10. fd' # "none" => buy' = Even(ticks')
  BY <1>2, Zenon DEF Emitted
<1>11. Owes(ticks', received', fd' = "up", orders')
  BY <1>2, <1>4, <1>6, Zenon
<1>12. Emitted'
  BY <1>8, <1>10, <1>11 DEF Emitted, Over
<1>13. QED
  BY <1>7, <1>12

\* A process starts, or connects to an exchange: nothing is owed.
LEMMA OwesNothing == ASSUME NEW up PROVE Owes(<<>>, <<>>, up, <<>>)
<1>1. Cat(<<>>, <<>>) = <<>> /\ <<>> \in Seq(ValidOrder)
  BY CatFacts
<1>2. QED
  BY <1>1, ExpectedNone, Zenon DEF Owes

\* Every step keeps FTypes and Emitted.
LEMMA EmissionNext ==
  ASSUME WInv, Control, Fetched, FTypes, Emitted, Next
  PROVE  FTypes' /\ Emitted'
<1>0. objs \in Seq(AllObjects) /\ disk \in 0 .. All /\ file \in Seq(Tick)
  BY DEF FTypes
<1>1. ASSUME NEW to, Goto(to), to \notin {"start", "send", "exit", "crashed"},
             ~Over, mpc # "send"
      PROVE  FTypes' /\ Emitted'
  <2>1. /\ UNCHANGED <<ticks, file, orders, received, fd, buy, objs, disk>>
        /\ mpc' = to
    BY <1>1, Zenon DEF Goto
  <2>2. QED
    BY <1>0, <1>1, <2>1, EmissionQuiet DEF Over
<1>2. CASE dial
  <2>1. CASE Leave
    BY <2>1, EmissionLeave
  <2>2. CASE ~Leave
    <3>1. /\ mpc = "start" /\ mpc' \in {"replay", "open"} /\ fd' \in {"up", "none"}
          /\ UNCHANGED <<objs, buy, orders, received, ticks, file, disk>>
      BY <1>2, <2>2 DEF dial
    <3>2. ticks = <<>> /\ received = <<>> /\ orders = <<>> /\ buy /\ buy \in BOOLEAN
      BY <3>1 DEF Emitted, Over, FTypes
    <3>3. FTypes'
      BY <3>1 DEF FTypes, All
    <3>4. Owes(ticks', received', fd' = "up", orders')
      BY <3>1, <3>2, OwesNothing, Zenon
    <3>5. buy' = Even(ticks')
      <4>1. Even(<<>>) = TRUE
        BY ExpectedNone, Zenon DEF Even
      <4>2. buy = TRUE
        BY <3>2
      <4>3. QED
        BY <3>1, <3>2, <4>1, <4>2, Zenon
    <3>6. Emitted'
      BY <3>1, <3>2, <3>4, <3>5 DEF Emitted, Over
    <3>7. QED
      BY <3>3, <3>6
  <2>3. QED
    BY <2>1, <2>2
<1>3. CASE open_capture
  BY <1>1, <1>3, EmissionLeave DEF open_capture, Over
<1>4. CASE set_up
  BY <1>1, <1>4 DEF set_up, Over
<1>5. CASE stream_loop
  BY <1>1, <1>5 DEF stream_loop, Over
<1>6. CASE give_up
  BY <1>6, EmissionLeave DEF give_up
<1>7. CASE split
  <2>1. objs' \in Seq(AllObjects)
    BY <1>7, SplitObjects
  <2>2. /\ UNCHANGED <<ticks, file, orders, received, fd, buy, disk>>
        /\ mpc = "frame" /\ mpc' = "objects"
    BY <1>7, Zenon DEF split
  <2>3. QED
    BY <1>0, <2>1, <2>2, EmissionQuiet DEF Over
<1>8. CASE on_object
  <2>1. /\ mpc = "objects" /\ objs # <<>> /\ objs' = Tail(objs)
        /\ UNCHANGED <<fd, received, disk>>
        /\ mpc' = IF orders' = <<>> THEN "objects" ELSE "send"
    BY <1>8, Zenon DEF on_object
  <2>2. Head(objs) \in AllObjects /\ Tail(objs) \in Seq(AllObjects)
    BY <1>0, <2>1, TicksOfFirst
  <2>3. ~Over /\ mpc # "send"
    BY <2>1 DEF Over
  <2>4. CASE UNCHANGED <<file, buy, orders, ticks>>
    <3>1. orders = <<>>
      BY <2>3 DEF Emitted
    <3>2. mpc' = "objects"
      BY <2>1, <2>4, <3>1
    <3>3. QED
      BY <1>0, <2>1, <2>2, <2>4, <3>2, EmissionQuiet DEF Over
  <2>5. ASSUME NEW r, r = normalize(Head(objs)), r # None,
               file' = IF opts.capture THEN Append(file, r) ELSE file, emit_orders(r)
        PROVE  FTypes' /\ Emitted'
    <3>1. r \in Tick
      BY <2>2, <2>5, TickOfObject, Zenon
    <3>2. file' = file \/ file' = Append(file, r)
      BY <2>5, Zenon
    <3>3. PICK back \in {"objects", "replay"} : back = "objects"
      OBVIOUS
    <3>4. mpc' = IF orders' = <<>> THEN back ELSE "send"
      BY <2>1, <3>3, Zenon
    <3>5. objs' \in Seq(AllObjects)
      BY <2>1, <2>2, Zenon
    <3>6. QED
      BY <2>1, <2>3, <2>5, <3>1, <3>2, <3>4, <3>5, EmissionTick, Zenon
  <2>6. QED
    BY <1>8, <2>4, <2>5, Zenon DEF on_object
<1>9. CASE frame_done
  <2>1. CASE Leave
    BY <2>1, EmissionLeave
  <2>2. CASE ~Leave
    <3>1. /\ mpc = "objects" /\ mpc' = "stream"
          /\ disk' = IF ticks # <<>> /\ Len(ticks) % FlushEvery = 0 THEN All ELSE disk
          /\ UNCHANGED <<fd, objs, buy, orders, received, ticks, file>>
      BY <1>9, <2>2, Zenon DEF frame_done
    <3>2. disk' \in 0 .. All
      BY <1>0, <3>1, AllNat
    <3>3. QED
      BY <1>0, <3>1, <3>2, EmissionQuiet DEF Over
  <2>3. QED
    BY <2>1, <2>2
<1>10. CASE run_replay
  <2>1. CASE Leave
    BY <2>1, EmissionLeave
  <2>2. CASE ~Leave
    <3>1. /\ mpc = "replay" /\ Len(ticks) < disk \div RecUnits
          /\ emit_orders(file[Len(ticks) + 1])
          /\ mpc' = IF orders' = <<>> THEN "replay" ELSE "send"
          /\ UNCHANGED <<fd, objs, received, file, disk>>
      BY <1>10, <2>2, Zenon DEF run_replay
    <3>2. file[Len(ticks) + 1] \in Tick
      BY <3>1, ReplayIndex
    <3>3. ~Over /\ mpc # "send"
      BY <3>1 DEF Over
    <3>4. PICK back \in {"objects", "replay"} : back = "replay"
      OBVIOUS
    <3>5. mpc' = IF orders' = <<>> THEN back ELSE "send"
      BY <3>1, <3>4, Zenon
    <3>6. QED
      BY <1>0, <3>1, <3>2, <3>3, <3>5, EmissionTick, Zenon
  <2>3. QED
    BY <2>1, <2>2
<1>11. CASE send_wire
  BY <1>11, EmissionSend
<1>12. CASE UNCHANGED fvars
  BY <1>0, <1>12, EmissionQuiet DEF fvars, Over
<1>13. CASE Signal
  BY <1>0, <1>13, EmissionQuiet DEF Signal, Over
<1>14. CASE ExchangeGone
  <2>1. /\ fd = "up" /\ fd' = "gone"
        /\ UNCHANGED <<mpc, objs, buy, orders, received, ticks, file, disk>>
    BY <1>14, Zenon DEF ExchangeGone
  <2>2. FTypes'
    BY <2>1 DEF FTypes, All
  <2>3. ~(fd' = "up")
    BY <2>1
  <2>4. Owes(ticks, received, fd' = "up", orders)
    BY <2>3, OwesLess, Zenon DEF Emitted
  <2>5. Owes(ticks', received', fd' = "up", orders')
    BY <2>1, <2>4, Zenon
  <2>6. buy' = Even(ticks')
    <3>1. fd # "none"
      BY <2>1
    <3>2. QED
      BY <2>1, <3>1, Zenon DEF Emitted
  <2>7. Emitted'
    BY <2>1, <2>5, <2>6 DEF Emitted, Over
  <2>8. QED
    BY <2>2, <2>7
<1>15. CASE Crash
  <2>1. /\ mpc' = "crashed" /\ fd' = "none" /\ disk' \in disk .. All
        /\ UNCHANGED <<objs, buy, orders, received, ticks, file>>
    BY <1>15, Zenon DEF Crash
  <2>2. disk' \in 0 .. All
    BY <1>0, <2>1, AllNat
  <2>3. QED
    BY <2>1, <2>2, EmissionOver
<1>16. CASE StartReplay
  <2>1. /\ mpc' = "start" /\ buy' = TRUE /\ orders' = <<>> /\ received' = <<>>
        /\ ticks' = <<>> /\ objs' = <<>> /\ UNCHANGED <<fd, file, disk>> /\ Over
    BY <1>16, Zenon DEF StartReplay
  <2>2. FTypes'
    BY <2>1, EmptySeq DEF FTypes, All
  <2>3. fd' = "none"
    BY <2>1 DEF Emitted
  <2>4. Owes(ticks', received', fd' = "up", orders')
    BY <2>1, OwesNothing, Zenon
  <2>5. Emitted'
    BY <2>1, <2>3, <2>4 DEF Emitted
  <2>6. QED
    BY <2>2, <2>5
<1>17. QED
  BY <1>2, <1>3, <1>4, <1>5, <1>6, <1>7, <1>8, <1>9, <1>10, <1>11, <1>12, <1>13,
     <1>14, <1>15, <1>16, Zenon DEF Next, Main

-----------------------------------------------------------------------------
(* The ticks *)

\* The ticks that have been read and not handled.
Pending == IF Fresh THEN TicksOf(script[nread].objs)
           ELSE IF mpc \in {"objects", "send"} THEN TicksOf(objs) ELSE <<>>

Captured ==
  /\ opts.capture => file = ticks
  /\ mpc = "exit" => ticks = TicksReadOf(script, nread)
  /\ mpc = "crashed" => IsPrefix(ticks, TicksReadOf(script, nread))
  /\ clean <=> mpc = "exit"

Replays ==
  /\ opts.capture
  /\ IsPrefix(file, TicksReadOf(script, nread)) /\ IsPrefix(ticks, file)
  /\ clean => file = TicksReadOf(script, nread)
  /\ mpc = "exit" /\ running /\ ~Enough =>
       Len(ticks) >= disk \div RecUnits \/ ticks = <<>>

Handled ==
  /\ Streaming => Cat(ticks, Pending) = TicksReadOf(script, nread)
  /\ proc = "live" => Captured
  /\ proc = "replay" => Replays
  /\ clean => disk = All

\* Nothing waits to be handled.
LEMMA NothingPending ==
  ASSUME FTypes, Handled, Streaming, ~Fresh,
         mpc \in {"objects", "send"} => objs = <<>>
  PROVE  Pending = <<>> /\ ticks = TicksReadOf(script, nread)
<1>1. Pending = <<>>
  <2>1. objs = <<>> => TicksOf(objs) = <<>>
    BY TicksOfFirst DEF FTypes
  <2>2. QED
    BY <2>1, Zenon DEF Pending
<1>2. Cat(ticks, <<>>) = ticks
  BY CatFacts DEF FTypes
<1>3. QED
  BY <1>1, <1>2, Zenon DEF Handled

\* A step of the running process that handles no tick and reads none.
LEMMA HandledQuiet ==
  ASSUME Handled, Streaming, Streaming', Pending' = Pending,
         TicksReadOf(script', nread') = TicksReadOf(script, nread),
         UNCHANGED <<ticks, file, opts, clean>>
  PROVE  Handled'
<1>1. proc = "live" /\ proc' = "live" /\ mpc \notin {"exit", "crashed"}
      /\ mpc' \notin {"exit", "crashed"}
  BY DEF Streaming, Over
<1>2. ~clean /\ ~clean'
  BY <1>1 DEF Handled, Captured
<1>3. Cat(ticks', Pending') = TicksReadOf(script', nread')
  BY Zenon DEF Handled
<1>4. Captured'
  BY <1>1, <1>2 DEF Handled, Captured
<1>5. proc' # "replay"
  BY <1>1
<1>6. QED
  BY <1>2, <1>3, <1>4, <1>5, Zenon DEF Handled

\* The live process ends by itself.
LEMMA HandledLeave ==
  ASSUME FTypes, Handled, Streaming, ~Fresh,
         mpc \in {"objects", "send"} => objs = <<>>,
         Leave, UNCHANGED <<script, nread>>
  PROVE  Handled'
<1>1. proc = "live"
  BY DEF Streaming
<1>2. /\ mpc' = "exit" /\ disk' = All /\ clean'
      /\ UNCHANGED <<opts, proc, ticks, file>>
  BY <1>1 DEF Leave, Closed
<1>3. ticks = TicksReadOf(script, nread)
  BY NothingPending
<1>4. ~Streaming'
  BY <1>2 DEF Streaming, Over
<1>5. TicksReadOf(script', nread') = TicksReadOf(script, nread)
  BY Zenon
<1>6. Captured'
  BY <1>1, <1>2, <1>3, <1>5 DEF Handled, Captured
<1>7. All' = All
  BY <1>2, Zenon DEF All
<1>8. proc' = "live" /\ disk' = All'
  BY <1>1, <1>2, <1>7
<1>9. QED
  BY <1>4, <1>6, <1>8 DEF Handled

\* An object is handled.
LEMMA HandledObject ==
  ASSUME FTypes, Handled, Control, on_object
  PROVE  Handled'
<1>1. /\ mpc = "objects" /\ objs # <<>> /\ objs' = Tail(objs)
      /\ UNCHANGED <<script, nread, call, ret, opts, proc, clean>>
      /\ mpc' \in {"objects", "send"}
  BY DEF on_object, wsvars
<1>2. Streaming /\ Streaming' /\ proc = "live" /\ proc' = "live"
  BY <1>1, StreamingAt DEF Streaming, Over
<1>3. PICK h \in AllObjects, l \in Seq(Tick), e \in Seq(Tick) :
         /\ h = Head(objs) /\ e = TickOf(h) /\ l = TicksOf(Tail(objs))
         /\ TicksOf(objs) = Cat(e, l)
  <2>1. objs \in Seq(AllObjects)
    BY DEF FTypes
  <2>2. /\ Head(objs) \in AllObjects /\ TicksOf(Tail(objs)) \in Seq(Tick)
        /\ TicksOf(objs) = TickOf(Head(objs)) \o TicksOf(Tail(objs))
    BY <1>1, <2>1, TicksOfFirst
  <2>3. TickOf(Head(objs)) \in Seq(Tick)
    BY <2>2, TickOfObject
  <2>4. QED
    BY <2>2, <2>3, Zenon DEF Cat
<1>4. Pending = Cat(e, l) /\ Pending' = l
  <2>1. ~Fresh /\ ~Fresh'
    BY <1>1 DEF Fresh
  <2>2. QED
    BY <1>1, <1>3, <2>1 DEF Pending
<1>5. Cat(ticks, Cat(e, l)) = TicksReadOf(script, nread)
  BY <1>2, <1>4, Zenon DEF Handled
<1>6. ticks \in Seq(Tick)
  BY DEF FTypes
<1>7. Cat(Cat(ticks, e), l) = Cat(ticks, Cat(e, l))
  BY <1>6, CatAssociative
<1>8. ticks' = Cat(ticks, e) /\ (opts.capture => file' = ticks')
  <2>0. opts.capture => file = ticks
    BY <1>2 DEF Handled, Captured
  <2>1. CASE normalize(h) = None
    <3>1. e = <<>> /\ ticks' = ticks /\ file' = file
      BY <1>3, <2>1, Zenon DEF on_object, TickOf
    <3>2. Cat(ticks, <<>>) = ticks
      BY <1>6, CatFacts
    <3>3. QED
      BY <2>0, <3>1, <3>2, Zenon
  <2>2. CASE normalize(h) # None
    <3>1. PICK r \in Tick : r = normalize(h) /\ e = <<r>>
      BY <1>3, <2>2, TickOfObject, Zenon DEF TickOf
    <3>2. ticks' = Append(ticks, r) /\ (opts.capture => file' = Append(file, r))
      BY <1>3, <2>2, <3>1, Zenon DEF on_object, emit_orders
    <3>3. Append(ticks, r) = ticks \o <<r>>
      BY <1>6, AppendIsConcat
    <3>4. QED
      BY <2>0, <3>1, <3>2, <3>3, Zenon DEF Cat
  <2>3. QED
    BY <2>1, <2>2
<1>9. Cat(ticks', Pending') = TicksReadOf(script', nread')
  BY <1>1, <1>4, <1>5, <1>7, <1>8, Zenon
<1>10. ~clean /\ ~clean'
  BY <1>1, <1>2 DEF Handled, Captured
<1>11. Captured'
  <2>1. mpc' \notin {"exit", "crashed"}
    BY <1>1
  <2>2. QED
    BY <1>1, <1>8, <1>10, <2>1 DEF Captured
<1>12. proc' # "replay"
  BY <1>2
<1>13. QED
  BY <1>9, <1>10, <1>11, <1>12, Zenon DEF Handled

\* A frame is read: its ticks are pending if read_frame returns it, and if
\* await drops it there are none.
LEMMA HandledTake ==
  ASSUME WInv, Control, Announced, FTypes, Handled, Streaming, take_frame,
         UNCHANGED fvars
  PROVE  Handled'
<1>1. /\ script \in Seq(ServerFrames) /\ nread \in 0 .. Len(script)
      /\ Len(script) \in Nat
  BY LenProperties DEF WInv, WsTypes
<1>2. /\ nread + 1 \in 1 .. Len(script) /\ nread' = nread + 1 /\ script' = script
      /\ script[nread + 1] \in ServerFrames
      /\ call \in {"authenticate", "subscribe", "read_frame"}
      /\ Takes(script[nread + 1], Payload(script[nread + 1], nread + 1))
  BY TakeFrame
<1>3. PICK i \in Nat : i = nread + 1 /\ i \in 1 .. Len(script)
  BY <1>1, <1>2
<1>4. PICK f \in ServerFrames : f = script[i]
  BY <1>2, <1>3
<1>5. PICK p : p = Payload(f, i) /\ Takes(f, p)
  BY <1>2, <1>3, <1>4, Zenon
<1>6. UNCHANGED <<mpc, proc, ticks, file, objs, opts, clean, disk>>
  BY Zenon DEF fvars
<1>7. mpc \notin {"start", "open", "connect", "auth", "objects", "send"}
      /\ (call = "authenticate" => mpc = "subscribe")
      /\ (call = "read_frame" <=> mpc = "frame")
  BY <1>2 DEF Control, InCall, WsInit, Stages, Streaming, Over
<1>8. ~Fresh
  BY <1>2 DEF Fresh
<1>9. ticks = TicksReadOf(script, nread)
  BY <1>7, <1>8, NothingPending
<1>10. PICK l \in Seq(Tick) : /\ l = TicksOf(f.objs)
                              /\ TicksReadOf(script', nread') = Cat(ticks, l)
  <2>1. nread < Len(script)
    BY <1>1, <1>2
  <2>2. /\ TicksOf(script[nread + 1].objs) \in Seq(Tick)
        /\ TicksReadOf(script, nread + 1)
             = TicksReadOf(script, nread) \o TicksOf(script[nread + 1].objs)
    BY <1>1, <2>1, TicksReadStep
  <2>3. QED
    BY <1>2, <1>3, <1>4, <1>9, <2>2, Zenon DEF Cat
<1>11. ASSUME call # "read_frame" PROVE l = <<>>
  <2>1. SUFFICES ASSUME f.msg = "data" PROVE FALSE
    BY <1>10, ObjectsOf, Zenon
  <2>2. PICK j \in 1 .. i - 1 : script[j].msg = "subscription"
    BY <1>3, <1>4, <2>1, Zenon DEF Announced
  <2>3. j \in 1 .. nread /\ j \in 1 .. Len(script)
    BY <1>1, <1>3
  <2>4. CASE call = "authenticate"
    <3>1. ~Sent("subscription")
      BY <1>7, <2>4 DEF Announced, Early
    <3>2. j \in DOMAIN script
      BY <1>1, <2>3, LenProperties
    <3>3. QED
      BY <2>2, <3>1, <3>2, Zenon DEF Sent
  <2>5. CASE call = "subscribe"
    BY <2>2, <2>3, <2>5, Zenon DEF Announced
  <2>6. QED
    BY <1>2, <1>11, <2>4, <2>5
<1>12. Pending' = IF Fresh' THEN l ELSE <<>>
  <2>1. script'[nread'].objs = f.objs
    BY <1>2, <1>3, <1>4, Zenon
  <2>2. mpc' \notin {"objects", "send"}
    BY <1>6, <1>7
  <2>3. QED
    BY <1>10, <2>1, <2>2, Zenon DEF Pending
<1>13. ASSUME ~Fresh' PROVE l = <<>>
  <2>1. CASE call # "read_frame"
    BY <1>11, <2>1
  <2>2. CASE call = "read_frame" /\ f.op \in {"text", "binary"}
    <3>1. mpc' = "frame"
      BY <1>6, <1>7, <2>2
    <3>2. call' = "none" /\ ret'
      BY <1>5, <2>2 DEF Takes, Deliver, Return
    <3>3. QED
      BY <1>13, <3>1, <3>2 DEF Fresh
  <2>3. CASE f.op \notin {"text", "binary"}
    BY <1>10, <2>3, ObjectsOf, Zenon
  <2>4. QED
    BY <2>1, <2>2, <2>3
<1>14. Cat(ticks', Pending') = TicksReadOf(script', nread')
  BY <1>6, <1>10, <1>12, <1>13, Zenon
<1>15. proc = "live" /\ mpc \notin {"exit", "crashed"}
  BY DEF Streaming, Over
<1>16. ~clean
  BY <1>15 DEF Handled, Captured
<1>17. Captured'
  BY <1>6, <1>15, <1>16 DEF Handled, Captured
<1>18. proc' # "replay" /\ ~clean'
  BY <1>6, <1>15, <1>16
<1>19. QED
  BY <1>14, <1>17, <1>18, Zenon DEF Handled

\* SSL_read and http_upgrade read no frame.
LEMMA HandledBytes ==
  ASSUME WInv, Control, Handled, Streaming, SSL_read \/ http_upgrade, UNCHANGED fvars
  PROVE  Handled'
<1>1. UNCHANGED <<script, nread>>
  BY Zenon DEF SSL_read, http_upgrade
<1>2. UNCHANGED <<mpc, proc, ticks, file, objs, opts, clean>>
  BY Zenon DEF fvars
<1>3. call # "none"
  BY DEF SSL_read, http_upgrade, Wanting
<1>4. ~Fresh
  BY <1>3 DEF Fresh
<1>5. ~Fresh'
  <2>1. SUFFICES ASSUME mpc = "frame", call' = "none", ret' PROVE FALSE
    BY <1>2 DEF Fresh
  <2>2. call = "read_frame"
    BY <1>3, <2>1 DEF Control, InCall
  <2>3. QED
    BY <2>1, <2>2 DEF SSL_read, http_upgrade, Return
<1>6. Pending' = Pending
  BY <1>2, <1>4, <1>5, Zenon DEF Pending
<1>7. Streaming'
  BY <1>2, Zenon DEF Streaming, Over
<1>8. TicksReadOf(script', nread') = TicksReadOf(script, nread)
  BY <1>1, Zenon
<1>9. QED
  BY <1>2, <1>6, <1>7, <1>8, HandledQuiet, Zenon

\* The server sends more.
LEMMA HandledServer ==
  ASSUME WInv, Fetched, Handled, Streaming, Server, UNCHANGED fvars
  PROVE  Handled'
<1>1. UNCHANGED <<call, ret, nread>>
  BY ServerEffect
<1>2. UNCHANGED <<mpc, proc, ticks, file, objs, opts, clean>>
  BY Zenon DEF fvars
<1>3. script \in Seq(ServerFrames) /\ nread \in 0 .. Len(script)
  BY DEF WInv, WsTypes
<1>4. \/ script' = script
      \/ \E f \in ServerFrames : script' = Append(script, f)
  BY Zenon DEF Server, Respond, Serve, Drop
<1>5. TicksReadOf(script', nread') = TicksReadOf(script, nread)
  BY <1>1, <1>3, <1>4, TicksReadStep, Zenon
<1>6. Fresh' = Fresh
  BY <1>1, <1>2, Zenon DEF Fresh
<1>7. Fresh => script'[nread] = script[nread]
  <2>1. SUFFICES ASSUME Fresh, NEW f \in ServerFrames, script' = Append(script, f)
                 PROVE  script'[nread] = script[nread]
    BY <1>4, Zenon
  <2>2. nread > 0
    BY <2>1 DEF Fetched
  <2>3. Len(script) \in Nat /\ \A i \in 1 .. Len(script) : Append(script, f)[i] = script[i]
    BY <1>3, AppendElements
  <2>4. nread \in 1 .. Len(script)
    BY <1>3, <2>2, <2>3
  <2>5. QED
    BY <2>1, <2>3, <2>4, Zenon
<1>8. Pending' = Pending
  BY <1>1, <1>2, <1>6, <1>7, Zenon DEF Pending
<1>9. Streaming'
  BY <1>2, Zenon DEF Streaming, Over
<1>10. QED
  BY <1>2, <1>5, <1>8, <1>9, HandledQuiet, Zenon



\* A step of the replaying process that handles no tick.
LEMMA ReplayQuiet ==
  ASSUME Handled, proc = "replay", UNCHANGED <<script, nread, opts, proc, ticks, file, disk>>,
         clean' => clean,
         mpc' = "exit" /\ running' /\ ~Enough' =>
           Len(ticks) >= disk \div RecUnits \/ ticks = <<>>
  PROVE  Handled'
<1>1. ~Streaming' /\ proc' = "replay"
  BY DEF Streaming
<1>2. TicksReadOf(script', nread') = TicksReadOf(script, nread)
  BY Zenon
<1>3. Replays'
  BY <1>2, Zenon DEF Handled, Replays
<1>4. clean' => disk' = All'
  BY Zenon DEF Handled, All
<1>5. QED
  BY <1>1, <1>3, <1>4 DEF Handled

\* run_replay handles the next record of the capture, or ends.
LEMMA HandledReplay ==
  ASSUME FTypes, Control, Handled, run_replay
  PROVE  Handled'
<1>1. mpc = "replay" /\ proc = "replay" /\ UNCHANGED <<script, nread>>
  BY StreamingAt DEF run_replay, wsvars
<1>2. Len(ticks) \in Nat /\ disk \div RecUnits \in Int
      /\ ticks \in Seq(Tick) /\ file \in Seq(Tick)
  <2>1. ticks \in Seq(Tick) /\ file \in Seq(Tick) /\ disk \in Int
    BY DEF FTypes
  <2>2. QED
    BY <2>1, RecAssumption, LenProperties, DivMod
<1>3. CASE /\ Leave
           /\ ~(running /\ Len(ticks) < disk \div RecUnits /\ ~Enough) \/ ticks = <<>>
  <2>1. /\ UNCHANGED <<opts, proc, running, ticks, file>>
        /\ disk' = disk /\ clean' = (clean \/ proc = "live")
    BY <1>1, <1>3 DEF Leave
  <2>2. clean' => clean
    BY <1>1, <2>1
  <2>3. Enough' <=> Enough
    BY <2>1, Zenon DEF Enough
  <2>4. running' /\ ~Enough' => Len(ticks) >= disk \div RecUnits \/ ticks = <<>>
    BY <1>2, <1>3, <2>1, <2>3
  <2>5. QED
    BY <1>1, <2>1, <2>2, <2>4, ReplayQuiet, Zenon
<1>4. CASE /\ Len(ticks) < disk \div RecUnits /\ emit_orders(file[Len(ticks) + 1])
           /\ mpc' = IF orders' = <<>> THEN "replay" ELSE "send"
           /\ UNCHANGED <<opts, proc, running, fd, objs, received, file, disk, clean>>
  <2>1. /\ ticks' = Append(ticks, file[Len(ticks) + 1])
        /\ (mpc' = "replay" \/ mpc' = "send")
        /\ UNCHANGED <<opts, proc, file, disk, clean>>
    BY <1>4, Zenon DEF emit_orders
  <2>2. Len(ticks) + 1 \in 1 .. Len(file)
    BY <1>4, ReplayIndex
  <2>3. Replays
    BY <1>1 DEF Handled
  <2>4. IsPrefix(ticks, file)
    BY <2>3 DEF Replays
  <2>5. IsPrefix(ticks', file)
    BY <1>2, <2>1, <2>2, <2>4, PrefixNext, Zenon
  <2>6. TicksReadOf(script', nread') = TicksReadOf(script, nread)
    BY <1>1, Zenon
  <2>7. mpc' # "exit"
    BY <2>1
  <2>8. Replays'
    BY <2>1, <2>3, <2>5, <2>6, <2>7, Zenon DEF Replays
  <2>9. ~Streaming' /\ proc' = "replay"
    BY <1>1, <2>1 DEF Streaming
  <2>10. clean' => disk' = All'
    BY <2>1, Zenon DEF Handled, All
  <2>11. QED
    BY <2>8, <2>9, <2>10 DEF Handled
<1>5. QED
  BY <1>3, <1>4, Zenon DEF run_replay

\* The capture of the live process is what the replaying process finds.
LEMMA HandledStart ==
  ASSUME FTypes, Handled, WInv, StartReplay
  PROVE  Handled'
<1>1. /\ Over /\ proc = "live" /\ opts.capture /\ proc' = "replay" /\ mpc' = "start"
      /\ ticks' = <<>> /\ UNCHANGED <<opts, file, disk, clean, script, nread>>
  BY Zenon DEF StartReplay, Killed
<1>2. PICK s \in Seq(Tick) : s = TicksReadOf(script, nread)
  BY TicksReadStep DEF WInv, WsTypes
<1>3. Captured /\ file \in Seq(Tick)
  BY <1>1 DEF Handled, FTypes
<1>4. file = ticks /\ IsPrefix(ticks, s) /\ (clean => ticks = s)
  <2>1. file = ticks /\ (clean => ticks = s)
    BY <1>1, <1>2, <1>3 DEF Captured
  <2>2. CASE mpc = "exit"
    <3>1. ticks = s
      BY <1>2, <1>3, <2>2 DEF Captured
    <3>2. s = s \o <<>> /\ <<>> \in Seq(Tick)
      BY ConcatEmptySeq, EmptySeq
    <3>3. IsPrefix(s, s)
      BY <3>2, PrefixConcat
    <3>4. QED
      BY <2>1, <3>1, <3>3
  <2>3. CASE mpc = "crashed"
    BY <1>2, <1>3, <2>1, <2>3, Zenon DEF Captured
  <2>4. QED
    BY <1>1, <2>2, <2>3 DEF Over
<1>5. IsPrefix(<<>>, file)
  <2>1. file = <<>> \o file /\ <<>> \in Seq(Tick)
    BY <1>3, ConcatEmptySeq, EmptySeq
  <2>2. QED
    BY <1>3, <2>1, PrefixConcat
<1>6. TicksReadOf(script', nread') = s
  BY <1>1, <1>2, Zenon
<1>7. mpc' # "exit"
  BY <1>1
<1>8. Replays'
  BY <1>1, <1>4, <1>5, <1>6, <1>7, Zenon DEF Replays
<1>9. clean' => disk' = All'
  BY <1>1, Zenon DEF Handled, All
<1>10. ~Streaming' /\ proc' = "replay"
  BY <1>1 DEF Streaming
<1>11. QED
  BY <1>8, <1>9, <1>10 DEF Handled

\* What is pending are ticks.
LEMMA PendingTicks ==
  ASSUME FTypes, WInv, Fetched, Streaming
  PROVE  Pending \in Seq(Tick)
<1>1. TicksOf(objs) \in Seq(Tick) /\ <<>> \in Seq(Tick)
  BY TicksOfFirst, EmptySeq DEF FTypes
<1>2. Fresh => TicksOf(script[nread].objs) \in Seq(Tick)
  <2>1. SUFFICES ASSUME Fresh PROVE TicksOf(script[nread].objs) \in Seq(Tick)
    OBVIOUS
  <2>2. nread > 0
    BY <2>1 DEF Fetched
  <2>3. script \in Seq(ServerFrames) /\ nread \in 0 .. Len(script)
    BY DEF WInv, WsTypes
  <2>4. script[nread] \in ServerFrames
    BY <2>2, <2>3, LenProperties, ElementOfSeq
  <2>5. QED
    BY <2>4, ObjectsOf
<1>3. QED
  BY <1>1, <1>2, Zenon DEF Pending

\* The live process dies.
LEMMA HandledCrash ==
  ASSUME FTypes, Handled, WInv, Fetched, Crash
  PROVE  Handled'
<1>1. /\ Streaming /\ mpc' = "crashed"
      /\ UNCHANGED <<opts, proc, ticks, file, clean, script, nread>>
  BY Zenon DEF Crash, Killed, Streaming
<1>2. PICK s \in Seq(Tick) : s = TicksReadOf(script, nread)
  BY TicksReadStep DEF WInv, WsTypes
<1>3. proc = "live" /\ mpc \notin {"exit", "crashed"}
  BY <1>1 DEF Streaming, Over
<1>4. Captured /\ ~clean
  BY <1>3 DEF Handled, Captured
<1>5. IsPrefix(ticks, s)
  <2>1. Pending \in Seq(Tick) /\ ticks \in Seq(Tick)
    BY <1>1, PendingTicks DEF FTypes
  <2>2. s = ticks \o Pending
    BY <1>1, <1>2, Zenon DEF Handled, Cat
  <2>3. QED
    BY <2>1, <2>2, PrefixConcat, Zenon
<1>6. TicksReadOf(script', nread') = s
  BY <1>1, <1>2, Zenon
<1>7. Captured'
  BY <1>1, <1>4, <1>5, <1>6 DEF Captured
<1>8. ~Streaming' /\ proc' = "live" /\ ~clean'
  BY <1>1, <1>3, <1>4 DEF Streaming, Over
<1>9. QED
  BY <1>7, <1>8 DEF Handled

\* Every step keeps Handled.
LEMMA HandledNext ==
  ASSUME WInv, Control, Announced, Fetched, FTypes, Emitted, Handled, Next
  PROVE  Handled'
<1>0. ASSUME UNCHANGED <<script, nread>>
      PROVE  TicksReadOf(script', nread') = TicksReadOf(script, nread)
  BY <1>0, Zenon
<1>1. ASSUME NEW to, Goto(to), to \notin {"objects", "send", "exit", "crashed"},
             to = "frame" => call' # "none", Streaming, UNCHANGED <<script, nread>>,
             mpc \notin {"objects", "send", "frame"}
      PROVE  Handled'
  <2>1. UNCHANGED <<ticks, file, opts, clean, proc>> /\ mpc' = to
    BY <1>1, Zenon DEF Goto
  <2>2. ~Fresh /\ ~Fresh'
    BY <1>1, <2>1 DEF Fresh
  <2>3. Pending = <<>> /\ Pending' = <<>>
    BY <1>1, <2>1, <2>2 DEF Pending
  <2>4. Streaming'
    BY <1>1, <2>1 DEF Streaming, Over
  <2>5. QED
    BY <1>0, <1>1, <2>1, <2>3, <2>4, HandledQuiet, Zenon
<1>2. CASE dial
  <2>1. UNCHANGED <<script, nread>> /\ mpc = "start"
    BY <1>2, Zenon DEF dial, wsvars
  <2>2. ~Fresh
    BY <2>1 DEF Fresh
  <2>3. CASE proc = "live"
    <3>1. Streaming
      BY <2>1, <2>3 DEF Streaming, Over
    <3>2. CASE Leave
      BY <2>1, <2>2, <3>1, <3>2, HandledLeave
    <3>3. CASE ~Leave
      <4>1. mpc' = "open" /\ UNCHANGED <<ticks, file, opts, clean, proc>>
        BY <1>2, <2>3, <3>3 DEF dial
      <4>2. ~Fresh'
        BY <4>1 DEF Fresh
      <4>3. Pending = <<>> /\ Pending' = <<>>
        BY <2>1, <2>2, <4>1, <4>2 DEF Pending
      <4>4. Streaming'
        BY <2>3, <4>1 DEF Streaming, Over
      <4>5. QED
        BY <1>0, <2>1, <3>1, <4>1, <4>3, <4>4, HandledQuiet, Zenon
    <3>4. QED
      BY <3>2, <3>3
  <2>4. CASE proc = "replay"
    <3>1. ticks = <<>>
      BY <2>1 DEF Emitted
    <3>2. /\ UNCHANGED <<opts, proc, ticks, file, disk>>
          /\ clean' => clean
      <4>1. CASE opts.connect /\ Leave
        <5>1. /\ UNCHANGED <<opts, proc, ticks, file>>
              /\ disk' = IF proc = "live" THEN Closed ELSE disk
              /\ clean' = (clean \/ proc = "live")
          BY <4>1, Zenon DEF Leave
        <5>2. proc # "live"
          BY <2>4
        <5>3. QED
          BY <4>1, <5>1, <5>2, Zenon
      <4>2. CASE /\ mpc' = IF proc = "replay" THEN "replay" ELSE "open"
                 /\ UNCHANGED <<opts, proc, running, objs, buy, orders, received, ticks,
                                file, disk, clean>>
        BY <4>2, Zenon
      <4>3. QED
        BY <1>2, <4>1, <4>2, Zenon DEF dial
    <3>3. QED
      BY <2>1, <2>4, <3>1, <3>2, ReplayQuiet
  <2>5. QED
    BY <2>3, <2>4 DEF Control
<1>3. CASE open_capture
  <2>1. UNCHANGED <<script, nread>> /\ mpc = "open"
    BY <1>3, Zenon DEF open_capture, wsvars
  <2>2. ~Fresh /\ Streaming
    BY <2>1, StreamingAt DEF Fresh
  <2>3. CASE Leave
    BY <2>1, <2>2, <2>3, HandledLeave
  <2>4. CASE Goto("connect")
    BY <1>1, <2>1, <2>2, <2>4
  <2>5. QED
    BY <1>3, <2>3, <2>4 DEF open_capture
<1>4. CASE set_up
  <2>1. UNCHANGED <<script, nread>>
    BY <1>4, Zenon DEF set_up, connect, authenticate, subscribe, Request
  <2>2. /\ mpc \in {"connect", "auth", "subscribe"}
        /\ Goto("auth") \/ Goto("subscribe") \/ Goto("stream")
    BY <1>4 DEF set_up
  <2>3. Streaming
    BY <2>2, StreamingAt
  <2>4. QED
    BY <1>1, <2>1, <2>2, <2>3
<1>5. CASE stream_loop
  <2>1. /\ UNCHANGED <<script, nread>> /\ call' = "read_frame"
        /\ mpc = "stream" /\ Goto("frame")
    BY <1>5, Zenon DEF stream_loop, read_frame
  <2>2. Streaming
    BY <2>1, StreamingAt
  <2>3. QED
    BY <1>1, <2>1, <2>2
<1>6. CASE give_up
  <2>1. UNCHANGED <<script, nread>> /\ Leave
    BY <1>6, Zenon DEF give_up, close
  <2>2. /\ mpc \in {"auth", "subscribe", "stream", "frame"}
        /\ mpc = "frame" => ~ret
    BY <1>6 DEF give_up
  <2>3. Streaming /\ ~Fresh
    BY <2>2, StreamingAt DEF Fresh
  <2>4. QED
    BY <2>1, <2>2, <2>3, HandledLeave
<1>7. CASE split
  <2>1. Streaming /\ Fresh /\ objs' = script[nread].objs
    BY <1>7, SplitObjects
  <2>2. /\ UNCHANGED <<script, nread, ticks, file, opts, clean, proc>>
        /\ mpc' = "objects"
    BY <1>7, Zenon DEF split, wsvars
  <2>3. ~Fresh' /\ mpc' \in {"objects", "send"}
    BY <2>2 DEF Fresh
  <2>4. Pending' = Pending
    BY <2>1, <2>3, Zenon DEF Pending
  <2>5. Streaming'
    BY <2>1, <2>2 DEF Streaming, Over
  <2>6. QED
    BY <1>0, <2>1, <2>2, <2>4, <2>5, HandledQuiet, Zenon
<1>8. CASE on_object
  BY <1>8, HandledObject
<1>9. CASE frame_done
  <2>1. UNCHANGED <<script, nread>> /\ mpc = "objects" /\ objs = <<>>
    BY <1>9, Zenon DEF frame_done, close, wsvars
  <2>2. Streaming /\ ~Fresh
    BY <2>1, StreamingAt DEF Fresh
  <2>3. CASE Leave
    BY <2>1, <2>2, <2>3, HandledLeave
  <2>4. CASE ~Leave
    <3>1. mpc' = "stream" /\ UNCHANGED <<ticks, file, opts, clean, proc>>
      BY <1>9, <2>4, Zenon DEF frame_done
    <3>2. ~Fresh'
      BY <3>1 DEF Fresh
    <3>3. Pending = <<>>
      BY <2>1, <2>2, NothingPending
    <3>4. Pending' = <<>>
      BY <3>1, <3>2 DEF Pending
    <3>5. Streaming'
      BY <2>2, <3>1 DEF Streaming, Over
    <3>6. QED
      BY <1>0, <2>1, <2>2, <3>1, <3>3, <3>4, <3>5, HandledQuiet, Zenon
  <2>5. QED
    BY <2>3, <2>4
<1>10. CASE run_replay
  BY <1>10, HandledReplay
<1>11. CASE send_wire
  <2>1. /\ UNCHANGED <<script, nread, ticks, file, opts, clean, proc, disk, objs>>
        /\ mpc = "send" /\ (mpc' = Back \/ mpc' = "send")
    BY <1>11, Zenon DEF send_wire, wsvars
  <2>2. CASE proc = "live"
    <3>1. mpc' \in {"objects", "send"}
      BY <2>1, <2>2 DEF Back
    <3>2. ~Fresh /\ ~Fresh' /\ Streaming /\ Streaming'
      BY <2>1, <2>2, <3>1 DEF Fresh, Streaming, Over
    <3>3. Pending = TicksOf(objs) /\ Pending' = TicksOf(objs')
      BY <2>1, <3>1, <3>2 DEF Pending
    <3>4. Pending' = Pending
      BY <2>1, <3>3, Zenon
    <3>5. QED
      BY <1>0, <2>1, <3>2, <3>4, HandledQuiet, Zenon
  <2>3. CASE proc = "replay"
    <3>1. mpc' # "exit"
      BY <2>1, <2>3 DEF Back
    <3>2. QED
      BY <2>1, <2>3, <3>1, ReplayQuiet
  <2>4. QED
    BY <2>2, <2>3 DEF Control
<1>12. CASE Streaming /\ ReadStep /\ UNCHANGED fvars
  BY <1>12, HandledBytes, HandledTake, Zenon DEF ReadStep
<1>13. CASE Streaming /\ Server /\ UNCHANGED fvars
  BY <1>13, HandledServer
<1>14. CASE Signal \/ ExchangeGone
  <2>1. /\ UNCHANGED <<script, nread, call, ret, ticks, file, opts, clean, proc, disk, objs,
                       mpc, received>>
        /\ running' => running
    BY <1>14 DEF Signal, ExchangeGone, wsvars
  <2>2. Pending' = Pending
    BY <2>1, Zenon DEF Pending, Fresh
  <2>3. Streaming' <=> Streaming
    BY <2>1, Zenon DEF Streaming, Over
  <2>4. CASE Streaming
    BY <1>0, <2>1, <2>2, <2>3, <2>4, HandledQuiet, Zenon
  <2>5. CASE proc = "replay"
    <3>1. Enough' <=> Enough
      BY <2>1, Zenon DEF Enough
    <3>2. mpc' = "exit" /\ running' /\ ~Enough' =>
            Len(ticks) >= disk \div RecUnits \/ ticks = <<>>
      BY <2>1, <2>5, <3>1, Zenon DEF Handled, Replays
    <3>3. QED
      BY <2>1, <2>5, <3>2, ReplayQuiet, Zenon
  <2>6. Streaming \/ proc = "replay"
    BY <1>14 DEF Signal, ExchangeGone, Control, Streaming, Over, Emitted
  <2>7. QED
    BY <2>4, <2>5, <2>6
<1>15. CASE Crash
  BY <1>15, HandledCrash
<1>16. CASE StartReplay
  BY <1>16, HandledStart
<1>17. QED
  BY <1>2, <1>3, <1>4, <1>5, <1>6, <1>7, <1>8, <1>9, <1>10, <1>11, <1>12, <1>13,
     <1>14, <1>15, <1>16, Zenon DEF Next, Main

-----------------------------------------------------------------------------
(* The invariant, and what follows from it *)

FeedInv == /\ WInv /\ Control /\ Announced /\ Fetched
           /\ FTypes /\ Emitted /\ Handled

\* The invariant holds initially.
LEMMA FeedInvInit == Init => FeedInv
<1> SUFFICES ASSUME Init PROVE FeedInv
  OBVIOUS
<1>1. WsInit
  BY Zenon DEF Init
<1>2. /\ proc = "live" /\ mpc = "start" /\ fd = "none" /\ objs = <<>> /\ buy = TRUE
      /\ orders = <<>> /\ received = <<>> /\ ticks = <<>> /\ file = <<>> /\ disk = 0
      /\ clean = FALSE
  BY Zenon DEF Init
<1>3. script = <<>> /\ nread = 0 /\ call = "none" /\ tx = <<>>
  BY <1>1, Zenon DEF WsInit
<1>4. WInv
  BY <1>1, WInvInit
<1>5. Control
  BY <1>1, <1>2 DEF Control, InCall, Stages, Streaming, Over
<1>6. Announced
  <2>1. ~Asked(<<"subscribe">>) /\ ~Sent("subscription")
    BY <1>3 DEF Asked, Sent
  <2>2. QED
    BY <1>3, <2>1 DEF Announced
<1>7. Fetched
  BY <1>2 DEF Fetched, Fresh
<1>8. FTypes
  <2>1. All = 0
    <3>1. RecUnits \in Nat /\ Len(<<>>) = 0
      BY RecAssumption
    <3>2. QED
      BY <1>2, <3>1 DEF All
  <2>2. QED
    BY <1>2, <2>1, EmptySeq DEF FTypes
<1>9. Emitted
  <2>1. Owes(ticks, received, fd = "up", orders)
    BY <1>2, OwesNothing, Zenon
  <2>2. QED
    BY <1>2, <2>1 DEF Emitted, Over
<1>10. Handled
  <2>1. Pending = <<>>
    BY <1>2 DEF Pending, Fresh
  <2>2. TicksReadOf(script, nread) = <<>>
    <3>1. script \in Seq(ServerFrames) /\ nread \in 0 .. Len(script)
      BY <1>4 DEF WInv, WsTypes
    <3>2. QED
      BY <1>3, <3>1, TicksReadStep
  <2>3. Cat(<<>>, <<>>) = <<>>
    <3>1. <<>> \in Seq(Tick)
      OBVIOUS
    <3>2. QED
      BY <3>1, CatFacts
  <2>4. Captured
    BY <1>2 DEF Captured
  <2>5. Cat(ticks, Pending) = TicksReadOf(script, nread)
    BY <1>2, <2>1, <2>2, <2>3, Zenon
  <2>6. QED
    BY <1>2, <2>4, <2>5 DEF Handled
<1>11. QED
  BY <1>4, <1>5, <1>6, <1>7, <1>8, <1>9, <1>10 DEF FeedInv

\* Every step keeps the invariant.
LEMMA FeedInvNext == FeedInv /\ [Next]_allvars => FeedInv'
<1> SUFFICES ASSUME FeedInv, [Next]_allvars PROVE FeedInv'
  OBVIOUS
<1>1. CASE Next
  <2>1. WInv /\ Control /\ Announced /\ Fetched /\ FTypes /\ Emitted /\ Handled
    BY Zenon DEF FeedInv
  <2>2. WInv' /\ Control'
    BY <1>1, <2>1, WInvNext, ControlNext, Zenon
  <2>3. Announced' /\ Fetched'
    BY <1>1, <2>1, AnnouncedNext, FetchedNext, Zenon
  <2>4. FTypes' /\ Emitted'
    BY <1>1, <2>1, EmissionNext, Zenon
  <2>5. Handled'
    BY <1>1, <2>1, HandledNext, Zenon
  <2>6. QED
    BY <2>2, <2>3, <2>4, <2>5, Zenon DEF FeedInv
<1>2. CASE UNCHANGED allvars
  <2> USE <1>2 DEF allvars, wsvars, fvars
  <2>1. WInv'
    BY WInvSame, Zenon DEF FeedInv
  <2>2. Streaming' = Streaming /\ Fresh' = Fresh /\ Over' = Over
    BY Zenon DEF Streaming, Over, Fresh
  <2>3. Control' /\ Announced'
    <3>1. Control'
      BY <2>2, Zenon DEF FeedInv, Control, InCall, WsInit
    <3>2. Announced'
      BY <2>2, AnnouncedKept, Zenon DEF FeedInv
    <3>3. QED
      BY <3>1, <3>2
  <2>4. Fetched'
    BY <2>2, Zenon DEF FeedInv, Fetched
  <2>5. FTypes' /\ Emitted'
    <3>1. objs' \in Seq(AllObjects) /\ disk' \in 0 .. All
      BY Zenon DEF FeedInv, FTypes
    <3>2. QED
      BY <2>2, <3>1, EmissionQuiet, Zenon DEF FeedInv
  <2>6. Handled'
    BY <2>2, Zenon DEF FeedInv, Handled, Pending, Captured, Replays, Enough, All
  <2>7. QED
    BY <2>1, <2>3, <2>4, <2>5, <2>6, Zenon DEF FeedInv
<1>3. QED
  BY <1>1, <1>2

\* The invariant of a tradefeed-feed process: its connection (WInv), where
\* main is and in which call (Control), no data before the confirmation of the
\* subscription (Announced), the frame main is looking at (Fetched), the
\* orders (Emitted), and the ticks, live and replayed (Handled).
THEOREM FeedInvariant == FairSpec => []FeedInv
<1>1. QED
  BY FeedInvInit, FeedInvNext, PTL DEF FairSpec

\* What has come is a prefix of what is awaited, and all of it while the
\* server is up.
LEMMA AwaitsPrefix ==
  ASSUME NEW r \in Seq(Byte), NEW w \in Seq(Byte), NEW x \in Seq(Byte), NEW up,
         Awaits(r, w, up, x)
  PROVE  IsPrefix(r \o w, x) /\ (up => r \o w = x)
<1>1. PICK l \in Seq(Byte) : Cat(Cat(r, w), l) = x /\ (up => l = <<>>)
  BY Zenon DEF Awaits
<1>2. PICK s \in Seq(Byte) : s = Cat(r, w)
  BY CatFacts
<1>3. x = s \o l /\ s = r \o w
  BY <1>1, <1>2, Zenon DEF Cat
<1>4. IsPrefix(s, x)
  BY <1>3, PrefixConcat
<1>5. Cat(s, <<>>) = s
  BY CatFacts
<1>6. QED
  BY <1>1, <1>2, <1>3, <1>4, <1>5, Zenon

\* For any frames and any way SSL_read cuts the stream, the upgrade response
\* included, rx_ and the bytes to come are exactly the frames not yet taken, or
\* the first bytes of them after the connection has ended, and read_frame
\* hands out whole text or binary frames of the server only.
THEOREM FramesAreFaithful == FairSpec => []FramesFaithful
<1>1. FeedInv => FramesFaithful
  <2>1. SUFFICES ASSUME WInv PROVE FramesFaithful
    BY Zenon DEF FeedInv
  <2>2. /\ rx \in Seq(Byte) /\ wire \in Seq(Byte)
        /\ script \in Seq(ServerFrames) /\ nread \in 0 .. Len(script)
    BY <2>1 DEF WInv, WsTypes
  <2>3. AheadOf(script, nread) \in Seq(Byte)
    BY <2>2, AheadTake
  <2>4. ASSUME Upgraded
        PROVE  /\ IsPrefix(rx \o wire, Ahead)
               /\ srv = "up" => rx \o wire = Ahead
    <3>1. PICK up : up = (srv = "up")
      OBVIOUS
    <3>2. Awaits(rx, wire, up, AheadOf(script, nread))
      BY <2>1, <2>4, <3>1, Zenon DEF WInv, Connection
    <3>3. /\ IsPrefix(rx \o wire, AheadOf(script, nread))
          /\ up => rx \o wire = AheadOf(script, nread)
      <4>1. PICK x \in Seq(Byte) : x = AheadOf(script, nread)
        BY <2>3, Zenon
      <4>2. Awaits(rx, wire, up, x)
        BY <3>2, <4>1, Zenon
      <4>3. IsPrefix(rx \o wire, x) /\ (up => rx \o wire = x)
        BY <2>2, <4>2, AwaitsPrefix
      <4>4. QED
        BY <4>1, <4>3, Zenon
    <3>4. QED
      BY <3>1, <3>3, OfTheState, Zenon
  <2>5. HandedOut
    BY <2>1, Zenon DEF WInv
  <2>6. QED
    BY <2>4, <2>5, Zenon DEF FramesFaithful, Upgraded, HandedOut
<1>2. QED
  BY <1>1, FeedInvariant, PTL

\* The server finds for every ping that read_frame has met one pong with the
\* same payload, in the same order; at most the last is missing, when
\* send_frame failed and the call with it.
THEOREM PongsAreEchoed == FairSpec => []PongsEcho
<1>1. FeedInv => PongsEcho
  <2>1. SUFFICES ASSUME WInv, held # {}
                 PROVE  /\ IsPrefix(Pongs, Pings)
                        /\ Len(Pongs) >= Len(Pings) - IF call = "none" /\ ~ret THEN 1 ELSE 0
    BY Zenon DEF FeedInv, PongsEcho
  <2>2. /\ tx \in Seq(Sendable)
        /\ script \in Seq(ServerFrames) /\ nread \in 0 .. Len(script)
    BY <2>1 DEF WInv, WsTypes
  <2>3. PICK o \in Seq(Text), i \in Seq(Text) : o = Pongs /\ i = Pings
    <3>1. PICK c \in Sendable : TRUE
      BY RequestText, SendableDecoded
    <3>2. PongsOf(tx) \in Seq(Text)
      BY <2>2, <3>1, PongsSend, Zenon
    <3>3. PingsOf(script, nread) \in Seq(Text)
      BY <2>2, PingsStep, Zenon
    <3>4. QED
      BY <3>2, <3>3, OfTheState, Zenon
  <2>4. PICK m \in Seq(Text) : /\ i = Cat(o, m) /\ Len(m) <= 1
                               /\ call # "none" \/ ret => m = <<>>
    BY <2>1, <2>3, OfTheState, Zenon DEF WInv, Echoed
  <2>5. i = o \o m
    BY <2>4, Zenon DEF Cat
  <2>6. IsPrefix(o, i)
    BY <2>5, PrefixConcat
  <2>7. Len(o) \in Nat /\ Len(m) \in Nat /\ Len(i) = Len(o) + Len(m)
    BY <2>5, ConcatProperties, LenProperties
  <2>8. Len(o) >= Len(i) - IF call = "none" /\ ~ret THEN 1 ELSE 0
    <3>1. CASE call = "none" /\ ~ret
      BY <2>4, <2>7, <3>1
    <3>2. CASE ~(call = "none" /\ ~ret)
      <4>1. m = <<>>
        BY <2>4, <3>2
      <4>2. Len(m) = 0
        BY <4>1
      <4>3. QED
        BY <2>7, <3>2, <4>2
    <3>3. QED
      BY <3>1, <3>2
  <2>9. QED
    BY <2>3, <2>6, <2>8, Zenon
<1>2. QED
  BY <1>1, FeedInvariant, PTL

\* Live or replayed, the exchange receives from send_wire the orders of the
\* ticks so far, in order and without a gap up to where it went away, and every
\* price is one the book accepts.
THEOREM EmissionIsExact == FairSpec => []EmissionExact
<1>1. FeedInv => EmissionExact
  <2>1. SUFFICES ASSUME FTypes, Emitted PROVE EmissionExact
    BY Zenon DEF FeedInv
  <2>2. received \in Seq(ValidOrder) /\ orders \in Seq(ValidOrder) /\ ticks \in Seq(Tick)
    BY <2>1 DEF FTypes
  <2>3. PICK rest \in Seq(ValidOrder) : /\ Expected(ticks) = received \o rest
                                        /\ fd = "up" => rest = orders
    BY <2>1, Zenon DEF Emitted, Owes, Cat
  <2>4. received \o rest \in Seq(ValidOrder)
    BY <2>2, ConcatProperties
  <2>5. IsPrefix(received, Expected(ticks))
    BY <2>2, <2>3, <2>4, PrefixConcat
  <2>6. fd = "up" => received \o orders = Expected(ticks)
    BY <2>3, Zenon
  <2>7. \A i \in DOMAIN received : received[i].price \in 1 .. MAX_PRICE
    <3>1. \A i \in DOMAIN received : received[i] \in ValidOrder
      BY <2>2, LenProperties, ElementOfSeq
    <3>2. \A o \in ValidOrder : o.price \in 1 .. MAX_PRICE
      BY DEF ValidOrder
    <3>3. QED
      BY <3>1, <3>2
  <2>8. QED
    BY <2>5, <2>6, <2>7 DEF EmissionExact
<1>2. QED
  BY <1>1, FeedInvariant, PTL

\* A replay that has handled every whole record of a clean capture.
LEMMA ReplayComplete ==
  ASSUME FTypes, IsPrefix(ticks, file), disk = All, Len(ticks) >= disk \div RecUnits
  PROVE  ticks = file
<1>1. /\ ticks \in Seq(Tick) /\ file \in Seq(Tick) /\ Len(ticks) \in Nat
      /\ Len(file) \in Nat /\ RecUnits \in Nat \ {0}
  BY LenProperties, RecAssumption DEF FTypes
<1>2. disk \div RecUnits = Len(file)
  <2>1. Len(file) \in Int /\ 0 \in 0 .. RecUnits - 1
    BY <1>1
  <2>2. (RecUnits * Len(file) + 0) \div RecUnits = Len(file)
    BY <1>1, <2>1, ModUnique
  <2>3. disk = RecUnits * Len(file) + 0
    BY <1>1 DEF All
  <2>4. QED
    BY <2>2, <2>3
<1>3. PICK u \in Seq(Tick) : file = ticks \o u
  BY <1>1, PrefixConcat
<1>4. Len(u) \in Nat /\ Len(file) = Len(ticks) + Len(u)
  BY <1>1, <1>3, ConcatProperties, LenProperties
<1>5. Len(u) = 0
  BY <1>1, <1>2, <1>4
<1>6. u = <<>>
  BY <1>5, EmptySeq
<1>7. QED
  BY <1>1, <1>3, <1>6, ConcatEmptySeq

\* on_object handles every tick of the frames read once and in order, the
\* capture holds the same, and run_replay gives a prefix of it after a crash
\* and all of it after an orderly end.
THEOREM ReplayIsFaithful == FairSpec => []ReplayFaithful
<1>1. FeedInv => ReplayFaithful
  <2>1. SUFFICES ASSUME WInv, Control, Fetched, FTypes, Handled PROVE ReplayFaithful
    BY Zenon DEF FeedInv
  <2>2. /\ script \in Seq(ServerFrames) /\ nread \in 0 .. Len(script)
        /\ ticks \in Seq(Tick) /\ file \in Seq(Tick)
    BY <2>1 DEF WInv, WsTypes, FTypes
  <2>3. PICK s \in Seq(Tick) : s = TicksReadOf(script, nread) /\ s = TicksRead
    BY <2>2, TicksReadStep, TicksOfTheState
  <2>4. IsPrefix(s, s)
    <3>1. s = s \o <<>> /\ <<>> \in Seq(Tick)
      BY ConcatEmptySeq, EmptySeq
    <3>2. QED
      BY <3>1, PrefixConcat
  <2>5. IsPrefix(ticks, s)
    <3>1. CASE Streaming
      <4>1. Pending \in Seq(Tick)
        BY <2>1, <3>1, PendingTicks
      <4>2. s = ticks \o Pending
        BY <2>1, <2>3, <3>1, Zenon DEF Handled, Cat
      <4>3. QED
        BY <2>2, <4>1, <4>2, PrefixConcat, Zenon
    <3>2. CASE ~Streaming /\ proc = "live"
      <4>1. Captured /\ (mpc = "exit" \/ mpc = "crashed")
        BY <2>1, <3>2 DEF Handled, Streaming, Over
      <4>2. QED
        BY <2>3, <2>4, <4>1, Zenon DEF Captured
    <3>3. CASE proc = "replay"
      <4>1. IsPrefix(file, s) /\ IsPrefix(ticks, file)
        BY <2>1, <2>3, <3>3, Zenon DEF Handled, Replays
      <4>2. QED
        BY <2>2, <4>1, PrefixGrows
    <3>4. QED
      BY <2>1, <3>1, <3>2, <3>3 DEF Control
  <2>6. ASSUME proc = "live", opts.capture PROVE file = ticks
    BY <2>1, <2>6 DEF Handled, Captured
  <2>7. ASSUME proc = "live", mpc = "stream" PROVE ticks = s
    <3>1. Streaming /\ ~Fresh
      BY <2>7 DEF Streaming, Over, Fresh
    <3>2. QED
      BY <2>1, <2>3, <2>7, <3>1, NothingPending
  <2>8. ASSUME proc = "replay", mpc = "exit", running, ~Enough, clean,
               ticks # <<>>
        PROVE  ticks = s
    <3>1. Replays
      BY <2>1, <2>8 DEF Handled
    <3>2. disk = All
      BY <2>1, <2>8 DEF Handled
    <3>3. /\ Len(ticks) >= disk \div RecUnits /\ IsPrefix(ticks, file) /\ file = s
      BY <2>3, <2>8, <3>1 DEF Replays
    <3>4. QED
      BY <2>1, <3>2, <3>3, ReplayComplete
  <2>9. QED
    BY <2>3, <2>5, <2>6, <2>7, <2>8, Zenon DEF ReplayFaithful
<1>2. QED
  BY <1>1, FeedInvariant, PTL

\* Squares grow with distance.
LEMMA SquareGrows ==
  ASSUME NEW a \in Nat, NEW b \in Nat, a < b
  PROVE  a * a < b * b
<1>1. PICK k \in Nat : b = a + k /\ k >= 1
  <2>1. b - a \in Nat /\ b = a + (b - a) /\ b - a >= 1
    OBVIOUS
  <2>2. QED
    BY <2>1, Zenon
<1>2. (a + k) * (a + k) = a * a + (a * k + k * a + k * k)
  OBVIOUS
<1>3. a * k \in Nat /\ k * a \in Nat /\ k * k >= 1 /\ k * k \in Nat /\ a * a \in Nat
  BY <1>1
<1>4. a * a < a * a + (a * k + k * a + k * k)
  BY <1>3
<1>5. QED
  BY <1>1, <1>2, <1>4

\* The cent next to an amount is the one nearest to it, and no other is.
LEMMA NearestUnique ==
  ASSUME NEW c \in Cents, NEW d \in Int,
         \A e \in Cents : e # c =>
           \E p, q \in Nat : /\ p < q
                             /\ (5 * c - d) * (5 * c - d) = p * p
                             /\ (5 * e - d) * (5 * e - d) = q * q
  PROVE  c = CHOOSE x \in Cents : Nearest(x, d)
<1> DEFINE sq(e) == (5 * e - d) * (5 * e - d)
<1>1. ASSUME NEW e \in Cents, e # c PROVE sq(c) < sq(e)
  <2>1. PICK a \in Nat, b \in Nat : a < b /\ sq(c) = a * a /\ sq(e) = b * b
    BY <1>1, Zenon
  <2>2. a * a < b * b
    BY <2>1, SquareGrows
  <2>3. QED
    BY <2>1, <2>2, Zenon
<1>2. \A e \in Cents : sq(e) \in Int
  <2>1. SUFFICES ASSUME NEW e \in Cents PROVE sq(e) \in Int
    OBVIOUS
  <2>2. e \in Int
    BY PriceAssumption DEF Cents
  <2>3. QED
    BY <2>2
<1> HIDE DEF sq
<1>3. \A e \in Cents : sq(c) <= sq(e)
  BY <1>1, <1>2
<1>4. \A x \in Cents : x # c => ~(\A e \in Cents : sq(x) <= sq(e))
  BY <1>1, <1>2
<1>5. \A x \in Cents : Nearest(x, d) <=> \A e \in Cents : sq(x) <= sq(e)
  BY Zenon DEF Nearest, sq
<1>6. Nearest(c, d) /\ \A x \in Cents : Nearest(x, d) => x = c
  BY <1>3, <1>4, <1>5, Zenon
<1>7. QED
  BY <1>6

\* A cent that is less than half a cent away.
LEMMA NearestClose ==
  ASSUME NEW c \in Cents, NEW d \in Int, 5 * c - d \in -2 .. 2
  PROVE  c = CHOOSE x \in Cents : Nearest(x, d)
<1>0. Cents \subseteq Int
  BY PriceAssumption DEF Cents
<1>1. PICK a \in Nat : a <= 2 /\ (5 * c - d) * (5 * c - d) = a * a
  <2>1. PICK y \in Int : y = 5 * c - d /\ -2 <= y /\ y <= 2
    BY <1>0
  <2>2. CASE y >= 0
    <3>1. y \in Nat /\ y <= 2 /\ y * y = y * y
      BY <2>1, <2>2
    <3>2. QED
      BY <2>1, <3>1
  <2>3. CASE y <= 0
    <3>1. -y \in Nat /\ -y <= 2 /\ y * y = (-y) * (-y)
      BY <2>1, <2>3
    <3>2. QED
      BY <2>1, <3>1
  <2>4. QED
    BY <2>1, <2>2, <2>3
<1>2. ASSUME NEW e \in Cents, e # c
      PROVE  \E b \in Nat : a < b /\ (5 * e - d) * (5 * e - d) = b * b
  <2>1. PICK x \in Int : x = 5 * e - d /\ (x >= 3 \/ x <= -3)
    <3>1. c \in Int /\ e \in Int /\ (e >= c + 1 \/ e <= c - 1)
      BY <1>0, <1>2
    <3>2. 5 * e - d \in Int /\ (5 * e - d >= 3 \/ 5 * e - d <= -3)
      BY <3>1
    <3>3. QED
      BY <3>2, Zenon
  <2>2. CASE x >= 3
    BY <1>1, <2>1, <2>2
  <2>3. CASE x <= -3
    <3>1. -x \in Nat /\ a < -x /\ x * x = (-x) * (-x)
      BY <1>1, <2>3
    <3>2. QED
      BY <2>1, <3>1
  <2>4. QED
    BY <2>1, <2>2, <2>3
<1>3. \A e \in Cents : e # c =>
        \E p, q \in Nat : /\ p < q
                          /\ (5 * c - d) * (5 * c - d) = p * p
                          /\ (5 * e - d) * (5 * e - d) = q * q
  BY <1>1, <1>2, Zenon
<1>4. QED
  BY <1>3, NearestUnique, Zenon

\* An amount that is not positive is nearest to nothing at all.
LEMMA NearestZero ==
  ASSUME NEW d \in Int, d <= 0
  PROVE  0 = CHOOSE x \in Cents : Nearest(x, d)
<1>1. 0 \in Cents /\ Cents \subseteq Nat
  BY PriceAssumption DEF Cents
<1>2. PICK a \in Nat : a = -d /\ (5 * 0 - d) * (5 * 0 - d) = a * a
  <2>1. -d \in Nat /\ 5 * 0 - d = -d
    OBVIOUS
  <2>2. QED
    BY <2>1
<1>3. ASSUME NEW e \in Cents, e # 0
      PROVE  \E b \in Nat : a < b /\ (5 * e - d) * (5 * e - d) = b * b
  <2>1. 5 * e - d \in Nat /\ a < 5 * e - d
    BY <1>1, <1>2, <1>3
  <2>2. QED
    BY <2>1, Zenon
<1>4. \A e \in Cents : e # 0 =>
        \E p, q \in Nat : /\ p < q
                          /\ (5 * 0 - d) * (5 * 0 - d) = p * p
                          /\ (5 * e - d) * (5 * e - d) = q * q
  BY <1>2, <1>3, Zenon
<1>5. QED
  BY <1>1, <1>4, NearestUnique, Zenon

\* An amount above the range is nearest to the last cent.
LEMMA NearestLast ==
  ASSUME NEW d \in Int, d > 5 * (MAX_PRICE + 1)
  PROVE  MAX_PRICE + 1 = CHOOSE x \in Cents : Nearest(x, d)
<1>1. PICK c \in Cents : c = MAX_PRICE + 1 /\ \A e \in Cents : e <= c
  BY PriceAssumption DEF Cents
<1>2. Cents \subseteq Nat
  BY PriceAssumption DEF Cents
<1>3. PICK a \in Nat : a = d - 5 * c /\ (5 * c - d) * (5 * c - d) = a * a
  <2>1. PICK x \in Int : x = 5 * c - d /\ x <= 0
    BY <1>1, <1>2
  <2>2. -x \in Nat /\ -x = d - 5 * c /\ x * x = (-x) * (-x)
    BY <1>2, <2>1
  <2>3. QED
    BY <2>1, <2>2
<1>4. ASSUME NEW e \in Cents, e # c
      PROVE  \E b \in Nat : a < b /\ (5 * e - d) * (5 * e - d) = b * b
  <2>1. PICK x \in Int : x = 5 * e - d /\ a < -x
    <3>1. c \in Int /\ e \in Int /\ e <= c - 1
      BY <1>1, <1>2, <1>4
    <3>2. 5 * e - d \in Int /\ d - 5 * c < -(5 * e - d)
      BY <3>1
    <3>3. QED
      BY <1>3, <3>2, Zenon
  <2>2. -x \in Nat /\ x * x = (-x) * (-x)
    BY <2>1
  <2>3. QED
    BY <2>1, <2>2
<1>5. \A e \in Cents : e # c =>
        \E p, q \in Nat : /\ p < q
                          /\ (5 * c - d) * (5 * c - d) = p * p
                          /\ (5 * e - d) * (5 * e - d) = q * q
  BY <1>3, <1>4, Zenon
<1>6. c = CHOOSE x \in Cents : Nearest(x, d)
  BY <1>5, NearestUnique, Zenon
<1>7. QED
  BY <1>1, <1>6

\* What becomes the nearest cent below the top price, and nothing from there
\* on, is rounded.
LEMMA OnlyTop ==
  ASSUME NEW d \in Int, NEW c \in Nat, c = NearestCent(d),
         to_cents(d) = IF c < MAX_PRICE THEN c ELSE INVALID_PRICE
  PROVE  Rounds(d)
<1>1. to_cents(d) \in IF c < MAX_PRICE THEN {c}
                      ELSE IF c > MAX_PRICE THEN {INVALID_PRICE}
                      ELSE {MAX_PRICE, INVALID_PRICE}
  BY PriceAssumption
<1>2. QED
  BY <1>1, Zenon DEF Rounds

\* For every price range and every amount, to_cents gives the nearest cent if
\* that lies below the top price and none if it lies above the range; for an
\* amount nearest to the top price it gives that price or none, never another
\* one.
THEOREM CentsAlwaysExact == \A d \in Int : Rounds(d)
<1>1. SUFFICES ASSUME NEW d \in Int PROVE Rounds(d)
  OBVIOUS
<1> DEFINE Decides(c) == /\ c = NearestCent(d)
                         /\ to_cents(d) = IF c < MAX_PRICE THEN c ELSE INVALID_PRICE
<1>2. MAX_PRICE \in Nat /\ MAX_PRICE >= 1
  BY PriceAssumption
<1>3. CASE d <= 0
  <2>1. to_cents(d) = 0 /\ 0 < MAX_PRICE
    BY <1>2, <1>3 DEF to_cents, INVALID_PRICE
  <2>2. 0 = NearestCent(d)
    BY <1>3, NearestZero DEF NearestCent
  <2>3. 0 \in Nat /\ Decides(0)
    BY <2>1, <2>2
  <2>4. QED
    BY <2>3, OnlyTop, Zenon
<1>4. CASE d > 0 /\ d <= 5 * (MAX_PRICE + 1)
  <2>1. PICK c \in Int : /\ c = (2 * d + 5) \div 10
                         /\ 10 * c <= 2 * d + 5 /\ 2 * d + 5 < 10 * c + 10
    BY <1>2
  <2>2. c \in 0 .. MAX_PRICE + 1 /\ 5 * c - d \in -2 .. 2
    BY <1>2, <1>4, <2>1
  <2>3. c = NearestCent(d)
    BY <1>2, <2>2, NearestClose DEF Cents, NearestCent
  <2>4. to_cents(d) = IF 2 * d + 5 > 10 * MAX_PRICE THEN INVALID_PRICE ELSE c
    BY <1>2, <1>4, <2>1 DEF to_cents
  <2>5. 2 * d + 5 > 10 * MAX_PRICE <=> ~(c < MAX_PRICE)
    BY <1>2, <2>1
  <2>6. c \in Nat /\ Decides(c)
    <3>1. c \in Nat
      BY <1>2, <2>2
    <3>2. QED
      BY <2>3, <2>4, <2>5, <3>1, Zenon
  <2>7. QED
    BY <2>6, OnlyTop, Zenon
<1>5. CASE d > 5 * (MAX_PRICE + 1)
  <2>1. /\ to_cents(d) = INVALID_PRICE
        /\ ~(MAX_PRICE + 1 < MAX_PRICE) /\ MAX_PRICE + 1 \in Nat
    BY <1>2, <1>5 DEF to_cents
  <2>2. MAX_PRICE + 1 = NearestCent(d)
    BY <1>5, NearestLast DEF NearestCent
  <2>3. Decides(MAX_PRICE + 1)
    BY <2>1, <2>2, Zenon
  <2>4. QED
    BY <2>1, <2>3, OnlyTop, Zenon
<1>6. QED
  BY <1>2, <1>3, <1>4, <1>5

\* The 400 years a year is in, and the years of it that have passed.
Era(Y) == Y \div 400
YearOfEra(Y) == Y - Era(Y) * 400

\* Days before the first of March of year Y.
YearStart(Y) == Era(Y) * 146097 + YearOfEra(Y) * 365
                  + YearOfEra(Y) \div 4 - YearOfEra(Y) \div 100

\* A year is its era and what is left.
LEMMA EraOf ==
  ASSUME NEW Y \in Int
  PROVE  Era(Y) \in Int /\ YearOfEra(Y) \in 0 .. 399 /\ Y = Era(Y) * 400 + YearOfEra(Y)
BY SMT DEF Era, YearOfEra

\* From one first of March to the next.
LEMMA YearStep ==
  ASSUME NEW Y \in Int
  PROVE  /\ YearStart(Y) \in Int
         /\ YearStart(Y + 1) = YearStart(Y) + IF Leap(Y + 1) THEN 366 ELSE 365
<1>0. Era(Y) \in Int /\ YearOfEra(Y) \in 0 .. 399 /\ Y = Era(Y) * 400 + YearOfEra(Y)
  BY EraOf, Zenon
<1>e. PICK era \in Int : era = Era(Y)
  BY <1>0, Zenon
<1>y. PICK yoe \in 0 .. 399 : yoe = YearOfEra(Y)
  BY <1>0, Zenon
<1>1. era = Era(Y) /\ yoe = YearOfEra(Y) /\ Y = era * 400 + yoe
  BY <1>0, <1>e, <1>y, SMT
<1>2. YearStart(Y) = era * 146097 + yoe * 365 + yoe \div 4 - yoe \div 100
  BY <1>1, SMT DEF YearStart
<1>3. CASE yoe < 399
  <2>1. Y + 1 \in Int /\ yoe + 1 \in 0 .. 399 /\ Y + 1 = era * 400 + (yoe + 1)
    BY <1>1, <1>3
  <2>2. Era(Y + 1) = era /\ YearOfEra(Y + 1) = yoe + 1
    BY <1>1, <2>1, SMT DEF Era, YearOfEra
  <2>3. YearStart(Y + 1) = era * 146097 + (yoe + 1) * 365 + (yoe + 1) \div 4 - (yoe + 1) \div 100
    BY <2>2, SMT DEF YearStart
  <2>4. Leap(Y + 1) <=> (yoe + 1) % 4 = 0 /\ (yoe + 1) % 100 # 0
    BY <1>1, <1>3 DEF Leap
  <2>5. (yoe + 1) \div 4 - yoe \div 4 = IF (yoe + 1) % 4 = 0 THEN 1 ELSE 0
    BY <1>1
  <2>6. (yoe + 1) \div 100 - yoe \div 100 = IF (yoe + 1) % 100 = 0 THEN 1 ELSE 0
    BY <1>1
  <2>7. (yoe + 1) % 100 = 0 => (yoe + 1) % 4 = 0
    <3>1. SUFFICES ASSUME (yoe + 1) % 100 = 0 PROVE (yoe + 1) % 4 = 0
      OBVIOUS
    <3>2. PICK k \in Int : yoe + 1 = 100 * k
      BY <3>1, SMT
    <3>3. PICK j \in Int : yoe + 1 = 4 * j
      BY <3>2, SMT
    <3>4. QED
      BY <3>3, SMT
  <2>8. PICK p \in Int, q \in Int, r \in Int, s \in Int :
           /\ p = yoe \div 4 /\ q = (yoe + 1) \div 4
           /\ r = yoe \div 100 /\ s = (yoe + 1) \div 100
    BY <1>1, SMT
  <2>9. q - p - (s - r) = IF Leap(Y + 1) THEN 1 ELSE 0
    BY <2>4, <2>5, <2>6, <2>7, <2>8, SMT
  <2>10. /\ YearStart(Y) = era * 146097 + yoe * 365 + p - r
         /\ YearStart(Y + 1) = era * 146097 + (yoe + 1) * 365 + q - s
    BY <1>2, <2>3, <2>8, SMT
  <2>11. QED
    BY <2>9, <2>10, SMT
<1>4. CASE yoe = 399
  <2>1. Era(Y + 1) = era + 1 /\ YearOfEra(Y + 1) = 0
    <3>1. Y + 1 \in Int /\ era + 1 \in Int /\ Y + 1 = (era + 1) * 400 + 0 /\ 0 \in 0 .. 399
      BY <1>1, <1>4
    <3>2. QED
      BY <1>1, <3>1, SMT DEF Era, YearOfEra
  <2>2. YearStart(Y + 1) = (era + 1) * 146097 + 0 * 365 + 0 \div 4 - 0 \div 100
    BY <2>1, SMT DEF YearStart
  <2>3. Leap(Y + 1)
    BY <1>1, <1>4 DEF Leap
  <2>4. QED
    BY <1>1, <1>2, <1>4, <2>2, <2>3
<1>5. QED
  BY <1>1, <1>2, <1>3, <1>4

\* Days from the first of March to the first of month m, and the day before a
\* month.
Elapsed(m) == (153 * (IF m > 2 THEN m - 3 ELSE m + 9) + 2) \div 5
MonthStart(y, m) == (IF m <= 2 THEN YearStart(y - 1) ELSE YearStart(y)) + Elapsed(m) - 719469

\* A date is the day before its month and the day of the month.
LEMMA DaysOf ==
  ASSUME NEW y \in Int, NEW m \in 1 .. 12, NEW d \in Int
  PROVE  /\ MonthStart(y, m) \in Int
         /\ days_from_civil(y, m, d) = MonthStart(y, m) + d
<1>0. ASSUME NEW Y \in Int
      PROVE  /\ Era(Y) * 146097 \in Int /\ YearOfEra(Y) * 365 \in Int
             /\ YearOfEra(Y) \div 4 \in Int /\ YearOfEra(Y) \div 100 \in Int
  <2>1. PICK e \in Int, z \in 0 .. 399 : e = Era(Y) /\ z = YearOfEra(Y)
    BY EraOf
  <2>2. e * 146097 \in Int /\ z * 365 \in Int /\ z \div 4 \in Int /\ z \div 100 \in Int
    BY <2>1
  <2>3. QED
    BY <2>1, <2>2, SMT
<1>1. CASE m <= 2 /\ ~(m > 2)
  <2>1. PICK Y \in Int : Y = y - 1
    BY SMT
  <2>2. /\ Era(Y) * 146097 \in Int /\ YearOfEra(Y) * 365 \in Int
        /\ YearOfEra(Y) \div 4 \in Int /\ YearOfEra(Y) \div 100 \in Int
    BY <1>0, SMT
  <2>3. PICK a \in Int, b \in Int, f \in Int, g \in Int :
           /\ a = Era(Y) * 146097 /\ b = YearOfEra(Y) * 365
           /\ f = YearOfEra(Y) \div 4 /\ g = YearOfEra(Y) \div 100
    BY <2>2, SMT
  <2>4. PICK k \in Int : k = Elapsed(m) /\ k = (153 * (m + 9) + 2) \div 5
    BY <1>1, SMT DEF Elapsed
  <2>5. days_from_civil(y, m, d) = a + (b + f - g + (k + d - 1)) - 719468
    BY <1>1, <2>1, <2>3, <2>4, SMT DEF days_from_civil, Era, YearOfEra
  <2>6. YearStart(y - 1) = a + b + f - g
    BY <2>1, <2>3, SMT DEF YearStart
  <2>7. MonthStart(y, m) = a + b + f - g + k - 719469
    BY <1>1, <2>4, <2>6, SMT DEF MonthStart
  <2>8. QED
    BY <2>5, <2>7, SMT
<1>2. CASE ~(m <= 2) /\ m > 2
  <2>1. PICK Y \in Int : Y = y
    BY SMT
  <2>2. /\ Era(Y) * 146097 \in Int /\ YearOfEra(Y) * 365 \in Int
        /\ YearOfEra(Y) \div 4 \in Int /\ YearOfEra(Y) \div 100 \in Int
    BY <1>0, SMT
  <2>3. PICK a \in Int, b \in Int, f \in Int, g \in Int :
           /\ a = Era(Y) * 146097 /\ b = YearOfEra(Y) * 365
           /\ f = YearOfEra(Y) \div 4 /\ g = YearOfEra(Y) \div 100
    BY <2>2, SMT
  <2>4. PICK k \in Int : k = Elapsed(m) /\ k = (153 * (m - 3) + 2) \div 5
    BY <1>2, SMT DEF Elapsed
  <2>5. days_from_civil(y, m, d) = a + (b + f - g + (k + d - 1)) - 719468
    BY <1>2, <2>1, <2>3, <2>4, SMT DEF days_from_civil, Era, YearOfEra
  <2>6. YearStart(y) = a + b + f - g
    BY <2>1, <2>3, SMT DEF YearStart
  <2>7. MonthStart(y, m) = a + b + f - g + k - 719469
    BY <1>2, <2>4, <2>6, SMT DEF MonthStart
  <2>8. QED
    BY <2>5, <2>7, SMT
<1>3. QED
  BY <1>1, <1>2

\* The formula with 153 gives the lengths of the months from March on.
LEMMA ElapsedIs ==
  /\ Elapsed(1) = 306 /\ Elapsed(2) = 337 /\ Elapsed(3) = 0 /\ Elapsed(4) = 31
  /\ Elapsed(5) = 61 /\ Elapsed(6) = 92 /\ Elapsed(7) = 122 /\ Elapsed(8) = 153
  /\ Elapsed(9) = 184 /\ Elapsed(10) = 214 /\ Elapsed(11) = 245 /\ Elapsed(12) = 275
BY SMT DEF Elapsed

\* From one month to the next.
LEMMA MonthStep ==
  ASSUME NEW y \in Int
  PROVE  /\ \A m \in 1 .. 11 :
              /\ MonthLength(y, m) \in Int
              /\ MonthStart(y, m + 1) = MonthStart(y, m) + MonthLength(y, m)
         /\ MonthStart(y + 1, 1) = MonthStart(y, 12) + 31
<1>1. PICK a \in Int, b \in Int :
         /\ a = YearStart(y - 1) /\ b = YearStart(y)
         /\ b = a + IF Leap(y) THEN 366 ELSE 365
  <2>1. (y - 1) + 1 = y /\ y - 1 \in Int
    BY SMT
  <2>2. /\ YearStart(y - 1) \in Int /\ YearStart(y) \in Int
        /\ YearStart((y - 1) + 1)
             = YearStart(y - 1) + IF Leap((y - 1) + 1) THEN 366 ELSE 365
    BY <2>1, YearStep, SMT
  <2>3. QED
    BY <2>1, <2>2, SMT
<1>2. ASSUME NEW m \in 1 .. 11
      PROVE  /\ MonthLength(y, m) \in Int
             /\ MonthStart(y, m + 1) = MonthStart(y, m) + MonthLength(y, m)
  <2>1. m \in {1, 2, 3, 4, 5, 6, 7, 8, 9, 10, 11}
    BY SMT
  <2>2. /\ MonthStart(y, m) = (IF m <= 2 THEN a ELSE b) + Elapsed(m) - 719469
        /\ MonthStart(y, m + 1) = (IF m + 1 <= 2 THEN a ELSE b) + Elapsed(m + 1) - 719469
    BY <1>1, SMT DEF MonthStart
  <2>3. MonthLength(y, m) = IF m = 2 THEN (IF Leap(y) THEN 29 ELSE 28)
                            ELSE IF m \in {4, 6, 9, 11} THEN 30 ELSE 31
    BY SMT DEF MonthLength
  <2>4. QED
    BY <1>1, <2>1, <2>2, <2>3, ElapsedIs, SMT
<1>3. MonthStart(y + 1, 1) = MonthStart(y, 12) + 31
  <2>1. (y + 1) - 1 = y
    BY SMT
  <2>2. MonthStart(y + 1, 1) = b + 306 - 719469 /\ MonthStart(y, 12) = b + 275 - 719469
    <3>1. /\ MonthStart(y + 1, 1) = YearStart((y + 1) - 1) + Elapsed(1) - 719469
          /\ MonthStart(y, 12) = YearStart(y) + Elapsed(12) - 719469
      BY SMT DEF MonthStart
    <3>2. YearStart((y + 1) - 1) = b
      BY <1>1, <2>1, Zenon
    <3>3. QED
      BY <1>1, <3>1, <3>2, ElapsedIs, SMT
  <2>3. QED
    BY <2>2, SMT
<1>4. QED
  BY <1>2, <1>3, SMT

\* For every year, also before the epoch, days_from_civil counts the days one by
\* one: within a month, from the last day of a month to the first of the next,
\* leap years included, and over the turn of the year; and the epoch is day zero.
THEOREM CalendarExact ==
  /\ days_from_civil(1970, 1, 1) = 0
  /\ \A y \in Int :
       /\ \A m \in 1 .. 12 : \A d \in 1 .. MonthLength(y, m) - 1 :
            days_from_civil(y, m, d + 1) = days_from_civil(y, m, d) + 1
       /\ \A m \in 1 .. 11 :
            days_from_civil(y, m + 1, 1) = days_from_civil(y, m, MonthLength(y, m)) + 1
       /\ days_from_civil(y + 1, 1, 1) = days_from_civil(y, 12, 31) + 1
<1>1. days_from_civil(1970, 1, 1) = 0
  BY SMT DEF days_from_civil
<1>2. ASSUME NEW y \in Int, NEW m \in 1 .. 12, NEW d \in 1 .. MonthLength(y, m) - 1
      PROVE  days_from_civil(y, m, d + 1) = days_from_civil(y, m, d) + 1
  <2>1. d \in Int /\ d + 1 \in Int
    BY SMT DEF MonthLength
  <2>2. /\ MonthStart(y, m) \in Int /\ days_from_civil(y, m, d) = MonthStart(y, m) + d
        /\ days_from_civil(y, m, d + 1) = MonthStart(y, m) + (d + 1)
    BY <2>1, DaysOf, Zenon
  <2>3. QED
    BY <2>1, <2>2, SMT
<1>3. ASSUME NEW y \in Int, NEW m \in 1 .. 11
      PROVE  days_from_civil(y, m + 1, 1) = days_from_civil(y, m, MonthLength(y, m)) + 1
  <2>0. m \in 1 .. 12 /\ m + 1 \in 1 .. 12 /\ 1 \in Int
    BY SMT
  <2>1. /\ MonthLength(y, m) \in Int
        /\ MonthStart(y, m + 1) = MonthStart(y, m) + MonthLength(y, m)
    BY MonthStep, Zenon
  <2>2. /\ MonthStart(y, m) \in Int
        /\ days_from_civil(y, m, MonthLength(y, m)) = MonthStart(y, m) + MonthLength(y, m)
        /\ days_from_civil(y, m + 1, 1) = MonthStart(y, m + 1) + 1
    BY <2>0, <2>1, DaysOf, Zenon
  <2>3. QED
    BY <2>1, <2>2, SMT
<1>4. ASSUME NEW y \in Int
      PROVE  days_from_civil(y + 1, 1, 1) = days_from_civil(y, 12, 31) + 1
  <2>1. /\ MonthStart(y, 12) \in Int
        /\ days_from_civil(y + 1, 1, 1) = MonthStart(y + 1, 1) + 1
        /\ days_from_civil(y, 12, 31) = MonthStart(y, 12) + 31
    <3>1. /\ y + 1 \in Int /\ 1 \in 1 .. 12 /\ 12 \in 1 .. 12
          /\ 1 \in Int /\ 31 \in Int
      BY SMT
    <3>2. QED
      BY <3>1, DaysOf, Zenon
  <2>2. MonthStart(y + 1, 1) = MonthStart(y, 12) + 31
    BY MonthStep, Zenon
  <2>3. QED
    BY <2>1, <2>2, SMT
<1>5. \A y \in Int :
        /\ \A m \in 1 .. 12 : \A d \in 1 .. MonthLength(y, m) - 1 :
             days_from_civil(y, m, d + 1) = days_from_civil(y, m, d) + 1
        /\ \A m \in 1 .. 11 :
             days_from_civil(y, m + 1, 1) = days_from_civil(y, m, MonthLength(y, m)) + 1
        /\ days_from_civil(y + 1, 1, 1) = days_from_civil(y, 12, 31) + 1
  BY <1>2, <1>3, <1>4, Zenon
<1>6. QED
  BY <1>1, <1>5, SMT
=============================================================================
