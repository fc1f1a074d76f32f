--------------------------- MODULE PkgParser_proofs ---------------------------
(***************************************************************************)
(* What the run of Session shows of the package parser for a few packages, *)
(* proved for all packages, however they are cut into chunks.              *)
(***************************************************************************)
EXTENDS PkgParser, SequenceTheorems, WellFoundedInduction, TLAPS

-----------------------------------------------------------------------------
(* Numbers and sequences.                                                  *)

\* Induction over a set of numbers: the least number with a property.
LEMMA LeastElement ==
    ASSUME NEW T \in SUBSET Nat, T # {}
    PROVE  \E m \in T : \A k \in T : m <= k
<1>1. PICK m \in T : \A k \in T : <<k, m>> \notin OpToRel(<, Nat)
  BY NatLessThanWellFounded, WFMin
<1>2. ASSUME NEW k \in T
      PROVE  m <= k
  <2>1. ~(k < m)
    BY <1>1 DEF OpToRel
  <2> QED
    BY <2>1
<1> QED
  BY <1>2

\* Division with a remainder.
LEMMA Division == \A b, n \in Int : b > 0 => n = b * (n \div b) + (n % b)
  OBVIOUS

\* A digit of n is what its higher digits leave over.
LEMMA DigitOf ==
    ASSUME NEW b \in Nat \ {0}, NEW c \in Nat \ {0}, NEW n \in Nat
    PROVE  n \div c = b * (n \div (b * c)) + ((n \div c) % b)
<1> DEFINE q == n \div c
           r == n \div (b * c)
<1>1. b \in Int /\ b > 0 /\ r = q \div b /\ q \in Int
  OBVIOUS
<1> HIDE DEF q, r
<1>2. q = b * (q \div b) + (q % b)
  BY Division, <1>1, Zenon
<1>3. q = b * r + (q % b)
  BY <1>1, <1>2, Zenon
<1> QED
  BY <1>3, Zenon DEF q, r

\* A stream is cut in one way only at a given place.
LEMMA SameCut ==
    ASSUME NEW S, NEW s \in Seq(S), NEW t \in Seq(S), NEW u \in Seq(S), NEW v \in Seq(S),
           s \o t = u \o v, Len(s) = Len(u)
    PROVE  s = u /\ t = v
<1>1. \A i \in 1..Len(s) : s[i] = u[i]
  <2> TAKE i \in 1..Len(s)
  <2>1. Len(s) \in Nat /\ Len(t) \in Nat /\ Len(v) \in Nat
    BY LenProperties
  <2>2. i \in 1..(Len(s) + Len(t)) /\ i \in 1..(Len(u) + Len(v)) /\ i <= Len(s)
    BY <2>1
  <2>3. (s \o t)[i] = s[i]
    BY <2>2, ConcatProperties
  <2>4. (u \o v)[i] = u[i]
    BY <2>2, ConcatProperties
  <2> QED
    BY <2>3, <2>4
<1>2. s = u
  BY <1>1, SeqEqual
<1> QED
  BY <1>2, ConcatSimplifications

-----------------------------------------------------------------------------
(* The length field.                                                       *)

\* The length field has its bytes.
LEMMA FieldType ==
    ASSUME NEW n \in Nat
    PROVE  LenField(n) \in Seq(Byte) /\ Len(LenField(n)) = LenBytes
<1>1. LenBytes \in Nat /\ Base \in Nat \ {0}
  BY ParserAssumption DEF KICK
<1>2. ASSUME NEW i \in 1..LenBytes
      PROVE  (n \div Base ^ (LenBytes - i)) % Base \in Byte
  <2>1. LenBytes - i \in 0..LenBytes
    BY <1>1
  <2>2. Base ^ (LenBytes - i) \in Nat \ {0}
    BY <2>1, PowerOfBase
  <2>3. \A p \in Nat \ {0} : n \div p \in Nat
    OBVIOUS
  <2>4. \A q \in Nat : q % Base \in 0..(Base - 1)
    BY <1>1
  <2> QED
    BY <2>2, <2>3, <2>4 DEF Byte
<1>3. LenField(n) \in [1..LenBytes -> Byte]
  BY <1>2 DEF LenField
<1> QED
  BY <1>1, <1>3

\* What PkgLen's recursive function is, for a head h.
Reads(h, value) ==
    value = [i \in 0..LenBytes |-> IF i = 0 THEN 0 ELSE value[i - 1] * Base + h[i + 1]]

\* There is at most one such function.
LEMMA ReadsOnce ==
    ASSUME NEW h, NEW v, NEW w, Reads(h, v), Reads(h, w)
    PROVE  v = w
<1> DEFINE T == {i \in 0..LenBytes : v[i] # w[i]}
<1>1. LenBytes \in Nat
  BY ParserAssumption
<1>2. T = {}
  <2> SUFFICES ASSUME T # {}
               PROVE  FALSE
    OBVIOUS
  <2>1. T \in SUBSET Nat
    BY <1>1
  <2>2. PICK m \in T : \A k \in T : m <= k
    BY <2>1, LeastElement
  <2>3. m # 0
    BY <1>1, <2>2 DEF Reads
  <2>4. m - 1 \in 0..LenBytes /\ m - 1 \notin T
    BY <1>1, <2>2, <2>3
  <2>5. v[m - 1] = w[m - 1]
    BY <2>4
  <2>6. v[m] = v[m - 1] * Base + h[m + 1] /\ w[m] = w[m - 1] * Base + h[m + 1]
    BY <2>2, <2>3 DEF Reads
  <2> QED
    BY <2>2, <2>5, <2>6
<1>3. \A i \in 0..LenBytes : v[i] = w[i]
  BY <1>2
<1> QED
  BY <1>3 DEF Reads

\* pc__parse_pkg_head reads the length that pc_pkg_encode has written.
LEMMA LengthRead ==
    ASSUME NEW t \in Byte, NEW n \in 0..(Base ^ LenBytes - 1)
    PROVE  PkgLen(<<t>> \o LenField(n)) = n
<1> DEFINE h == <<t>> \o LenField(n)
           v == [i \in 0..LenBytes |-> n \div Base ^ (LenBytes - i)]
<1>1. LenBytes \in Nat \ {0} /\ Base \in Nat \ {0} /\ Base ^ LenBytes \in Nat \ {0}
  BY ParserAssumption, PowerOfBase DEF KICK
<1>2. n \in Nat
  BY <1>1
<1>3. ASSUME NEW i \in 1..LenBytes
      PROVE  h[i + 1] = (n \div Base ^ (LenBytes - i)) % Base
  <2>1. LenField(n) \in Seq(Byte) /\ Len(LenField(n)) = LenBytes
    BY <1>2, FieldType
  <2>2. <<t>> \in Seq(Byte) /\ Len(<<t>>) = 1
    OBVIOUS
  <2>3. i + 1 \in 1..(1 + LenBytes) /\ ~(i + 1 <= 1) /\ (i + 1) - 1 = i
    BY <1>1
  <2>4. h[i + 1] = LenField(n)[(i + 1) - 1]
    BY <2>1, <2>2, <2>3, ConcatProperties
  <2> QED
    BY <2>3, <2>4 DEF LenField
<1>4. v[0] = 0
  <2>1. v[0] = n \div Base ^ LenBytes
    BY <1>1
  <2>2. \A b \in Nat \ {0} : n < b => n \div b = 0
    BY <1>2
  <2> QED
    BY <1>1, <2>1, <2>2
<1>5. ASSUME NEW i \in 1..LenBytes
      PROVE  v[i] = v[i - 1] * Base + h[i + 1]
  <2> DEFINE k == LenBytes - i
  <2>1. k \in 0..(LenBytes - 1) /\ k \in 0..LenBytes /\ LenBytes - (i - 1) = k + 1
        /\ i \in 0..LenBytes /\ i - 1 \in 0..LenBytes
    BY <1>1
  <2>2. v[i] = n \div Base ^ k /\ v[i - 1] = n \div Base ^ (k + 1)
    BY <2>1
  <2>3. h[i + 1] = (n \div Base ^ k) % Base
    BY <1>3
  <2> HIDE DEF k, h, v
  <2>4. Base ^ (k + 1) = Base * Base ^ k /\ Base ^ k \in Nat \ {0}
    BY <2>1, PowerOfBase
  <2>5. n \div Base ^ k = Base * (n \div (Base * Base ^ k)) + ((n \div Base ^ k) % Base)
    BY <1>1, <1>2, <2>4, DigitOf
  <2>6. v[i] = Base * v[i - 1] + h[i + 1]
    BY <2>2, <2>3, <2>4, <2>5, Zenon
  <2>7. v[i - 1] \in Int
    <3>1. \A p \in Nat \ {0} : n \div p \in Int
      BY <1>2
    <3>2. Base * Base ^ k \in Nat \ {0}
      BY <1>1, <2>1, <2>4, PowerOfBase
    <3> QED
      BY <2>2, <2>4, <3>1, <3>2
  <2>8. \A x, y \in Int : x * y = y * x
    OBVIOUS
  <2>9. Base * v[i - 1] = v[i - 1] * Base
    BY <1>1, <2>7, <2>8
  <2> QED
    BY <2>6, <2>9, Zenon
<1>6. Reads(h, v)
  <2> HIDE DEF h, v
  <2>1. \A i \in 0..LenBytes : v[i] = IF i = 0 THEN 0 ELSE v[i - 1] * Base + h[i + 1]
    BY <1>1, <1>4, <1>5
  <2> QED
    BY <2>1 DEF Reads, v
<1> DEFINE w == CHOOSE value : Reads(h, value)
<1> HIDE DEF h, v
<1>7. Reads(h, w)
  BY <1>6, Zenon
<1>8. w = v
  BY <1>6, <1>7, ReadsOnce
<1>9. PkgLen(h) = w[LenBytes]
  BY Zenon DEF PkgLen, Reads
<1>10. v[LenBytes] = n
  BY <1>1, <1>2, PowerOfBase DEF v
<1> QED
  BY <1>8, <1>9, <1>10 DEF h

\* A package's bytes: a head and a body.
LEMMA EncodeType ==
    ASSUME NEW p \in Packages
    PROVE  /\ <<p.type>> \o LenField(Len(p.body)) \in Seq(Byte)
           /\ Len(<<p.type>> \o LenField(Len(p.body))) = HeadBytes
           /\ p.type \in Byte /\ p.body \in Seq(Byte)
           /\ Len(p.body) \in 0..(Base ^ LenBytes - 1)
           /\ p = [type |-> p.type, body |-> p.body]
           /\ Encode(p) \in Seq(Byte)
           /\ Encode(p) = (<<p.type>> \o LenField(Len(p.body))) \o p.body
<1>1. p \in [type : ServerType, body : Seq(Byte)] /\ Len(p.body) < Base ^ LenBytes
  BY ParserAssumption
<1>2. p.body \in Seq(Byte) /\ p.type \in ServerType /\ Len(p.body) \in Nat
      /\ p = [type |-> p.type, body |-> p.body]
  BY <1>1
<1>3. p.type \in Byte
  BY <1>2, ParserAssumption DEF ServerType, Byte, HANDSHAKE, HEARTBEAT, DATA, KICK
<1>4. LenField(Len(p.body)) \in Seq(Byte) /\ Len(LenField(Len(p.body))) = LenBytes
  BY <1>2, FieldType
<1>5. <<p.type>> \in Seq(Byte) /\ Len(<<p.type>>) = 1
  BY <1>3
<1>6. /\ <<p.type>> \o LenField(Len(p.body)) \in Seq(Byte)
      /\ Len(<<p.type>> \o LenField(Len(p.body))) = 1 + LenBytes
  BY <1>4, <1>5, ConcatProperties
<1>7. Len(p.body) \in 0..(Base ^ LenBytes - 1)
  <2>1. Base ^ LenBytes \in Nat \ {0}
    BY ParserAssumption, PowerOfBase
  <2> QED
    BY <1>1, <1>2, <2>1
<1>8. /\ Encode(p) = (<<p.type>> \o LenField(Len(p.body))) \o p.body
      /\ Encode(p) \in Seq(Byte)
  BY <1>2, <1>6, ConcatProperties DEF Encode
<1> QED
  BY <1>2, <1>3, <1>6, <1>7, <1>8 DEF HeadBytes

-----------------------------------------------------------------------------
(* The stream of a connection.                                             *)

\* The bytes of the connection that have not been made into packages yet.
Unread == (head \o body) \o (chunk \o wire)

\* tails[i] is what follows the first i - 1 packages of s.
IsTails(tails, s) ==
    /\ tails \in [1..(Len(s) + 1) -> Seq(Byte)]
    /\ tails[Len(s) + 1] = <<>>
    /\ \A i \in 1..Len(s) : tails[i] = Encode(s[i]) \o tails[i + 1]

\* What is unread is the packages sent and not delivered.
Stream == \E tails : IsTails(tails, sent) /\ Unread = tails[Len(delivered) + 1]

\* A parser that has been reset, with nothing to parse.
Reset == state = "HEAD" /\ head = <<>> /\ body = <<>> /\ size = 0 /\ chunk = <<>>

\* Where the parser is in a package.
InPackage ==
    /\ state = "HEAD" => body = <<>> /\ size = 0 /\ Len(head) < HeadBytes
    /\ state = "BODY" => Len(head) = HeadBytes /\ size = PkgLen(head)

\* Nothing follows a kick.
KickLast == \A i \in 1..Len(sent) : sent[i].type = KICK => i = Len(sent)

IInv ==
    /\ TypeOK
    /\ FramesMatch
    /\ delivered \in Seq(Packages)
    /\ InPackage
    /\ KickLast
    /\ link = "up" => Stream
    /\ link = "down" => Reset /\ wire = <<>>

-----------------------------------------------------------------------------
(* Cutting the chunk, and taking the next package off the stream.          *)

\* Sequences of bytes put together,
LEMMA Assoc == \A s, t, u \in Seq(Byte) : (s \o t) \o u = s \o (t \o u)
  BY ConcatAssociative

\* their lengths,
LEMMA Join == \A s, t \in Seq(Byte) : s \o t \in Seq(Byte) /\ Len(s \o t) = Len(s) + Len(t)
  BY ConcatProperties

\* the empty one,
LEMMA JoinEmpty == \A s \in Seq(Byte) : s \o <<>> = s /\ <<>> \o s = s /\ <<>> \in Seq(Byte)
  BY ConcatEmptySeq, EmptySeq

\* and one cut in two.
LEMMA Cut ==
    ASSUME NEW s \in Seq(Byte), NEW n \in 0..Len(s)
    PROVE  /\ SubSeq(s, 1, n) \in Seq(Byte) /\ Len(SubSeq(s, 1, n)) = n
           /\ SubSeq(s, n + 1, Len(s)) \in Seq(Byte)
           /\ Len(SubSeq(s, n + 1, Len(s))) = Len(s) - n
           /\ SubSeq(s, 1, n) \o SubSeq(s, n + 1, Len(s)) = s
<1>1. Len(s) \in Nat /\ n \in Nat /\ n <= Len(s)
  BY LenProperties
<1>2. \A i \in 1..Len(s) : s[i] \in Byte
  BY ElementOfSeq
<1>3. SubSeq(s, 1, n) \in Seq(Byte) /\ Len(SubSeq(s, 1, n)) = n
  <2>1. \A i \in 1..n : s[i] \in Byte
    BY <1>1, <1>2
  <2>2. /\ SubSeq(s, 1, n) \in Seq(Byte)
        /\ Len(SubSeq(s, 1, n)) = IF 1 <= n THEN n - 1 + 1 ELSE 0
    BY <1>1, <2>1, SubSeqProperties
  <2> QED
    BY <1>1, <2>2
<1>4. /\ SubSeq(s, n + 1, Len(s)) \in Seq(Byte)
      /\ Len(SubSeq(s, n + 1, Len(s))) = Len(s) - n
  <2>1. \A i \in (n + 1)..Len(s) : s[i] \in Byte
    BY <1>1, <1>2
  <2>2. n + 1 \in Int /\ Len(s) \in Int
    BY <1>1
  <2>3. /\ SubSeq(s, n + 1, Len(s)) \in Seq(Byte)
        /\ Len(SubSeq(s, n + 1, Len(s))) =
             IF n + 1 <= Len(s) THEN Len(s) - (n + 1) + 1 ELSE 0
    BY <2>1, <2>2, SubSeqProperties
  <2> QED
    BY <1>1, <2>3
<1>5. SubSeq(s, 1, n) \o SubSeq(s, n + 1, Len(s)) = SubSeq(s, 1, Len(s))
  <2>1. 1 \in 1..(Len(s) + 1) /\ n \in (1 - 1)..Len(s) /\ Len(s) \in n..Len(s)
    BY <1>1
  <2> QED
    BY <2>1, ConcatAdjacentSubSeq
<1>6. SubSeq(s, 1, Len(s)) = s
  BY SubSeqFull
<1> QED
  BY <1>3, <1>4, <1>5, <1>6

\* The parser takes what it needs, or all there is.
LEMMA TakenRange ==
    ASSUME chunk \in Seq(Byte), NEW need \in Nat
    PROVE  /\ Taken(need) \in 0..Len(chunk) /\ Taken(need) \in Nat
           /\ Taken(need) <= need
           /\ Taken(need) = need \/ Taken(need) = Len(chunk)
<1>1. Len(chunk) \in Nat
  BY LenProperties
<1> QED
  BY <1>1 DEF Taken

\* Where the bytes taken go.
LEMMA AssocBody ==
    ASSUME head \in Seq(Byte), body \in Seq(Byte), NEW f \in Seq(Byte), NEW t \in Seq(Byte)
    PROVE  /\ (head \o body) \o t = head \o (body \o t)
           /\ (body \o f) \o t = body \o (f \o t)
           /\ (head \o f) \o t = head \o (f \o t)
<1>1. (head \o body) \o t = head \o (body \o t)
  BY Assoc, ZenonT(60)
<1>2. (body \o f) \o t = body \o (f \o t)
  BY Assoc, ZenonT(60)
<1>3. (head \o f) \o t = head \o (f \o t)
  BY Assoc, ZenonT(60)
<1> QED
  BY <1>1, <1>2, <1>3

\* What pc__parse_pkg_head and pc__parse_pkg_body take of the chunk.
LEMMA ChunkCut ==
    ASSUME chunk \in Seq(Byte), NEW part \in Seq(Byte), NEW full \in Nat, Len(part) <= full
    PROVE  \E f, r, h \in Seq(Byte) :
             /\ f = First(Taken(full - Len(part)))
             /\ r = Rest(Taken(full - Len(part)))
             /\ h = part \o f
             /\ f \o r = chunk
             /\ Len(h) <= full
             /\ Len(r) <= Len(chunk)
<1> DEFINE n == Taken(full - Len(part))
<1>1. Len(part) \in Nat /\ Len(chunk) \in Nat
  BY LenProperties
<1>2. full - Len(part) \in Nat
  BY <1>1
<1>3. n \in 0..Len(chunk) /\ n \in Nat /\ n <= full - Len(part)
  BY <1>2, TakenRange
<1> HIDE DEF n
<1>4. /\ First(n) \in Seq(Byte) /\ Len(First(n)) = n
      /\ Rest(n) \in Seq(Byte) /\ Len(Rest(n)) = Len(chunk) - n
      /\ First(n) \o Rest(n) = chunk
  BY <1>3, Cut DEF First, Rest
<1>5. ASSUME NEW f \in Seq(Byte), Len(f) = n
      PROVE  part \o f \in Seq(Byte) /\ Len(part \o f) <= full
  <2>1. part \o f \in Seq(Byte) /\ Len(part \o f) = Len(part) + n
    BY <1>5, Join
  <2>2. Len(part) + n <= full
    BY <1>1, <1>3
  <2> QED
    BY <2>1, <2>2
<1>6. part \o First(n) \in Seq(Byte) /\ Len(part \o First(n)) <= full
  BY <1>4, <1>5
<1>7. Len(chunk) - n <= Len(chunk)
  BY <1>1, <1>3
<1> QED
  BY <1>4, <1>6, <1>7 DEF n

\* A complete head is that of the first package that has not been delivered.
LEMMA NextPackage ==
    ASSUME IInv, link = "up",
           NEW h \in Seq(Byte), NEW rest \in Seq(Byte),
           Unread = h \o rest, Len(h) = HeadBytes
    PROVE  /\ Len(delivered) < Len(sent)
           /\ \E q \in Packages :
                /\ q = sent[Len(delivered) + 1]
                /\ h[1] = q.type
                /\ PkgLen(h) = Len(q.body)
                /\ \E tails : /\ IsTails(tails, sent)
                              /\ rest = q.body \o tails[Len(delivered) + 2]
<1> DEFINE k == Len(delivered)
           q == sent[k + 1]
<1>1. PICK tails : IsTails(tails, sent) /\ Unread = tails[k + 1]
  BY DEF IInv, Stream
<1>2. k \in Nat /\ Len(sent) \in Nat /\ k <= Len(sent) /\ sent \in Seq(Packages)
  BY DEF IInv, FramesMatch, TypeOK
<1>3. k < Len(sent)
  <2> SUFFICES ASSUME k = Len(sent)
               PROVE  FALSE
    BY <1>2
  <2>1. h \o rest = <<>>
    BY <1>1 DEF IsTails
  <2>2. h = <<>>
    BY <2>1, ConcatSimplifications
  <2> QED
    BY <2>2, ParserAssumption DEF HeadBytes
<1>4. k + 1 \in 1..Len(sent) /\ k + 2 \in 1..(Len(sent) + 1) /\ (k + 1) + 1 = k + 2
  BY <1>2, <1>3
<1>5. q \in Packages
  BY <1>2, <1>4, ElementOfSeq
<1>6. Unread = Encode(q) \o tails[k + 2] /\ tails[k + 2] \in Seq(Byte)
  BY <1>1, <1>4 DEF IsTails
<1> DEFINE f == <<q.type>> \o LenField(Len(q.body))
<1> HIDE DEF q, k
<1>7. /\ f \in Seq(Byte) /\ Len(f) = HeadBytes /\ q.body \in Seq(Byte)
      /\ q.type \in Byte /\ Len(q.body) \in 0..(Base ^ LenBytes - 1)
      /\ Encode(q) = f \o q.body
  BY <1>5, EncodeType
<1>8. h \o rest = f \o (q.body \o tails[k + 2]) /\ q.body \o tails[k + 2] \in Seq(Byte)
  <2> HIDE DEF f
  <2> DEFINE t == tails[k + 2]
  <2>1. t \in Seq(Byte) /\ f \in Seq(Byte) /\ q.body \in Seq(Byte)
    BY <1>6, <1>7
  <2>2. h \o rest = (f \o q.body) \o t
    BY <1>6, <1>7
  <2> HIDE DEF t
  <2>3. (f \o q.body) \o t = f \o (q.body \o t)
    BY <2>1, Assoc, ZenonT(60)
  <2>4. q.body \o t \in Seq(Byte)
    BY <2>1, Join
  <2> QED
    BY <2>2, <2>3, <2>4 DEF t
<1>9. h = f /\ rest = q.body \o tails[k + 2]
  <2> DEFINE u == q.body \o tails[k + 2]
  <2>1. h \o rest = f \o u /\ u \in Seq(Byte) /\ f \in Seq(Byte) /\ Len(h) = Len(f)
    BY <1>7, <1>8
  <2> HIDE DEF f, u
  <2>2. h = f /\ rest = u
    BY <2>1, SameCut
  <2> QED
    BY <2>2 DEF u
<1>10. h[1] = q.type
  <2>1. Len(q.body) \in Nat
    BY <1>7
  <2>2. LenField(Len(q.body)) \in Seq(Byte)
    BY <2>1, FieldType
  <2>3. <<q.type>> \in Seq(Byte) /\ Len(<<q.type>>) = 1 /\ <<q.type>>[1] = q.type
    BY <1>7
  <2>4. 1 \in 1..(Len(<<q.type>>) + Len(LenField(Len(q.body)))) /\ 1 <= Len(<<q.type>>)
    BY <2>2, <2>3, LenProperties
  <2>5. f[1] = <<q.type>>[1]
    BY <2>2, <2>3, <2>4, ConcatProperties
  <2> QED
    BY <1>9, <2>3, <2>5
<1>11. PkgLen(h) = Len(q.body)
  BY <1>7, <1>9, LengthRead
<1> QED
  BY <1>1, <1>3, <1>5, <1>9, <1>10, <1>11 DEF q, k

-----------------------------------------------------------------------------
(* IInv is inductive.                                                      *)

\* The invariant holds at first,
LEMMA InitIInv == Init => IInv
<1> SUFFICES ASSUME Init
             PROVE  IInv
  OBVIOUS
<1>1. /\ state = "HEAD" /\ head = <<>> /\ body = <<>> /\ size = 0 /\ chunk = <<>>
      /\ wire = <<>> /\ sent = <<>> /\ delivered = <<>> /\ link = "down" /\ conns = 0
  BY DEF Init
<1>2. /\ LenBytes \in Nat \ {0} /\ ReadSize \in Nat /\ MaxSent \in Nat /\ MaxConns \in Nat
      /\ Base ^ LenBytes \in Nat \ {0}
  BY ParserAssumption, PowerOfBase
<1>3. \A S : <<>> \in Seq(S) /\ Len(<<>>) = 0
  BY EmptySeq
<1>4. TypeOK
  BY <1>1, <1>2, <1>3 DEF TypeOK, HeadBytes
<1>5. FramesMatch
  BY <1>1, <1>3, SubSeqEmpty DEF FramesMatch
<1>6. InPackage /\ KickLast /\ Reset /\ delivered \in Seq(Packages)
  BY <1>1, <1>2, <1>3 DEF InPackage, KickLast, Reset, HeadBytes
<1> QED
  BY <1>1, <1>4, <1>5, <1>6 DEF IInv

\* A new connection begins with an empty stream.
LEMMA ConnectStep ==
    ASSUME IInv, Connect
    PROVE  IInv'
<1>1. /\ link = "down" /\ Reset /\ wire = <<>> /\ TypeOK /\ InPackage
      /\ link' = "up" /\ conns' = conns + 1 /\ conns < MaxConns
      /\ sent' = <<>> /\ delivered' = <<>>
      /\ UNCHANGED <<parser, chunk, wire>>
  BY DEF IInv, Connect
<1>2. \A S : <<>> \in Seq(S) /\ Len(<<>>) = 0
  BY EmptySeq
<1>3. TypeOK'
  BY <1>1, <1>2, ParserAssumption DEF TypeOK, parser
<1>4. FramesMatch'
  BY <1>1, <1>2, SubSeqEmpty DEF FramesMatch
<1>5. InPackage' /\ KickLast' /\ (delivered \in Seq(Packages))'
  BY <1>1, <1>2 DEF InPackage, KickLast, parser
<1>6. Stream'
  <2> DEFINE tails == [i \in 1..1 |-> <<>>]
  <2>1. IsTails(tails, sent')
    BY <1>1, <1>2 DEF IsTails
  <2>2. Unread' = <<>>
    BY <1>1, JoinEmpty DEF Unread, Reset, parser
  <2>3. Unread' = tails[Len(delivered') + 1]
    BY <1>1, <1>2, <2>2
  <2> QED
    BY <2>1, <2>3 DEF Stream
<1> QED
  BY <1>1, <1>3, <1>4, <1>5, <1>6 DEF IInv

\* A connection that ends leaves nothing to parse.
LEMMA LostStep ==
    ASSUME IInv, Lost
    PROVE  IInv'
<1>1. /\ TypeOK /\ FramesMatch /\ KickLast /\ delivered \in Seq(Packages)
      /\ link' = "down" /\ wire' = <<>> /\ ParserReset
      /\ UNCHANGED <<chunk, conns, sent, delivered>>
  BY DEF IInv, Lost, Closed
<1>2. \A S : <<>> \in Seq(S) /\ Len(<<>>) = 0
  BY EmptySeq
<1>3. LenBytes \in Nat \ {0} /\ Base ^ LenBytes \in Nat \ {0}
  BY ParserAssumption, PowerOfBase
<1>4. chunk = <<>>
  BY DEF Lost, Idle
<1>5. TypeOK'
  BY <1>1, <1>2, <1>3 DEF TypeOK, ParserReset, HeadBytes
<1>6. Reset' /\ InPackage'
  BY <1>1, <1>2, <1>3, <1>4 DEF Reset, InPackage, ParserReset, HeadBytes
<1>7. FramesMatch' /\ KickLast' /\ (delivered \in Seq(Packages))'
  BY <1>1 DEF FramesMatch, KickLast
<1> QED
  BY <1>1, <1>5, <1>6, <1>7 DEF IInv

\* The stream grows at its end.
LEMMA SendStep ==
    ASSUME IInv, NEW p \in Packages, Send(p)
    PROVE  IInv'
<1>1. /\ TypeOK /\ FramesMatch /\ KickLast /\ delivered \in Seq(Packages) /\ InPackage
      /\ Stream /\ link = "up"
      /\ Len(sent) < MaxSent
      /\ \A i \in DOMAIN sent : sent[i].type # KICK
      /\ sent' = Append(sent, p)
      /\ wire' = wire \o Encode(p)
      /\ UNCHANGED <<parser, chunk, link, conns, delivered>>
  BY DEF IInv, Send
<1>2. /\ sent \in Seq(Packages) /\ Len(sent) \in Nat /\ Len(delivered) \in Nat
      /\ Len(delivered) <= Len(sent)
  BY <1>1 DEF TypeOK, FramesMatch
<1>3. /\ sent' \in Seq(Packages) /\ Len(sent') = Len(sent) + 1
      /\ \A i \in 1..Len(sent) : sent'[i] = sent[i]
      /\ sent'[Len(sent) + 1] = p
  BY <1>1, <1>2, AppendProperties
<1> DEFINE e == Encode(p)
<1>4. e \in Seq(Byte) /\ wire' = wire \o e
  BY <1>1, EncodeType
<1> HIDE DEF e
<1>5. TypeOK'
  <2>1. wire' \in Seq(Byte)
    BY <1>1, <1>4, Join DEF TypeOK
  <2>2. Len(sent') <= MaxSent
    BY <1>1, <1>2, <1>3, ParserAssumption
  <2> QED
    BY <1>1, <1>3, <2>1, <2>2 DEF TypeOK, parser
<1>6. FramesMatch'
  <2>1. SubSeq(sent', 1, Len(delivered)) = SubSeq(sent, 1, Len(delivered))
    <3>1. CASE Len(delivered) = 0
      BY <3>1, SubSeqEmpty
    <3>2. CASE Len(delivered) # 0
      <4>1. 1 \in 1..Len(sent) /\ Len(delivered) \in 1..Len(sent)
        BY <1>2, <3>2
      <4>2. sent' = sent \o <<p>> /\ <<p>> \in Seq(Packages)
        BY <1>1, <1>2, AppendIsConcat
      <4> QED
        BY <1>2, <4>1, <4>2, SubSeqOfConcat1
    <3> QED
      BY <3>1, <3>2
  <2> QED
    BY <1>1, <1>2, <1>3, <2>1 DEF FramesMatch
<1>7. KickLast'
  <2> SUFFICES ASSUME NEW i \in 1..Len(sent'), sent'[i].type = KICK
               PROVE  i = Len(sent')
    BY DEF KickLast
  <2>1. i \notin 1..Len(sent)
    BY <1>1, <1>2, <1>3
  <2> QED
    BY <1>2, <1>3, <2>1
<1>8. InPackage' /\ (delivered \in Seq(Packages))'
  BY <1>1 DEF InPackage, parser
<1>9. Stream'
  <2>1. PICK tails : IsTails(tails, sent) /\ Unread = tails[Len(delivered) + 1]
    BY <1>1 DEF Stream
  <2> DEFINE n == Len(sent)
             more == [i \in 1..(n + 2) |-> IF i = n + 2 THEN <<>> ELSE tails[i] \o e]
  <2>2. \A i \in 1..(n + 1) : tails[i] \in Seq(Byte) /\ more[i] = tails[i] \o e
    BY <1>2, <2>1, SMTT(30) DEF IsTails
  <2>3. more \in [1..(Len(sent') + 1) -> Seq(Byte)]
    <3>1. \A i \in 1..(n + 1) : tails[i] \o e \in Seq(Byte)
      BY <1>4, <2>2, Join
    <3>2. (n + 1) + 1 = n + 2 /\ \A i \in 1..(n + 2) : i = n + 2 \/ i \in 1..(n + 1)
      BY <1>2
    <3>3. <<>> \in Seq(Byte)
      BY EmptySeq
    <3>4. \A i \in 1..(n + 2) : more[i] \in Seq(Byte)
      BY <3>1, <3>2, <3>3
    <3>5. Len(sent') + 1 = n + 2
      BY <1>2, <1>3
    <3> QED
      BY <3>4, <3>5
  <2>4. more[n + 2] = <<>>
    BY <1>2
  <2>5. \A i \in 1..(n + 1) : more[i] = Encode(sent'[i]) \o more[i + 1]
    <3> TAKE i \in 1..(n + 1)
    <3>1. CASE i = n + 1
      <4>1. tails[n + 1] = <<>> /\ (n + 1) + 1 = n + 2
        BY <1>2, <2>1 DEF IsTails
      <4>2. more[i] = <<>> \o e /\ more[i + 1] = <<>>
        <5>1. more[i] = tails[i] \o e
          BY <2>2
        <5> HIDE DEF more, n
        <5> QED
          BY <2>4, <3>1, <4>1, <5>1
      <4>3. Encode(sent'[i]) = e
        BY <1>3, <3>1 DEF e
      <4> QED
        BY <1>4, <4>2, <4>3, JoinEmpty
    <3>2. CASE i # n + 1
      <4>1. i \in 1..n /\ i + 1 \in 1..(n + 1)
        BY <1>2, <3>2
      <4>2. tails[i] = Encode(sent[i]) \o tails[i + 1] /\ sent'[i] = sent[i]
        BY <1>3, <2>1, <4>1 DEF IsTails
      <4>3. sent[i] \in Packages
        BY <1>2, <4>1, ElementOfSeq
      <4>4. Encode(sent[i]) \in Seq(Byte)
        BY <4>3, EncodeType
      <4>5. tails[i + 1] \in Seq(Byte) /\ more[i + 1] = tails[i + 1] \o e
            /\ more[i] = tails[i] \o e
        BY <2>2, <4>1
      <4> HIDE DEF more
      <4>6. (Encode(sent[i]) \o tails[i + 1]) \o e = Encode(sent[i]) \o (tails[i + 1] \o e)
        BY <1>4, <4>4, <4>5, Assoc, Zenon
      <4> QED
        BY <4>2, <4>5, <4>6
    <3> QED
      BY <3>1, <3>2
  <2>6. IsTails(more, sent')
    <3>1. Len(sent') = n + 1 /\ Len(sent') + 1 = n + 2
      BY <1>2, <1>3
    <3> HIDE DEF more, n
    <3> QED
      BY <2>3, <2>4, <2>5, <3>1 DEF IsTails
  <2>7. Unread' = Unread \o e
    <3>1. head \o body \in Seq(Byte) /\ chunk \in Seq(Byte) /\ wire \in Seq(Byte)
      BY <1>1, Join DEF TypeOK
    <3>2. chunk \o (wire \o e) = (chunk \o wire) \o e /\ chunk \o wire \in Seq(Byte)
      <4>1. (chunk \o wire) \o e = chunk \o (wire \o e)
        BY <1>4, <3>1, Assoc, ZenonT(60)
      <4>2. chunk \o wire \in Seq(Byte)
        BY <3>1, Join, ZenonT(60)
      <4> QED
        BY <4>1, <4>2, Zenon
    <3>3. (head \o body) \o ((chunk \o wire) \o e) = ((head \o body) \o (chunk \o wire)) \o e
      BY <1>4, <3>1, <3>2, Assoc, ZenonT(60)
    <3>4. Unread' = (head \o body) \o (chunk \o (wire \o e))
      BY <1>1, <1>4 DEF Unread, parser
    <3> QED
      BY <3>2, <3>3, <3>4 DEF Unread
  <2>8. Len(delivered) + 1 \in 1..(n + 1)
    BY <1>2
  <2>9. Unread' = more[Len(delivered') + 1]
    BY <1>1, <2>1, <2>2, <2>7, <2>8
  <2> QED
    BY <2>6, <2>9 DEF Stream
<1> QED
  BY <1>1, <1>5, <1>6, <1>7, <1>8, <1>9 DEF IInv

\* Bytes go from the wire to the chunk.
LEMMA FeedStep ==
    ASSUME IInv, NEW n \in 1..ReadSize, Feed(n)
    PROVE  IInv'
<1>1. /\ TypeOK /\ FramesMatch /\ KickLast /\ delivered \in Seq(Packages) /\ InPackage
      /\ Stream /\ link = "up" /\ chunk = <<>>
      /\ n <= Len(wire)
      /\ chunk' = SubSeq(wire, 1, n)
      /\ wire' = SubSeq(wire, n + 1, Len(wire))
      /\ UNCHANGED <<parser, link, conns, sent, delivered>>
  BY DEF IInv, Feed, Idle
<1>2. n \in 0..Len(wire) /\ n <= ReadSize /\ wire \in Seq(Byte)
  BY <1>1, ParserAssumption DEF TypeOK
<1>3. /\ chunk' \in Seq(Byte) /\ Len(chunk') = n /\ wire' \in Seq(Byte)
      /\ chunk' \o wire' = wire
  BY <1>1, <1>2, Cut
<1>4. TypeOK'
  BY <1>1, <1>2, <1>3 DEF TypeOK, parser
<1>5. FramesMatch' /\ KickLast' /\ (delivered \in Seq(Packages))' /\ InPackage'
  BY <1>1 DEF FramesMatch, KickLast, InPackage, parser
<1>6. Unread' = Unread
  BY <1>1, <1>2, <1>3, JoinEmpty DEF Unread, parser
<1>7. Stream'
  BY <1>1, <1>6 DEF Stream
<1> QED
  BY <1>1, <1>4, <1>5, <1>7 DEF IInv

\* Bytes go from the chunk to the head, and a complete head gives the length of
\* the package that comes next.
LEMMA ParseHeadStep ==
    ASSUME IInv, ParseHead
    PROVE  IInv'
<1>1. /\ TypeOK /\ FramesMatch /\ KickLast /\ delivered \in Seq(Packages) /\ InPackage
      /\ state = "HEAD" /\ link = "up" /\ Stream
  BY DEF IInv, ParseHead, Reset, TypeOK
<1>2. /\ head \in Seq(Byte) /\ chunk \in Seq(Byte) /\ wire \in Seq(Byte)
      /\ body = <<>> /\ size = 0
  BY <1>1 DEF TypeOK, InPackage
<1>3. HeadBytes \in Nat /\ Len(head) \in Nat /\ Len(head) < HeadBytes
  BY <1>1, <1>2, ParserAssumption DEF InPackage, HeadBytes
<1>4. Len(head) <= HeadBytes
  BY <1>3
<1>5. PICK f, r, h \in Seq(Byte) :
        /\ f = First(Taken(HeadBytes - Len(head)))
        /\ r = Rest(Taken(HeadBytes - Len(head)))
        /\ h = head \o f
        /\ f \o r = chunk
        /\ Len(h) <= HeadBytes
        /\ Len(r) <= Len(chunk)
  BY <1>2, <1>3, <1>4, ChunkCut
<1>6. /\ head' = h /\ chunk' = r
      /\ IF Len(h) = HeadBytes
         THEN state' = "BODY" /\ body' = <<>> /\ size' = PkgLen(h)
         ELSE UNCHANGED <<state, body, size>>
      /\ UNCHANGED <<link, conns, wire, sent, delivered>>
  BY <1>5 DEF ParseHead
<1>7. body' = <<>>
  BY <1>2, <1>6
<1>8. Unread = h \o (r \o wire) /\ Unread' = Unread /\ r \o wire \in Seq(Byte)
  <2>1. /\ r \o wire \in Seq(Byte) /\ head \in Seq(Byte)
        /\ (f \o r) \o wire = f \o (r \o wire)
    <3>1. head \in Seq(Byte) /\ wire \in Seq(Byte)
      BY <1>2
    <3>2. r \o wire \in Seq(Byte)
      BY <3>1, Join, ZenonT(60)
    <3>3. (f \o r) \o wire = f \o (r \o wire)
      BY <3>1, Assoc, ZenonT(60)
    <3> QED
      BY <3>1, <3>2, <3>3, Zenon
  <2>2. ASSUME NEW t \in Seq(Byte)
        PROVE  head \o (f \o t) = (head \o f) \o t
    BY <2>1, Assoc, ZenonT(60)
  <2>3. head \o (f \o (r \o wire)) = (head \o f) \o (r \o wire)
    BY <2>1, <2>2, Zenon
  <2>4. Unread = head \o ((f \o r) \o wire)
    BY <1>2, <1>5, JoinEmpty DEF Unread
  <2>5. Unread' = (h \o <<>>) \o (r \o wire)
    BY <1>5, <1>6, <1>7 DEF Unread
  <2>6. h \o <<>> = h
    BY JoinEmpty
  <2> QED
    BY <1>5, <2>1, <2>3, <2>4, <2>5, <2>6
<1>9. Stream' /\ FramesMatch' /\ KickLast' /\ (delivered \in Seq(Packages))'
  BY <1>1, <1>6, <1>8 DEF Stream, FramesMatch, KickLast
<1>10. CASE Len(h) = HeadBytes
  <2>1. PICK q \in Packages : PkgLen(h) = Len(q.body)
    BY <1>1, <1>8, <1>10, NextPackage
  <2>2. Len(q.body) \in 0..(Base ^ LenBytes - 1)
    BY EncodeType
  <2>3. \A S : <<>> \in Seq(S) /\ Len(<<>>) = 0
    BY EmptySeq
  <2>4. \A m \in 0..(Base ^ LenBytes - 1) : 0 <= m
    OBVIOUS
  <2>5. /\ state' = "BODY" /\ size' \in 0..(Base ^ LenBytes - 1)
        /\ body' \in Seq(Byte) /\ Len(body') <= size'
    BY <1>6, <1>7, <1>10, <2>1, <2>2, <2>3, <2>4
  <2>6. TypeOK'
    BY <1>1, <1>5, <1>6, <2>5, ParserAssumption DEF TypeOK
  <2>7. InPackage'
    BY <1>6, <1>10, <2>5 DEF InPackage
  <2> QED
    BY <1>1, <1>6, <1>9, <2>6, <2>7 DEF IInv
<1>11. CASE Len(h) # HeadBytes
  <2>1. /\ UNCHANGED <<state, body, size, link, conns, wire, sent, delivered>>
        /\ head' = h /\ chunk' = r
    BY <1>6, <1>11
  <2>2. Len(h) < HeadBytes
    <3>1. Len(h) \in Nat
      BY LenProperties
    <3>2. Len(h) <= HeadBytes
      BY <1>5
    <3> QED
      BY <1>3, <1>11, <3>1, <3>2
  <2>3. Len(chunk') <= ReadSize
    <3>1. Len(r) \in Nat /\ Len(chunk) \in Nat
      BY <1>2, LenProperties
    <3>2. Len(r) <= Len(chunk) /\ Len(chunk) <= ReadSize /\ ReadSize \in Nat
      BY <1>1, <1>5, ParserAssumption DEF TypeOK
    <3> QED
      BY <2>1, <3>1, <3>2
  <2>4. TypeOK'
    BY <1>1, <1>5, <2>1, <2>3 DEF TypeOK
  <2>5. InPackage'
    BY <1>1, <2>1, <2>2 DEF InPackage
  <2> QED
    BY <1>1, <1>6, <1>9, <2>4, <2>5 DEF IInv
<1> QED
  BY <1>10, <1>11

\* Bytes go from the chunk to the body, and a complete body makes the package
\* that comes next.
LEMMA ParseBodyStep ==
    ASSUME Undecodable = {}, IInv, ParseBody
    PROVE  IInv'
<1>1. /\ TypeOK /\ FramesMatch /\ KickLast /\ delivered \in Seq(Packages) /\ InPackage
      /\ state = "BODY" /\ link = "up" /\ Stream
  BY DEF IInv, ParseBody, BodyReady, Reset, TypeOK
<1>2. /\ head \in Seq(Byte) /\ body \in Seq(Byte) /\ chunk \in Seq(Byte) /\ wire \in Seq(Byte)
      /\ Len(head) = HeadBytes /\ sent \in Seq(Packages)
  BY <1>1 DEF TypeOK, InPackage
<1>3. size \in Nat /\ Len(body) <= size /\ size = PkgLen(head)
  <2>1. Base ^ LenBytes \in Nat \ {0}
    BY ParserAssumption, PowerOfBase
  <2> QED
    BY <1>1, <2>1 DEF TypeOK, InPackage
<1>4. PICK f, r, b \in Seq(Byte) :
        /\ f = First(Taken(size - Len(body)))
        /\ r = Rest(Taken(size - Len(body)))
        /\ b = body \o f
        /\ f \o r = chunk
        /\ Len(b) <= size
        /\ Len(r) <= Len(chunk)
  BY <1>2, <1>3, ChunkCut
<1> DEFINE p == [type |-> head[1], body |-> b]
<1>5. /\ chunk' = r
      /\ IF Len(b) = size
         THEN /\ delivered' = Append(delivered, p)
              /\ ParserReset
              /\ IF Resets(p) THEN Closed ELSE UNCHANGED <<link, wire>>
         ELSE /\ body' = b
              /\ UNCHANGED <<state, head, size, link, wire, delivered>>
      /\ UNCHANGED <<conns, sent>>
  BY <1>4 DEF ParseBody
<1>6. /\ r \o wire \in Seq(Byte) /\ b \o (r \o wire) \in Seq(Byte)
      /\ Unread = (head \o b) \o (r \o wire)
      /\ Unread = head \o (b \o (r \o wire))
  <2>1. r \o wire \in Seq(Byte)
    BY <1>2, Join
  <2>2. b \o (r \o wire) \in Seq(Byte)
    BY <2>1, Join
  <2>3. head \in Seq(Byte) /\ body \in Seq(Byte) /\ wire \in Seq(Byte)
    BY <1>2
  <2>4. (f \o r) \o wire = f \o (r \o wire) /\ f \o (r \o wire) \in Seq(Byte)
    <3>1. (f \o r) \o wire = f \o (r \o wire)
      BY <2>3, Assoc, ZenonT(60)
    <3> QED
      BY <2>1, <3>1, Join
  <2>5. ASSUME NEW t \in Seq(Byte)
        PROVE  /\ (head \o body) \o t = head \o (body \o t)
               /\ (body \o f) \o t = body \o (f \o t)
               /\ (head \o b) \o t = head \o (b \o t)
    BY <2>3, AssocBody
  <2>6. (head \o body) \o (f \o (r \o wire)) = head \o (body \o (f \o (r \o wire)))
    BY <2>4, <2>5, Zenon
  <2>7. (body \o f) \o (r \o wire) = body \o (f \o (r \o wire))
    BY <2>1, <2>5, Zenon
  <2>8. (head \o b) \o (r \o wire) = head \o (b \o (r \o wire))
    BY <2>1, <2>5, Zenon
  <2>9. Unread = (head \o body) \o ((f \o r) \o wire)
    BY <1>4 DEF Unread
  <2>10. Unread = head \o (b \o (r \o wire))
    BY <1>4, <2>4, <2>6, <2>7, <2>9, Zenon
  <2> QED
    BY <2>1, <2>2, <2>8, <2>10, Zenon
<1>7. Len(r) <= ReadSize
  <2>1. Len(r) \in Nat /\ Len(chunk) \in Nat
    BY <1>2, LenProperties
  <2>2. Len(r) <= Len(chunk) /\ Len(chunk) <= ReadSize /\ ReadSize \in Nat
    BY <1>1, <1>4, ParserAssumption DEF TypeOK
  <2> QED
    BY <2>1, <2>2
<1>8. CASE Len(b) # size
  <2>1. /\ body' = b /\ chunk' = r
        /\ UNCHANGED <<state, head, size, link, wire, delivered, conns, sent>>
    BY <1>5, <1>8
  <2>2. Unread' = Unread
    BY <1>6, <2>1 DEF Unread
  <2>3. TypeOK'
    BY <1>1, <1>4, <1>7, <2>1 DEF TypeOK
  <2>4. Stream' /\ FramesMatch' /\ KickLast' /\ (delivered \in Seq(Packages))'
    BY <1>1, <2>1, <2>2 DEF Stream, FramesMatch, KickLast
  <2>5. InPackage'
    BY <1>1, <2>1 DEF InPackage
  <2> QED
    BY <1>1, <2>1, <2>3, <2>4, <2>5 DEF IInv
<1>9. CASE Len(b) = size
  <2>1. PICK q \in Packages :
          /\ Len(delivered) < Len(sent) /\ q = sent[Len(delivered) + 1]
          /\ head[1] = q.type /\ Len(b) = Len(q.body)
          /\ \E tails : /\ IsTails(tails, sent)
                        /\ b \o (r \o wire) = q.body \o tails[Len(delivered) + 2]
    <3>1. head \in Seq(Byte) /\ Len(head) = HeadBytes
      BY <1>2
    <3>2. PkgLen(head) = Len(b)
      BY <1>3, <1>9
    <3>3. /\ Len(delivered) < Len(sent)
          /\ \E q \in Packages :
               /\ q = sent[Len(delivered) + 1]
               /\ head[1] = q.type
               /\ PkgLen(head) = Len(q.body)
               /\ \E tails : /\ IsTails(tails, sent)
                             /\ b \o (r \o wire) = q.body \o tails[Len(delivered) + 2]
      BY <1>1, <1>6, <3>1, NextPackage, Zenon
    <3> QED
      BY <3>2, <3>3
  <2>2. PICK tails : /\ IsTails(tails, sent)
                     /\ b \o (r \o wire) = q.body \o tails[Len(delivered) + 2]
    BY <2>1
  <2>3. PICK k \in Nat : k = Len(delivered)
    BY <1>1
  <2>4. k + 1 \in 1..Len(sent) /\ k + 2 \in 1..(Len(sent) + 1) /\ k < Len(sent)
        /\ Len(sent) \in Nat
    <3>1. Len(sent) \in Nat
      BY <1>2
    <3>2. k < Len(sent)
      BY <2>1, <2>3
    <3> QED
      BY <3>1, <3>2
  <2>5. PICK t \in Seq(Byte) : t = tails[k + 2]
    BY <2>2, <2>4 DEF IsTails
  <2>6. PICK u \in Seq(Byte) : u = q.body
    BY EncodeType
  <2>7. b = u /\ r \o wire = t
    <3>1. b \o (r \o wire) = u \o t /\ Len(b) = Len(u)
      BY <2>1, <2>2, <2>3, <2>5, <2>6
    <3> QED
      BY <1>6, <3>1, SameCut
  <2>8. p = q
    BY <2>1, <2>6, <2>7, EncodeType
  <2>9. /\ chunk' = r /\ delivered' = Append(delivered, q)
        /\ state' = "HEAD" /\ head' = <<>> /\ body' = <<>> /\ size' = 0
        /\ IF Resets(q) THEN link' = "down" /\ wire' = <<>> ELSE UNCHANGED <<link, wire>>
        /\ UNCHANGED <<conns, sent>>
    BY <1>5, <1>9, <2>8 DEF ParserReset, Closed
  <2>10. /\ delivered' \in Seq(Packages) /\ Len(delivered') = k + 1
         /\ delivered' = delivered \o <<q>>
    BY <1>1, <2>3, <2>9, AppendProperties, AppendIsConcat
  <2>11. FramesMatch'
    <3>1. delivered = SubSeq(sent, 1, k)
      BY <1>1, <2>3 DEF FramesMatch
    <3>2. 1 \in 1..Len(sent) /\ k + 1 \in 1..Len(sent) /\ (k + 1) - 1 = k
      BY <2>4
    <3>3. SubSeq(sent, 1, k + 1) = SubSeq(sent, 1, (k + 1) - 1) \o <<sent[k + 1]>>
      BY <1>2, <3>2, SubSeqRecursiveSecond
    <3>4. q = sent[k + 1]
      BY <2>1, <2>3
    <3>5. delivered' = SubSeq(sent, 1, k + 1)
      BY <2>10, <3>1, <3>2, <3>3, <3>4, Zenon
    <3>6. k + 1 <= Len(sent)
      BY <2>4
    <3> QED
      BY <2>9, <2>10, <3>5, <3>6 DEF FramesMatch
  <2>12. KickLast' /\ InPackage'
    <3>1. Len(<<>>) = 0 /\ 0 < HeadBytes
      BY ParserAssumption DEF HeadBytes
    <3> QED
      BY <1>1, <2>9, <3>1 DEF KickLast, InPackage
  <2>13. TypeOK'
    <3>1. \A S : <<>> \in Seq(S) /\ Len(<<>>) = 0
      BY EmptySeq
    <3>2. wire' \in Seq(Byte) /\ link' \in {"up", "down"}
      BY <1>1, <1>2, <2>9, <3>1
    <3>3. 0 <= HeadBytes /\ 0 \in 0..(Base ^ LenBytes - 1)
      BY PowerOfBase, ParserAssumption DEF HeadBytes
    <3> QED
      BY <1>1, <1>7, <2>9, <3>1, <3>2, <3>3 DEF TypeOK
  <2>14. CASE Resets(q)
    <3>1. q.type = KICK
      BY <2>14 DEF Resets
    <3>2. k + 1 = Len(sent)
      BY <1>1, <2>1, <2>3, <2>4, <3>1 DEF KickLast
    <3>3. k + 2 = Len(sent) + 1
      BY <2>4, <3>2
    <3>4. r \o wire = <<>>
      BY <2>2, <2>5, <2>7, <3>3 DEF IsTails
    <3>5. r = <<>>
      BY <1>2, <3>4, ConcatSimplifications
    <3>6. Reset' /\ wire' = <<>> /\ link' = "down"
      BY <2>9, <2>14, <3>5 DEF Reset
    <3> QED
      BY <2>10, <2>11, <2>12, <2>13, <3>6 DEF IInv
  <2>15. CASE ~Resets(q)
    <3>1. link' = "up" /\ wire' = wire
      BY <1>1, <2>9, <2>15
    <3>2. Unread' = r \o wire
      <4>1. Unread' = (<<>> \o <<>>) \o (r \o wire)
        BY <2>9, <3>1 DEF Unread
      <4> QED
        BY <1>6, <4>1, JoinEmpty
    <3>3. Unread' = tails[Len(delivered') + 1]
      <4>1. (k + 1) + 1 = k + 2
        OBVIOUS
      <4> QED
        BY <2>5, <2>7, <2>10, <3>2, <4>1
    <3>4. Stream'
      BY <2>2, <2>9, <3>3 DEF Stream
    <3> QED
      BY <2>10, <2>11, <2>12, <2>13, <3>1, <3>4 DEF IInv
  <2> QED
    BY <2>14, <2>15
<1> QED
  BY <1>8, <1>9

\* and after every step.
LEMMA StepIInv ==
    ASSUME Undecodable = {}, IInv, [Next]_vars
    PROVE  IInv'
<1>1. CASE UNCHANGED vars
  BY <1>1 DEF vars, parser, IInv, TypeOK, FramesMatch, InPackage, KickLast, Stream, Unread,
     IsTails, Reset
<1>2. CASE Next
  BY <1>2, ConnectStep, LostStep, SendStep, FeedStep, ParseHeadStep, ParseBodyStep DEF Next
<1> QED
  BY <1>1, <1>2

\* So it always holds.
LEMMA Inductive ==
    ASSUME Undecodable = {}
    PROVE  Spec => []IInv
<1>1. IInv /\ [Next]_vars => IInv'
  BY StepIInv
<1> QED
  BY <1>1, InitIInv, PTL DEF Spec

-----------------------------------------------------------------------------
(* The theorems.  Undecodable = {}: a package that its handler refuses     *)
(* leaves the rest of its chunk to a parser without a connection, which    *)
(* run parser_stale shows.                                                 *)

\* The parser's buffers and sizes are within their bounds: a package never has
\* more bytes than its length field announced, and that is what was sent.
THEOREM TypeCorrect ==
    ASSUME Undecodable = {}
    PROVE  Spec => []TypeOK
<1>1. IInv => TypeOK
  BY DEF IInv
<1> QED
  BY <1>1, Inductive, PTL

\* The handler sees the packages of its connection in the order and with the
\* contents the server sent them, wherever they were cut, for every package and
\* every number of connections.
THEOREM FramesAreMatched ==
    ASSUME Undecodable = {}
    PROVE  Spec => []FramesMatch
<1>1. IInv => FramesMatch
  BY DEF IInv
<1> QED
  BY <1>1, Inductive, PTL

\* When the bytes sent are read, the packages sent are handled.
THEOREM NothingIsWithheld ==
    ASSUME Undecodable = {}
    PROVE  Spec => []NothingWithheld
<1>1. IInv => NothingWithheld
  <2> SUFFICES ASSUME IInv, Idle, link = "up", wire = <<>>
               PROVE  delivered = sent
    BY DEF NothingWithheld
  <2>1. /\ TypeOK /\ FramesMatch /\ InPackage /\ delivered \in Seq(Packages) /\ Stream
        /\ chunk = <<>> /\ sent \in Seq(Packages)
    BY DEF IInv, Idle, TypeOK
  <2>2. Len(sent) \in Nat /\ Len(delivered) \in Nat /\ Len(delivered) <= Len(sent)
    BY <2>1 DEF FramesMatch
  <2>3. Len(delivered) = Len(sent)
    <3> SUFFICES ASSUME Len(delivered) < Len(sent)
                 PROVE  FALSE
      BY <2>2
    <3>1. PICK tails : IsTails(tails, sent) /\ Unread = tails[Len(delivered) + 1]
      BY <2>1 DEF Stream
    <3>2. PICK k \in Nat : k = Len(delivered)
      BY <2>2
    <3>3. k + 1 \in 1..Len(sent) /\ (k + 1) + 1 \in 1..(Len(sent) + 1)
      BY <2>2, <3>2
    <3>4. PICK q \in Packages : q = sent[k + 1]
      BY <2>1, <3>3, ElementOfSeq
    <3>5. PICK t \in Seq(Byte) : t = tails[(k + 1) + 1]
      BY <3>1, <3>3 DEF IsTails
    <3>6. Unread = Encode(q) \o t
      BY <3>1, <3>2, <3>3, <3>4, <3>5 DEF IsTails
    <3>7. Unread = head \o body /\ head \in Seq(Byte) /\ body \in Seq(Byte)
      <4>1. head \in Seq(Byte) /\ body \in Seq(Byte)
        BY <2>1 DEF TypeOK
      <4>2. head \o body \in Seq(Byte)
        BY <4>1, Join
      <4>3. Unread = (head \o body) \o (<<>> \o <<>>)
        BY <2>1 DEF Unread
      <4> QED
        BY <4>1, <4>2, <4>3, JoinEmpty
    <3>8. PICK f \in Seq(Byte) : f = <<q.type>> \o LenField(Len(q.body))
      BY EncodeType
    <3>9. PICK u \in Seq(Byte) : u = q.body
      BY EncodeType
    <3>10. Encode(q) = f \o u /\ Len(f) = HeadBytes
      BY <3>8, <3>9, EncodeType
    <3>11. u \o t \in Seq(Byte) /\ Len(u \o t) = Len(u) + Len(t)
      BY Join
    <3>12. head \o body = f \o (u \o t)
      <4>1. (f \o u) \o t = f \o (u \o t)
        BY Assoc
      <4> QED
        BY <3>6, <3>7, <3>10, <4>1, Zenon
    <3>13. Len(head) + Len(body) = HeadBytes + (Len(u) + Len(t))
      <4>1. Len(head \o body) = Len(head) + Len(body)
        BY <3>7, Join
      <4>2. Len(f \o (u \o t)) = Len(f) + Len(u \o t)
        BY <3>11, Join
      <4> QED
        BY <3>10, <3>11, <3>12, <4>1, <4>2
    <3>14. Len(head) \in Nat /\ Len(body) \in Nat /\ Len(u) \in Nat /\ Len(t) \in Nat
      BY <3>7, LenProperties
    <3>15. HeadBytes \in Nat
      BY ParserAssumption DEF HeadBytes
    <3>16. CASE state = "HEAD"
      <4>1. Len(body) = 0 /\ Len(head) < HeadBytes
        BY <2>1, <3>16, EmptySeq DEF InPackage
      <4> QED
        BY <3>13, <3>14, <3>15, <4>1
    <3>17. CASE state = "BODY"
      <4>1. Len(head) = HeadBytes
        BY <2>1, <3>17 DEF InPackage
      <4>2. head = f
        BY <3>7, <3>10, <3>11, <3>12, <4>1, SameCut
      <4>3. Len(q.body) \in 0..(Base ^ LenBytes - 1) /\ q.type \in Byte
        BY EncodeType
      <4>4. PkgLen(f) = Len(u)
        BY <3>8, <3>9, <4>3, LengthRead
      <4>5. size = Len(u)
        BY <2>1, <3>17, <4>2, <4>4 DEF InPackage
      <4>6. size # Len(body) /\ Len(body) <= size
        BY <2>1, <3>17 DEF Idle, BodyReady, TypeOK
      <4> QED
        BY <3>13, <3>14, <3>15, <4>1, <4>5, <4>6
    <3> QED
      BY <2>1, <3>16, <3>17 DEF TypeOK
  <2> QED
    BY <2>1, <2>3, SubSeqFull DEF FramesMatch
<1> QED
  BY <1>1, Inductive, PTL

\* Nothing of a connection that was lost or closed in the middle of a package is
\* left in the parser when the next one begins.
THEOREM ParserIsFresh ==
    ASSUME Undecodable = {}
    PROVE  Spec => []FreshParser
<1>1. IInv => FreshParser
  <2> SUFFICES ASSUME IInv, link = "up", sent = <<>>
               PROVE  state = "HEAD" /\ head = <<>>
    BY DEF FreshParser
  <2>1. PICK tails : IsTails(tails, sent) /\ Unread = tails[Len(delivered) + 1]
    BY DEF IInv, Stream
  <2>2. Len(sent) = 0 /\ Len(delivered) = 0
    <3>1. Len(delivered) \in Nat /\ Len(delivered) <= Len(sent)
      BY DEF IInv, FramesMatch
    <3> QED
      BY <3>1, EmptySeq
  <2>3. Unread = <<>>
    BY <2>1, <2>2 DEF IsTails
  <2>4. /\ head \in Seq(Byte) /\ body \in Seq(Byte)
        /\ head \o body \in Seq(Byte) /\ chunk \o wire \in Seq(Byte)
    BY Join DEF IInv, TypeOK
  <2>5. head = <<>>
    BY <2>3, <2>4, ConcatSimplifications DEF Unread
  <2>6. Len(head) = 0 /\ HeadBytes > 0
    BY <2>5, EmptySeq, ParserAssumption DEF HeadBytes
  <2> QED
    BY <2>5, <2>6 DEF IInv, TypeOK, InPackage
<1> QED
  BY <1>1, Inductive, PTL

=============================================================================
