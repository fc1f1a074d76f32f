--------------------------- MODULE Session_proofs ---------------------------
(***************************************************************************)
(* What the run of Session shows for a few messages, proved for all: what  *)
(* is said on a connection is what is understood.                          *)
(***************************************************************************)
EXTENDS Session, PkgParser_proofs

-----------------------------------------------------------------------------
(* The digits of an id.                                                    *)

\* The numbers of values of a byte and of a digit.
LEMMA DigitRange ==
    /\ Base \in Nat /\ Base >= 64
    /\ Digit \in Nat /\ Digit >= 32 /\ Base = 2 * Digit
  BY ParserAssumption, SessionAssumption DEF Digit

\* The powers of Digit up to that of n are known.
Known(n) ==
    /\ n \in Nat \ {0}
    /\ \A k \in 0..(n - 1) : /\ Digit ^ k \in Nat \ {0}
                             /\ Digit ^ (k + 1) = Digit * Digit ^ k

\* An id whose digits the powers known suffice for.
IsId(id) == id \in Nat /\ \E n : Known(n) /\ id < Digit ^ n

\* The ids of the messages are such.
LEMMA IdsKnown == \A m \in Asks \cup Messages : IsId(m.id)
<1> TAKE m \in Asks \cup Messages
<1>1. m.id \in Nat
  BY MessagesAssumption
<1>2. PICK n \in 1..(m.id + 1) :
        /\ m.id < Digit ^ n
        /\ \A k \in 0..(n - 1) : /\ Digit ^ k \in Nat \ {0}
                                 /\ Digit ^ (k + 1) = Digit * Digit ^ k
  BY Powers
<1>3. n \in Nat \ {0}
  BY <1>1, <1>2
<1>4. Known(n)
  BY <1>2, <1>3 DEF Known
<1> QED
  BY <1>1, <1>2, <1>4 DEF IsId

\* Dividing twice is dividing by the product.
LEMMA Shift ==
    ASSUME NEW d \in Nat \ {0}, NEW p \in Nat \ {0}, NEW n \in Nat
    PROVE  (n \div d) \div p = n \div (d * p)
  OBVIOUS

\* Counts(id, k): id has k digits.
Counts(id, k) == k \in 1..(id + 1) /\ id < Digit ^ k /\ \A j \in 1..(k - 1) : ~(id < Digit ^ j)

\* An id has one number of digits only,
LEMMA CountOnce ==
    ASSUME NEW id \in Nat, NEW k, NEW l, Counts(id, k), Counts(id, l)
    PROVE  k = l
<1>1. k \in Nat /\ l \in Nat
  BY DEF Counts
<1>2. CASE k < l
  <2>1. k \in 1..(l - 1)
    BY <1>1, <1>2 DEF Counts
  <2> QED
    BY <2>1 DEF Counts
<1>3. CASE l < k
  <2>1. l \in 1..(k - 1)
    BY <1>1, <1>3 DEF Counts
  <2> QED
    BY <2>1 DEF Counts
<1> QED
  BY <1>1, <1>2, <1>3

\* A small id has one digit.
LEMMA CountSmall ==
    ASSUME NEW id \in Nat, IsId(id), id < Digit
    PROVE  Counts(id, 1)
<1>1. PICK n : n \in Nat \ {0} /\ Known(n)
  BY DEF IsId, Known
<1>2. 0 \in 0..(n - 1) /\ 0 + 1 = 1
  BY <1>1
<1>3. Digit ^ 1 = Digit * Digit ^ 0
  BY <1>1, <1>2 DEF Known
<1>4. Digit ^ 1 = Digit
  BY <1>3, DigitRange, Powers
<1> QED
  BY <1>4 DEF Counts

\* Every other id has one digit more than what its first digit leaves.
LEMMA CountStep ==
    ASSUME NEW id \in Nat, IsId(id), id >= Digit, NEW k, Counts(id \div Digit, k)
    PROVE  Counts(id, k + 1)
<1> DEFINE q == id \div Digit
<1>1. PICK n : n \in Nat \ {0} /\ Known(n) /\ id < Digit ^ n
  BY DEF IsId, Known
<1>2. q \in Nat /\ q + 1 <= id /\ Digit \in Nat /\ Digit * q <= id /\ id < Digit * (q + 1)
  BY DigitRange
<1>3. k \in 1..(q + 1) /\ q < Digit ^ k /\ \A j \in 1..(k - 1) : ~(q < Digit ^ j)
  BY DEF Counts
<1> HIDE DEF q
<1>4. \A j \in 0..(n - 1) : Digit ^ j \in Nat \ {0} /\ Digit ^ (j + 1) = Digit * Digit ^ j
  BY <1>1 DEF Known
<1>5. \A x, y \in Nat : x < y => Digit * (x + 1) <= Digit * y
  BY <1>2
<1>6. \A x, y \in Nat : ~(x < y) => Digit * y <= Digit * x
  BY <1>2
<1>7. \A j \in 0..(n - 1) : q < Digit ^ j <=> id < Digit ^ (j + 1)
  <2> TAKE j \in 0..(n - 1)
  <2>1. Digit ^ j \in Nat /\ Digit ^ (j + 1) = Digit * Digit ^ j
    BY <1>4
  <2>2. ASSUME q < Digit ^ j
        PROVE  id < Digit ^ (j + 1)
    <3>1. Digit * (q + 1) <= Digit * Digit ^ j
      BY <1>2, <1>5, <2>1, <2>2
    <3> QED
      BY <1>2, <2>1, <3>1
  <2>3. ASSUME ~(q < Digit ^ j)
        PROVE  ~(id < Digit ^ (j + 1))
    <3>1. Digit * Digit ^ j <= Digit * q
      BY <1>2, <1>6, <2>1, <2>3
    <3> QED
      BY <1>2, <2>1, <3>1
  <2> QED
    BY <2>2, <2>3
<1>8. n - 1 \in 0..(n - 1) /\ (n - 1) + 1 = n
  BY <1>1
<1>9. q < Digit ^ (n - 1)
  BY <1>1, <1>7, <1>8
<1>10. n # 1
  BY <1>2, <1>9, Powers, DigitRange DEF q
<1>11. k <= n - 1
  BY <1>1, <1>2, <1>3, <1>9, <1>10
<1>12. k \in 0..(n - 1) /\ k + 1 \in 1..(id + 1)
  BY <1>2, <1>3, <1>11
<1>13. id < Digit ^ (k + 1)
  BY <1>3, <1>7, <1>12
<1>14. ASSUME NEW j \in 1..((k + 1) - 1)
       PROVE  ~(id < Digit ^ j)
  <2>1. j - 1 \in 0..(n - 1) /\ (j - 1) + 1 = j
    BY <1>1, <1>12
  <2>2. ~(q < Digit ^ (j - 1))
    <3>1. CASE j = 1
      BY <3>1, <1>2, Powers, DigitRange DEF q
    <3>2. CASE j # 1
      BY <3>2, <1>3
    <3> QED
      BY <3>1, <3>2
  <2> QED
    BY <1>7, <2>1, <2>2
<1> QED
  BY <1>12, <1>13, <1>14 DEF Counts

\* What an id's first digit leaves is a smaller id.
LEMMA IdsBelow ==
    ASSUME NEW id \in Nat, IsId(id), id >= Digit
    PROVE  IsId(id \div Digit) /\ id \div Digit \in Nat /\ id \div Digit < id
<1>1. PICK n : n \in Nat \ {0} /\ Known(n) /\ id < Digit ^ n
  BY DEF IsId, Known
<1>2. id \div Digit \in Nat /\ id \div Digit < id
  BY DigitRange
<1>3. n - 1 \in 0..(n - 1) /\ (n - 1) + 1 = n
  BY <1>1
<1>4. Digit ^ n \in Nat
  BY <1>1, <1>3, DigitRange DEF Known
<1>5. id \div Digit < Digit ^ n
  BY <1>1, <1>2, <1>4
<1> QED
  BY <1>1, <1>2, <1>5 DEF IsId

\* Every id has a number of digits: the least one without would be small, or leave a
\* smaller one without.
LEMMA CountExists ==
    ASSUME NEW id \in Nat, IsId(id)
    PROVE  \E k : Counts(id, k)
<1> DEFINE T == {i \in Nat : IsId(i) /\ ~ \E k : Counts(i, k)}
<1>1. T = {}
  <2> SUFFICES ASSUME T # {}
               PROVE  FALSE
    OBVIOUS
  <2>1. PICK m \in T : \A k \in T : m <= k
    BY LeastElement
  <2>2. m >= Digit
    BY <2>1, CountSmall, DigitRange
  <2>3. IsId(m \div Digit) /\ m \div Digit \in Nat /\ m \div Digit < m
    BY <2>2, IdsBelow
  <2>4. m \div Digit \notin T
    BY <2>1, <2>3
  <2>5. PICK k : Counts(m \div Digit, k)
    BY <2>3, <2>4
  <2>6. Counts(m, k + 1)
    BY <2>2, <2>5, CountStep
  <2> QED
    BY <2>6
<1> QED
  BY <1>1

\* Digits(id) is the number of id's digits,
LEMMA DigitsCount ==
    ASSUME NEW id \in Nat, IsId(id)
    PROVE  Counts(id, Digits(id))
<1>1. PICK k : Counts(id, k)
  BY CountExists
<1> QED
  BY <1>1, Zenon DEF Digits, Counts

\* and one more than that of what its first digit leaves.
LEMMA DigitsUnfold ==
    ASSUME NEW id \in Nat, IsId(id)
    PROVE  /\ id < Digit => Digits(id) = 1
           /\ id >= Digit => Digits(id) = Digits(id \div Digit) + 1
<1>1. Counts(id, Digits(id))
  BY DigitsCount
<1>2. CASE id < Digit
  BY <1>1, <1>2, CountSmall, CountOnce, DigitRange
<1>3. CASE id >= Digit
  <2>1. Counts(id \div Digit, Digits(id \div Digit))
    BY <1>3, IdsBelow, DigitsCount
  <2>2. Counts(id, Digits(id \div Digit) + 1)
    BY <1>3, <2>1, CountStep
  <2> QED
    BY <1>1, <1>3, <2>2, CountOnce, DigitRange
<1> QED
  BY <1>2, <1>3, DigitRange

\* The powers up to an id's number of digits are known.
LEMMA PowersOf ==
    ASSUME NEW id \in Nat, IsId(id)
    PROVE  /\ Digits(id) \in Nat \ {0}
           /\ \A k \in 0..(Digits(id) - 1) : Digit ^ k \in Nat \ {0}
           /\ \A k \in 0..(Digits(id) - 1) : Digit ^ (k + 1) = Digit * Digit ^ k
           /\ id < Digit ^ Digits(id)
<1>1. PICK n : n \in Nat \ {0} /\ Known(n) /\ id < Digit ^ n
  BY DEF IsId, Known
<1>2. Counts(id, Digits(id))
  BY DigitsCount
<1>3. Digits(id) \in Nat \ {0} /\ id < Digit ^ Digits(id)
  BY <1>2 DEF Counts
<1>4. Digits(id) <= n
  BY <1>1, <1>2 DEF Counts
<1>5. \A k \in 0..(Digits(id) - 1) : k \in 0..(n - 1)
  BY <1>1, <1>3, <1>4
<1> QED
  BY <1>1, <1>3, <1>5 DEF Known

\* The digits of an id in the protocol.
LEMMA WireIdType ==
    ASSUME NEW id \in Nat, IsId(id)
    PROVE  WireId(id) \in Seq(Byte) /\ Len(WireId(id)) = Digits(id)
<1>1. ASSUME NEW i \in 1..Digits(id)
      PROVE  ((id \div Digit ^ (i - 1)) % Digit) + (IF i < Digits(id) THEN Digit ELSE 0) \in Byte
  <2>1. i - 1 \in 0..(Digits(id) - 1)
    BY PowersOf
  <2>2. Digit ^ (i - 1) \in Nat \ {0}
    BY <2>1, PowersOf
  <2>3. \A p \in Nat \ {0} : id \div p \in Nat
    OBVIOUS
  <2>4. \A q \in Nat : q % Digit \in 0..(Digit - 1)
    BY DigitRange
  <2>5. (id \div Digit ^ (i - 1)) % Digit \in 0..(Digit - 1)
    BY <2>2, <2>3, <2>4
  <2> QED
    BY <2>5, DigitRange DEF Byte
<1>2. WireId(id) \in [1..Digits(id) -> Byte]
  BY <1>1 DEF WireId
<1> QED
  BY <1>2, PowersOf

\* A small id is its own digit.
LEMMA WireSmall ==
    ASSUME NEW id \in Nat, IsId(id), id < Digit
    PROVE  WireId(id) = <<id>>
<1>1. Digits(id) = 1 /\ id \div Digit ^ 0 = id
  BY DigitsUnfold, Powers
<1>2. id % Digit = id
  BY DigitRange
<1>3. WireId(id)[1] = id
  BY <1>1, <1>2 DEF WireId
<1>4. WireId(id) \in Seq(Byte) /\ Len(WireId(id)) = 1
  BY <1>1, WireIdType
<1> QED
  BY <1>3, <1>4

\* Every other id is its first digit, marked, and the digits of what that leaves.
LEMMA WireBig ==
    ASSUME NEW id \in Nat, IsId(id), id >= Digit
    PROVE  WireId(id) = <<Digit + (id % Digit)>> \o WireId(id \div Digit)
<1> DEFINE q == id \div Digit
           first == <<Digit + (id % Digit)>>
           n == Digits(id)
<1>1. IsId(q) /\ q \in Nat
  BY IdsBelow
<1>2. n = Digits(q) + 1 /\ Digits(q) \in Nat \ {0}
  BY <1>1, DigitsUnfold, PowersOf
<1>3. WireId(q) \in Seq(Byte) /\ Len(WireId(q)) = Digits(q)
  BY <1>1, WireIdType
<1>4. WireId(id) \in Seq(Byte) /\ Len(WireId(id)) = n
  BY WireIdType
<1>5. first \in Seq(Byte) /\ Len(first) = 1 /\ first[1] = Digit + (id % Digit)
  BY DigitRange DEF Byte
<1>6. first \o WireId(q) \in Seq(Byte) /\ Len(first \o WireId(q)) = n
  BY <1>2, <1>3, <1>5, ConcatProperties
<1>7. ASSUME NEW i \in 1..n
      PROVE  WireId(id)[i] = (first \o WireId(q))[i]
  <2>1. CASE i = 1
    <3>1. id \div Digit ^ (i - 1) = id /\ i < n
      BY <1>2, <2>1, Powers
    <3>2. WireId(id)[i] = (id % Digit) + Digit
      BY <1>2, <3>1 DEF WireId
    <3>3. (first \o WireId(q))[i] = first[1]
      BY <1>2, <1>3, <1>5, <2>1, ConcatProperties
    <3>4. (id % Digit) + Digit = Digit + (id % Digit)
      BY DigitRange
    <3> QED
      BY <1>5, <2>1, <3>2, <3>3, <3>4, Zenon
  <2>2. CASE i # 1
    <3> DEFINE k == i - 2
    <3>1. k \in 0..(Digits(q) - 1) /\ i - 1 = k + 1 /\ i - 1 \in 1..Digits(q)
          /\ (i - 1) - 1 = k /\ (i < n <=> i - 1 < Digits(q)) /\ k \in 0..(n - 1)
      BY <1>2, <2>2
    <3>2. Digit ^ (k + 1) = Digit * Digit ^ k /\ Digit ^ k \in Nat \ {0}
      BY <3>1, PowersOf
    <3>3. id \div (Digit * Digit ^ k) = q \div Digit ^ k
      BY <3>2, Shift, DigitRange
    <3>4. id \div Digit ^ (i - 1) = q \div Digit ^ ((i - 1) - 1)
      BY <3>1, <3>2, <3>3
    <3>5. WireId(id)[i] = ((id \div Digit ^ (i - 1)) % Digit) + (IF i < n THEN Digit ELSE 0)
      BY DEF WireId
    <3>6. WireId(q)[i - 1] = ((q \div Digit ^ ((i - 1) - 1)) % Digit)
                               + (IF i - 1 < Digits(q) THEN Digit ELSE 0)
      BY <3>1, Zenon DEF WireId
    <3>7. (first \o WireId(q))[i] = WireId(q)[i - 1]
      BY <1>2, <1>3, <1>5, <2>2, ConcatProperties
    <3> QED
      BY <3>1, <3>4, <3>5, <3>6, <3>7
  <2> QED
    BY <2>1, <2>2
<1> QED
  BY <1>4, <1>6, <1>7, SeqEqual

\* What EncodeId's recursive function is.
Encodes(id, digits) ==
    digits = [n \in 0..id |->
                IF n < Digit THEN <<n>> ELSE <<Digit + (n % Digit)>> \o digits[n \div Digit]]

\* There is at most one such function.
LEMMA EncodesOnce ==
    ASSUME NEW id \in Nat, NEW v, NEW w, Encodes(id, v), Encodes(id, w)
    PROVE  v = w
<1> DEFINE T == {i \in 0..id : v[i] # w[i]}
<1>1. T = {}
  <2> SUFFICES ASSUME T # {}
               PROVE  FALSE
    OBVIOUS
  <2>1. T \in SUBSET Nat
    OBVIOUS
  <2>2. PICK m \in T : \A k \in T : m <= k
    BY <2>1, LeastElement
  <2>3. m >= Digit
    BY <2>2, DigitRange DEF Encodes
  <2>4. m \div Digit \in 0..id /\ m \div Digit < m
    BY <2>2, <2>3, DigitRange
  <2>5. m \div Digit \notin T
    BY <2>2, <2>4
  <2>6. v[m \div Digit] = w[m \div Digit]
    BY <2>4, <2>5
  <2>7. /\ v[m] = <<Digit + (m % Digit)>> \o v[m \div Digit]
        /\ w[m] = <<Digit + (m % Digit)>> \o w[m \div Digit]
    BY <2>2, <2>3, DigitRange DEF Encodes
  <2> QED
    BY <2>2, <2>6, <2>7
<1>2. \A i \in 0..id : v[i] = w[i]
  BY <1>1
<1> QED
  BY <1>2 DEF Encodes

\* pc__msg_encode_route's ids are those of the protocol.
LEMMA EncodeIdIsWireId ==
    ASSUME NEW id \in Nat, IsId(id)
    PROVE  EncodeId(id) = WireId(id)
<1> DEFINE v == [n \in 0..id |-> WireId(n)]
           w == CHOOSE digits : Encodes(id, digits)
<1>1. ASSUME NEW n \in 0..id
      PROVE  v[n] = IF n < Digit THEN <<n>> ELSE <<Digit + (n % Digit)>> \o v[n \div Digit]
  <2>1. n \in Nat /\ IsId(n)
    <3>1. n \in Nat /\ n <= id
      OBVIOUS
    <3>2. PICK k : k \in Nat \ {0} /\ Known(k) /\ id < Digit ^ k
      BY DEF IsId, Known
    <3>3. k - 1 \in 0..(k - 1) /\ (k - 1) + 1 = k
      BY <3>2
    <3>4. Digit ^ k \in Nat
      BY <3>2, <3>3, DigitRange DEF Known
    <3> QED
      BY <3>1, <3>2, <3>4 DEF IsId
  <2>2. CASE n < Digit
    BY <2>1, <2>2, WireSmall
  <2>3. CASE n >= Digit
    <3>1. n \div Digit \in 0..id
      BY <2>1, <2>3, DigitRange
    <3>2. WireId(n) = <<Digit + (n % Digit)>> \o WireId(n \div Digit)
      BY <2>1, <2>3, WireBig
    <3> QED
      BY <2>1, <2>3, <3>1, <3>2, DigitRange
  <2> QED
    BY <2>1, <2>2, <2>3, DigitRange
<1>2. Encodes(id, v)
  BY <1>1 DEF Encodes
<1> HIDE DEF v, w
<1>3. Encodes(id, w)
  BY <1>2, Zenon DEF w
<1>4. w = v
  BY <1>2, <1>3, EncodesOnce
<1>5. EncodeId(id) = w[id]
  BY Zenon DEF EncodeId, Encodes, w
<1>6. v[id] = WireId(id)
  BY DEF v
<1> QED
  BY <1>4, <1>5, <1>6

-----------------------------------------------------------------------------
(* Reading an id.                                                          *)

\* What DecodeId's recursive function is, for the digits from at to end.
Values(data, at, end, value) ==
    value = [i \in at..(end + 1) |->
               IF i > end THEN 0 ELSE (data[i] % Digit) + Digit * value[i + 1]]

\* There is at most one such function.
LEMMA ValuesOnce ==
    ASSUME NEW data, NEW at \in Nat, NEW end \in Nat, NEW v, NEW w,
           Values(data, at, end, v), Values(data, at, end, w)
    PROVE  v = w
<1> DEFINE T == {k \in 0..(end + 1) : end + 1 - k >= at /\ v[end + 1 - k] # w[end + 1 - k]}
<1>1. T = {}
  <2> SUFFICES ASSUME T # {}
               PROVE  FALSE
    OBVIOUS
  <2>1. T \in SUBSET Nat
    OBVIOUS
  <2>2. PICK m \in T : \A k \in T : m <= k
    BY <2>1, LeastElement
  <2>3. m # 0
    BY <2>2 DEF Values
  <2>4. /\ m - 1 \notin T /\ m - 1 \in 0..(end + 1) /\ (end + 1 - m) + 1 = end + 1 - (m - 1)
        /\ end + 1 - (m - 1) >= at
    BY <2>2, <2>3
  <2>5. v[(end + 1 - m) + 1] = w[(end + 1 - m) + 1]
    BY <2>4
  <2>6. end + 1 - m \in at..(end + 1) /\ ~(end + 1 - m > end)
    BY <2>2, <2>3
  <2>7. /\ v[end + 1 - m] = (data[end + 1 - m] % Digit) + Digit * v[(end + 1 - m) + 1]
        /\ w[end + 1 - m] = (data[end + 1 - m] % Digit) + Digit * w[(end + 1 - m) + 1]
    BY <2>6 DEF Values
  <2> QED
    BY <2>2, <2>5, <2>7
<1>2. ASSUME NEW i \in at..(end + 1)
      PROVE  v[i] = w[i]
  <2>1. end + 1 - i \in 0..(end + 1) /\ end + 1 - (end + 1 - i) = i /\ i >= at
    OBVIOUS
  <2> QED
    BY <1>1, <2>1
<1> QED
  BY <1>2 DEF Values

\* The digits of id are in data from at on.
IdAt(data, at, id) ==
    /\ at + Digits(id) - 1 <= Len(data)
    /\ \A i \in 1..Digits(id) : data[at + i - 1] = WireId(id)[i]

\* DecodeId reads the id that is there, and where it ends.
LEMMA IdRead ==
    ASSUME NEW id \in Nat, IsId(id), NEW data \in Seq(Byte), NEW at \in Nat \ {0},
           IdAt(data, at, id)
    PROVE  DecodeId(data, at) = [id |-> id, next |-> at + Digits(id)]
<1> DEFINE n == Digits(id)
           e == at + n - 1
           last == {i \in at..Len(data) : data[i] < Digit}
           digit(k) == (id \div Digit ^ k) % Digit
<1>1. n \in Nat \ {0} /\ Len(data) \in Nat /\ e \in at..Len(data)
  BY PowersOf DEF IdAt
<1>2. ASSUME NEW k \in 0..(n - 1)
      PROVE  /\ data[at + k] = digit(k) + (IF k + 1 < n THEN Digit ELSE 0)
             /\ digit(k) \in 0..(Digit - 1)
             /\ id \div Digit ^ k = Digit * (id \div Digit ^ (k + 1)) + digit(k)
             /\ id \div Digit ^ (k + 1) \in Nat
             /\ id \div Digit ^ k \in Nat
  <2>1. k + 1 \in 1..n /\ (k + 1) - 1 = k /\ at + (k + 1) - 1 = at + k
    BY <1>1
  <2>2. data[at + k] = WireId(id)[k + 1]
    BY <2>1 DEF IdAt
  <2>3. WireId(id)[k + 1] = digit(k) + (IF k + 1 < n THEN Digit ELSE 0)
    BY <2>1 DEF WireId
  <2>4. Digit ^ k \in Nat \ {0} /\ Digit ^ (k + 1) = Digit * Digit ^ k
    BY PowersOf
  <2>5. Digit \in Nat \ {0}
    BY DigitRange
  <2>6. id \div Digit ^ k = Digit * (id \div Digit ^ (k + 1)) + digit(k)
    BY <2>4, <2>5, DigitOf
  <2>7. \A p \in Nat \ {0} : id \div p \in Nat
    OBVIOUS
  <2>8. \A q \in Nat : q % Digit \in 0..(Digit - 1)
    BY <2>5
  <2>9. Digit * Digit ^ k \in Nat \ {0}
    BY <2>4, <2>5
  <2> QED
    BY <2>2, <2>3, <2>4, <2>6, <2>7, <2>8, <2>9
<1>3. id \div Digit ^ n = 0
  <2>1. n - 1 \in 0..(n - 1) /\ (n - 1) + 1 = n
    BY <1>1
  <2>2. Digit ^ (n - 1) \in Nat \ {0} /\ Digit ^ n = Digit * Digit ^ (n - 1) /\ id < Digit ^ n
    BY <2>1, PowersOf
  <2>3. Digit ^ n \in Nat \ {0}
    BY <2>2, DigitRange
  <2>4. \A p \in Nat \ {0} : id < p => id \div p = 0
    OBVIOUS
  <2> QED
    BY <2>2, <2>3, <2>4
<1> HIDE DEF digit
<1>4. e \in last
  <2>1. n - 1 \in 0..(n - 1) /\ at + (n - 1) = e /\ ~((n - 1) + 1 < n)
    BY <1>1
  <2>2. data[e] = digit(n - 1) + 0 /\ digit(n - 1) \in 0..(Digit - 1)
    BY <1>2, <2>1
  <2>3. data[e] < Digit
    BY <2>2, DigitRange
  <2> QED
    BY <1>1, <2>3
<1>5. \A j \in last : e <= j
  <2> SUFFICES ASSUME NEW j \in last, j < e
               PROVE  FALSE
    BY <1>1
  <2>1. j - at \in 0..(n - 1) /\ at + (j - at) = j /\ (j - at) + 1 < n
    BY <1>1
  <2>2. data[j] = digit(j - at) + Digit /\ digit(j - at) \in 0..(Digit - 1)
    BY <1>2, <2>1
  <2> QED
    BY <2>2, DigitRange
<1> DEFINE end == IF last = {} THEN Len(data)
                  ELSE CHOOSE i \in last : \A j \in last : i <= j
<1>6. end = e
  <2>1. \A i \in last : (\A j \in last : i <= j) => i = e
    BY <1>1, <1>4, <1>5
  <2> HIDE DEF last, e
  <2>2. (CHOOSE i \in last : \A j \in last : i <= j) = e
    BY <1>4, <1>5, <2>1, Zenon
  <2> QED
    BY <1>4, <2>2
<1> DEFINE v == [i \in at..(e + 1) |-> id \div Digit ^ (i - at)]
           w == CHOOSE value : Values(data, at, e, value)
<1>7. ASSUME NEW i \in at..(e + 1)
      PROVE  v[i] = IF i > e THEN 0 ELSE (data[i] % Digit) + Digit * v[i + 1]
  <2>1. CASE i > e
    <3>1. i - at = n
      BY <1>1, <2>1
    <3> QED
      BY <1>3, <2>1, <3>1
  <2>2. CASE ~(i > e)
    <3>1. PICK k \in 0..(n - 1) : i = at + k
      <4>1. i - at \in 0..(n - 1) /\ i = at + (i - at)
        BY <1>1, <2>2
      <4> QED
        BY <4>1
    <3>2. i - at = k /\ (i + 1) - at = k + 1 /\ i + 1 \in at..(e + 1)
      BY <1>1, <3>1
    <3>3. v[i] = id \div Digit ^ k /\ v[i + 1] = id \div Digit ^ (k + 1)
      BY <3>2
    <3> HIDE DEF v
    <3>4. data[i] % Digit = digit(k)
      <4>1. \A d \in 0..(Digit - 1) : d % Digit = d /\ (d + Digit) % Digit = d /\ d + 0 = d
        BY DigitRange
      <4>2. data[i] = digit(k) + Digit \/ data[i] = digit(k) + 0
        BY <1>2, <3>1
      <4> QED
        BY <1>2, <4>1, <4>2
    <3>5. v[i] = Digit * v[i + 1] + digit(k)
      BY <1>2, <3>3
    <3>6. Digit * v[i + 1] \in Nat /\ digit(k) \in Nat
      BY <1>2, <3>3, DigitRange, SMTT(30)
    <3>7. v[i] = digit(k) + Digit * v[i + 1]
      BY <3>5, <3>6
    <3> QED
      BY <2>2, <3>4, <3>7
  <2> QED
    BY <2>1, <2>2
<1>8. Values(data, at, e, v)
  BY <1>7 DEF Values
<1> HIDE DEF v, w, e, n, end, last
<1>9. Values(data, at, e, w)
  BY <1>8, Zenon DEF w
<1>10. w = v
  <2>1. e \in Nat
    BY <1>1
  <2> QED
    BY <1>8, <1>9, <2>1, ValuesOnce
<1>11. DecodeId(data, at) = [id |-> w[at], next |-> IF last = {} THEN at ELSE end + 1]
  BY <1>6, ZenonT(60) DEF DecodeId, Values, w, end, last
<1>12. v[at] = id
  <2>1. at \in at..(e + 1) /\ at - at = 0
    BY <1>1
  <2> QED
    BY <2>1, Powers DEF v
<1>13. e + 1 = at + n
  BY <1>1 DEF e
<1> QED
  BY <1>4, <1>6, <1>10, <1>11, <1>12, <1>13 DEF n

-----------------------------------------------------------------------------
(* The bytes of a message.                                                 *)

\* Bytes are numbers.
LEMMA BytesAreNumbers == \A s \in Seq(Byte) : s \in Seq(Nat)
<1> TAKE s \in Seq(Byte)
<1>1. \A i \in 1..Len(s) : s[i] \in Nat
  <2> TAKE i \in 1..Len(s)
  <2>1. s[i] \in Byte
    BY ElementOfSeq
  <2> QED
    BY <2>1, DigitRange DEF Byte
<1> QED
  BY <1>1, IsASeq, LenProperties

\* A middle part of a sequence, and its end.
LEMMA Part ==
    ASSUME NEW s \in Seq(Byte), NEW t \in Seq(Byte), NEW u \in Seq(Byte)
    PROVE  /\ SubSeq((s \o t) \o u, Len(s) + 1, Len(s) + Len(t)) = t
           /\ SubSeq(s \o t, Len(s) + 1, Len(s \o t)) = t
<1>1. Len(s) \in Nat /\ Len(t) \in Nat /\ Len(u) \in Nat
  BY LenProperties
<1>2. /\ s \o t \in Seq(Byte) /\ Len(s \o t) = Len(s) + Len(t)
      /\ (s \o t) \o u \in Seq(Byte) /\ Len((s \o t) \o u) = Len(s) + Len(t) + Len(u)
  BY <1>1, ConcatProperties
<1>3. \A i \in 1..Len(t) : (s \o t)[Len(s) + i] = t[i] /\ ((s \o t) \o u)[Len(s) + i] = t[i]
  <2> TAKE i \in 1..Len(t)
  <2>1. Len(s) + i \in 1..(Len(s) + Len(t)) /\ ~(Len(s) + i <= Len(s))
        /\ (Len(s) + i) - Len(s) = i
    BY <1>1
  <2>2. (s \o t)[Len(s) + i] = t[i]
    BY <2>1, ConcatProperties
  <2>3. Len(s) + i \in 1..(Len(s \o t) + Len(u)) /\ Len(s) + i <= Len(s \o t)
    BY <1>1, <1>2, <2>1
  <2>4. ((s \o t) \o u)[Len(s) + i] = (s \o t)[Len(s) + i]
    BY <1>2, <2>3, ConcatProperties
  <2> QED
    BY <2>2, <2>4
<1>4. ASSUME NEW v \in Seq(Byte), \A i \in 1..Len(t) : v[Len(s) + i] = t[i]
      PROVE  SubSeq(v, Len(s) + 1, Len(s) + Len(t)) = t
  <2> DEFINE p == SubSeq(v, Len(s) + 1, Len(s) + Len(t))
  <2>1. \A i \in (Len(s) + 1)..(Len(s) + Len(t)) : v[i] \in Byte
    <3> TAKE i \in (Len(s) + 1)..(Len(s) + Len(t))
    <3>1. i - Len(s) \in 1..Len(t) /\ i = Len(s) + (i - Len(s))
      BY <1>1
    <3>2. t[i - Len(s)] \in Byte
      BY <3>1, ElementOfSeq
    <3> QED
      BY <1>4, <3>1, <3>2
  <2>2. Len(s) + 1 \in Int /\ Len(s) + Len(t) \in Int
    BY <1>1
  <2>3. /\ p \in Seq(Byte)
        /\ Len(p) = IF Len(s) + 1 <= Len(s) + Len(t) THEN Len(s) + Len(t) - (Len(s) + 1) + 1 ELSE 0
        /\ \A i \in 1..(Len(s) + Len(t) - (Len(s) + 1) + 1) : p[i] = v[Len(s) + 1 + i - 1]
    BY <2>1, <2>2, SubSeqProperties
  <2>4. Len(p) = Len(t)
    BY <1>1, <2>3
  <2>5. \A i \in 1..Len(t) : p[i] = t[i]
    <3> TAKE i \in 1..Len(t)
    <3>1. i \in 1..(Len(s) + Len(t) - (Len(s) + 1) + 1) /\ Len(s) + 1 + i - 1 = Len(s) + i
      BY <1>1
    <3> QED
      BY <1>4, <2>3, <3>1
  <2> QED
    BY <2>3, <2>4, <2>5, SeqEqual
<1> QED
  BY <1>2, <1>3, <1>4

\* Where an id is in a message.
LEMMA IdPlaced ==
    ASSUME NEW id \in Nat, IsId(id), NEW f \in Nat, NEW t \in Seq(Nat)
    PROVE  IdAt((<<f>> \o WireId(id)) \o t, 2, id)
<1> DEFINE w == WireId(id)
           n == Digits(id)
<1>1. w \in Seq(Nat) /\ Len(w) = n /\ n \in Nat /\ <<f>> \in Seq(Nat) /\ Len(<<f>>) = 1
      /\ Len(t) \in Nat
  BY WireIdType, BytesAreNumbers, PowersOf
<1> HIDE DEF w, n
<1>2. <<f>> \o w \in Seq(Nat) /\ Len(<<f>> \o w) = 1 + n
  BY <1>1, ConcatProperties
<1>3. Len((<<f>> \o w) \o t) = 1 + n + Len(t)
  BY <1>2, ConcatProperties
<1>4. ASSUME NEW i \in 1..n
      PROVE  ((<<f>> \o w) \o t)[2 + i - 1] = w[i]
  <2>1. /\ 1 + i \in 1..(1 + n) /\ ~(1 + i <= 1) /\ (1 + i) - 1 = i /\ 2 + i - 1 = 1 + i
        /\ 1 + i \in 1..((1 + n) + Len(t)) /\ 1 + i <= 1 + n
    BY <1>1
  <2>2. (<<f>> \o w)[1 + i] = w[i]
    BY <1>1, <2>1, ConcatProperties
  <2>3. ((<<f>> \o w) \o t)[1 + i] = (<<f>> \o w)[1 + i]
    BY <1>2, <2>1, ConcatProperties
  <2> QED
    BY <2>1, <2>2, <2>3
<1> QED
  BY <1>1, <1>3, <1>4 DEF IdAt, w, n

-----------------------------------------------------------------------------
(* Reading a message.                                                      *)

Flags(m) == m.type * 2 + (IF m.zipped THEN 16 ELSE 0) + (IF m.error THEN 32 ELSE 0)
IdPart(m) == IF HasId(m.type) THEN WireId(m.id) ELSE <<>>
RoutePart(m) == IF HasRoute(m.type) THEN <<Len(m.route)>> \o m.route ELSE <<>>
BodyPart(m) == IF m.zipped THEN Deflated[m.data] ELSE m.data

\* A message in the protocol: flags, id, route and body.
LEMMA WireParts ==
    ASSUME NEW m
    PROVE  Wire(m) = ((<<Flags(m)>> \o IdPart(m)) \o RoutePart(m)) \o BodyPart(m)
  BY Zenon DEF Wire, Flags, IdPart, RoutePart, BodyPart

\* The messages that fit the format.
Fits(m) ==
    /\ m.type \in {REQUEST, NOTIFY, RESPONSE, PUSH}
    /\ m.id \in Nat /\ IsId(m.id)
    /\ m.error \in BOOLEAN /\ m.zipped \in BOOLEAN
    /\ m.route \in Seq(Byte) /\ m.data \in Seq(Byte)
    /\ m.zipped => m.data \in DOMAIN Deflated
    /\ ~HasId(m.type) => m.id = NoId
    /\ IF HasRoute(m.type) THEN Len(m.route) < Base ELSE m.route = NoRoute

\* The type and the flags of a message can be told from its first byte.
LEMMA FlagBits ==
    ASSUME NEW m, m.type \in {REQUEST, NOTIFY, RESPONSE, PUSH},
           m.error \in BOOLEAN, m.zipped \in BOOLEAN
    PROVE  /\ Flags(m) \in Byte
           /\ (Flags(m) \div 2) % 8 = m.type /\ Flags(m) % 2 = 0
           /\ ~Bit(Flags(m), 0)
           /\ Bit(Flags(m), 4) <=> m.zipped
           /\ Bit(Flags(m), 5) <=> m.error
<1>1. PICK t \in 0..3 : t = m.type
  BY DEF REQUEST, NOTIFY, RESPONSE, PUSH
<1>2. PICK z \in {0, 16} : z = (IF m.zipped THEN 16 ELSE 0)
  OBVIOUS
<1>3. PICK e \in {0, 32} : e = (IF m.error THEN 32 ELSE 0)
  OBVIOUS
<1>4. Flags(m) = t * 2 + z + e
  BY <1>1, <1>2, <1>3 DEF Flags
<1>5. /\ t * 2 + z + e \in 0..63
      /\ ((t * 2 + z + e) \div 2) % 8 = t
      /\ ((t * 2 + z + e) \div 1) % 2 # 1 /\ (t * 2 + z + e) % 2 = 0
      /\ ((t * 2 + z + e) \div 16) % 2 = 1 <=> z = 16
      /\ ((t * 2 + z + e) \div 32) % 2 = 1 <=> e = 32
  OBVIOUS
<1>6. Flags(m) \in Byte
  BY <1>4, <1>5, DigitRange DEF Byte
<1>7. \A f : /\ Bit(f, 0) <=> (f \div 1) % 2 = 1
             /\ Bit(f, 4) <=> (f \div 16) % 2 = 1
             /\ Bit(f, 5) <=> (f \div 32) % 2 = 1
  BY Powers, Zenon DEF Bit
<1>8. (z = 16 <=> m.zipped) /\ (e = 32 <=> m.error)
  BY <1>2, <1>3
<1> QED
  BY <1>1, <1>4, <1>5, <1>6, <1>7, <1>8

\* The parts of a message that fits are bytes.
LEMMA PartsType ==
    ASSUME NEW m, Fits(m)
    PROVE  /\ <<Flags(m)>> \in Seq(Byte) /\ Len(<<Flags(m)>>) = 1
           /\ IdPart(m) \in Seq(Byte)
           /\ RoutePart(m) \in Seq(Byte)
           /\ BodyPart(m) \in Seq(Byte)
           /\ m.zipped => Len(BodyPart(m)) > 0
<1>1. Flags(m) \in Byte
  BY FlagBits DEF Fits
<1>2. IdPart(m) \in Seq(Byte)
  BY WireIdType DEF Fits, IdPart
<1>3. RoutePart(m) \in Seq(Byte)
  <2>1. CASE HasRoute(m.type)
    <3>1. m.route \in Seq(Byte) /\ Len(m.route) \in Byte
      BY <2>1, DigitRange, LenProperties DEF Fits, Byte
    <3>2. <<Len(m.route)>> \in Seq(Byte)
      BY <3>1
    <3> QED
      BY <2>1, <3>1, <3>2, Join DEF RoutePart
  <2>2. CASE ~HasRoute(m.type)
    BY <2>2 DEF RoutePart
  <2> QED
    BY <2>1, <2>2
<1>4. BodyPart(m) \in Seq(Byte) /\ (m.zipped => BodyPart(m) # <<>>)
  BY MessagesAssumption DEF Fits, BodyPart
<1>5. m.zipped => Len(BodyPart(m)) > 0
  BY <1>4, LenProperties, EmptySeq
<1> QED
  BY <1>1, <1>2, <1>3, <1>4, <1>5

\* A message comes out of the decoder as it was meant.
LEMMA Decoded ==
    ASSUME NEW m, Fits(m)
    PROVE  Wire(m) \in Seq(Byte) /\ DecodeMsg(Wire(m)) = {Meant(m)}
<1> DEFINE f == <<Flags(m)>>
           i == IdPart(m)
           r == RoutePart(m)
           b == BodyPart(m)
           data == Wire(m)
<1>1. /\ f \in Seq(Byte) /\ i \in Seq(Byte) /\ r \in Seq(Byte) /\ b \in Seq(Byte)
      /\ Len(f) = 1 /\ f[1] = Flags(m) /\ (m.zipped => Len(b) > 0)
  BY PartsType
<1>2. data = ((f \o i) \o r) \o b
  BY WireParts
<1> HIDE DEF f, i, r, b, data
<1>3. Len(i) \in Nat /\ Len(r) \in Nat /\ Len(b) \in Nat
  BY <1>1, LenProperties
<1>4. f \o i \in Seq(Byte) /\ Len(f \o i) = 1 + Len(i)
  BY <1>1, Join, ZenonT(60)
<1>5. (f \o i) \o r \in Seq(Byte) /\ Len((f \o i) \o r) = (1 + Len(i)) + Len(r)
  BY <1>1, <1>4, Join
<1>6. data \in Seq(Byte) /\ Len(data) = ((1 + Len(i)) + Len(r)) + Len(b)
  BY <1>1, <1>2, <1>5, Join
<1>7. Len(data) = 1 + Len(i) + Len(r) + Len(b)
  BY <1>3, <1>6
<1>8. data[1] = Flags(m)
  <2>1. /\ 1 \in 1..(1 + Len(i)) /\ 1 <= 1 + Len(i)
        /\ 1 \in 1..((1 + Len(i)) + Len(r)) /\ 1 <= (1 + Len(i)) + Len(r)
        /\ 1 \in 1..(((1 + Len(i)) + Len(r)) + Len(b)) /\ 1 <= 1
    BY <1>3
  <2>2. (f \o i)[1] = f[1]
    BY <1>1, <2>1, ConcatProperties
  <2>3. ((f \o i) \o r)[1] = (f \o i)[1]
    BY <1>1, <1>4, <2>1, ConcatProperties
  <2>4. data[1] = ((f \o i) \o r)[1]
    BY <1>1, <1>2, <1>5, <2>1, ConcatProperties
  <2> QED
    BY <1>1, <2>2, <2>3, <2>4
<1>9. /\ (data[1] \div 2) % 8 = m.type /\ ~Bit(data[1], 0)
      /\ Bit(data[1], 4) <=> m.zipped
      /\ Bit(data[1], 5) <=> m.error
  BY <1>8, FlagBits DEF Fits
<1>10. m.type \in 0..PUSH /\ data # <<>>
  BY <1>3, <1>7, EmptySeq DEF Fits, REQUEST, NOTIFY, RESPONSE, PUSH
<1>11. HasId(m.type) => DecodeId(data, 2) = [id |-> m.id, next |-> 2 + Len(i)]
  <2> SUFFICES ASSUME HasId(m.type)
               PROVE  DecodeId(data, 2) = [id |-> m.id, next |-> 2 + Len(i)]
    OBVIOUS
  <2>1. m.id \in Nat /\ IsId(m.id) /\ i = WireId(m.id) /\ Len(i) = Digits(m.id)
    BY WireIdType DEF Fits, IdPart, i
  <2>2. data = (<<Flags(m)>> \o WireId(m.id)) \o (r \o b)
    BY <1>1, <1>2, <1>4, <2>1, Assoc, ZenonT(60) DEF f
  <2>3. Flags(m) \in Nat /\ r \o b \in Seq(Nat)
    <3>1. r \o b \in Seq(Byte) /\ Flags(m) \in Byte
      BY <1>1, Join, FlagBits DEF Fits
    <3> QED
      BY <3>1, BytesAreNumbers, DigitRange DEF Byte
  <2>4. IdAt(data, 2, m.id)
    BY <2>1, <2>2, <2>3, IdPlaced
  <2> QED
    BY <1>6, <2>1, <2>4, IdRead
<1>12. ~HasId(m.type) => m.id = NoId /\ Len(i) = 0
  BY EmptySeq DEF Fits, IdPart, i
<1> DEFINE first == IF HasId(m.type) THEN DecodeId(data, 2) ELSE [id |-> NoId, next |-> 2]
<1>13. first = [id |-> m.id, next |-> 2 + Len(i)]
  BY <1>11, <1>12
<1> HIDE DEF first
<1> DEFINE at == 2 + Len(i)
           next == at + Len(r)
<1>14. DecodeRoute(data, at, m.type) = {[route |-> m.route, next |-> next]}
  <2>1. CASE ~HasRoute(m.type)
    <3>1. m.route = NoRoute /\ Len(r) = 0 /\ next = at
      BY <1>3, <2>1, EmptySeq DEF Fits, RoutePart, r
    <3>2. DecodeRoute(data, at, m.type) = {[route |-> NoRoute, next |-> at]}
      BY <1>9, <2>1 DEF DecodeRoute
    <3> QED
      BY <3>1, <3>2
  <2>2. CASE HasRoute(m.type)
    <3>1. m.route \in Seq(Byte) /\ Len(m.route) \in Byte /\ Len(m.route) \in Nat
      BY <2>2, DigitRange, LenProperties DEF Fits, Byte
    <3> DEFINE l == <<Len(m.route)>>
               route == m.route
    <3>2. l \in Seq(Byte) /\ Len(l) = 1 /\ l[1] = Len(route) /\ r = l \o route
      BY <2>2, <3>1 DEF RoutePart, r
    <3> HIDE DEF l
    <3>3. Len(r) = 1 + Len(route)
      BY <3>1, <3>2, Join
    <3>4. data = ((f \o i) \o l) \o (route \o b)
      <4>1. (f \o i) \o (l \o route) = ((f \o i) \o l) \o route
        BY <1>4, <3>1, <3>2, Assoc
      <4>2. (f \o i) \o l \in Seq(Byte)
        BY <1>4, <3>2, Join
      <4>3. (((f \o i) \o l) \o route) \o b = ((f \o i) \o l) \o (route \o b)
        BY <1>1, <3>1, <4>2, Assoc, ZenonT(60)
      <4> QED
        BY <1>2, <3>2, <4>1, <4>3
    <3>5. (f \o i) \o l \in Seq(Byte) /\ Len((f \o i) \o l) = (1 + Len(i)) + 1
      BY <1>4, <3>2, Join
    <3>6. at \in Nat /\ at = (1 + Len(i)) + 1 /\ at - (1 + Len(i)) = 1 /\ ~(at <= 1 + Len(i))
          /\ at \in 1..((1 + Len(i)) + 1)
      BY <1>3
    <3> HIDE DEF at
    <3>7. data[at] = Len(route)
      <4>1. ((f \o i) \o l)[at] = l[1]
        BY <1>4, <3>2, <3>6, ConcatProperties
      <4>2. route \o b \in Seq(Byte)
        BY <1>1, <3>1, Join
      <4>3. Len(route \o b) \in Nat
        BY <4>2, LenProperties
      <4>4. \A x, y \in Nat : (1 + x) + 1 \in 1..(((1 + x) + 1) + y) /\ (1 + x) + 1 <= (1 + x) + 1
        OBVIOUS
      <4>5. at \in 1..(((1 + Len(i)) + 1) + Len(route \o b)) /\ at <= (1 + Len(i)) + 1
        BY <1>3, <3>6, <4>3, <4>4, Zenon
      <4>6. data[at] = ((f \o i) \o l)[at]
        BY <3>4, <3>5, <4>2, <4>5, ConcatProperties
      <4> QED
        BY <3>2, <4>1, <4>6
    <3>8. ~(at > Len(data)) /\ ~(data[at] >= Len(data))
      <4>1. \A x, y, z \in Nat : /\ ~(2 + x > 1 + x + (1 + y) + z)
                                 /\ ~(y >= 1 + x + (1 + y) + z)
        OBVIOUS
      <4>2. at = 2 + Len(i)
        BY DEF at
      <4>3. Len(data) = 1 + Len(i) + (1 + Len(route)) + Len(b)
        BY <1>7, <3>3, Zenon
      <4>4. /\ ~(2 + Len(i) > 1 + Len(i) + (1 + Len(route)) + Len(b))
            /\ ~(Len(route) >= 1 + Len(i) + (1 + Len(route)) + Len(b))
        BY <1>3, <3>1, <4>1, Zenon
      <4> QED
        BY <3>7, <4>2, <4>3, <4>4, Zenon
    <3>9. SubSeq(data, at + 1, at + data[at]) = route
      <4>1. data = (((f \o i) \o l) \o route) \o b
        BY <1>1, <3>1, <3>4, <3>5, Assoc, ZenonT(60)
      <4>2. Len((f \o i) \o l) = at
        BY <3>6, <3>5
      <4>3. SubSeq((((f \o i) \o l) \o route) \o b, at + 1, at + Len(route)) = route
        BY <1>1, <3>1, <3>5, <4>2, Part, ZenonT(60)
      <4> QED
        BY <3>7, <4>1, <4>3
    <3>10. at + 1 + data[at] = next
      <4>1. \A x, y \in Nat : x + 1 + y = x + (1 + y)
        OBVIOUS
      <4>2. at + 1 + Len(route) = at + (1 + Len(route))
        BY <3>1, <3>6, <4>1, Zenon
      <4> QED
        BY <3>3, <3>7, <4>2, Zenon
    <3>11. PlainRoute(data, at) = {[route |-> m.route, next |-> next]}
      BY <3>8, <3>9, <3>10, Zenon DEF PlainRoute
    <3> QED
      BY <1>9, <2>2, <3>11 DEF DecodeRoute
  <2> QED
    BY <2>1, <2>2
<1>15. DecodeBody(data, next) = {m.data}
  <2>1. next = Len((f \o i) \o r) + 1 /\ next \in Nat
    BY <1>3, <1>5
  <2>2. From(data, next) = b
    BY <1>1, <1>2, <1>5, <2>1, Part DEF From
  <2>3. CASE m.zipped
    <3>1. next <= Len(data)
      <4>1. Len(b) > 0 /\ next = 2 + Len(i) + Len(r)
        BY <1>1, <2>3
      <4> QED
        BY <1>7, <1>3, <4>1
    <3>2. b = Deflated[m.data] /\ m.data \in DOMAIN Deflated
      BY <2>3 DEF b, BodyPart, Fits
    <3>3. Inflate(b) = {m.data}
      BY <3>2, MessagesAssumption DEF Inflate
    <3> QED
      BY <1>9, <2>2, <2>3, <3>1, <3>3 DEF DecodeBody
  <2>4. CASE ~m.zipped
    <3>1. b = m.data
      BY <2>4 DEF b, BodyPart
    <3> QED
      BY <1>9, <2>2, <2>4, <3>1 DEF DecodeBody
  <2> QED
    BY <2>3, <2>4
<1> HIDE DEF at, next
<1>16. DecodeMsg(data) =
         UNION {{[id |-> first.id, error |-> Bit(data[1], 5), route |-> q.route, data |-> d] :
                   d \in DecodeBody(data, q.next)} :
                  q \in DecodeRoute(data, first.next, m.type)}
  <2> DEFINE Decodes(type) ==
                IF data = <<>> \/ type > PUSH THEN {}
                ELSE UNION {{[id |-> (IF HasId(type) THEN DecodeId(data, 2)
                                      ELSE [id |-> NoId, next |-> 2]).id,
                              error |-> Bit(data[1], 5), route |-> q.route, data |-> d] :
                               d \in DecodeBody(data, q.next)} :
                              q \in DecodeRoute(data, (IF HasId(type) THEN DecodeId(data, 2)
                                                       ELSE [id |-> NoId, next |-> 2]).next,
                                                type)}
  <2>1. DecodeMsg(data) = Decodes((data[1] \div 2) % 8)
    BY Zenon DEF DecodeMsg
  <2>2. ~(data = <<>> \/ m.type > PUSH)
    BY <1>10 DEF PUSH
  <2>3. Decodes(m.type) =
         UNION {{[id |-> first.id, error |-> Bit(data[1], 5), route |-> q.route, data |-> d] :
                   d \in DecodeBody(data, q.next)} :
                  q \in DecodeRoute(data, first.next, m.type)}
    BY <2>2, Zenon DEF first
  <2> HIDE DEF Decodes
  <2> QED
    BY <1>9, <2>1, <2>3, Zenon
<1>17. DecodeMsg(data) = {[id |-> m.id, error |-> m.error, route |-> m.route, data |-> m.data]}
  <2>1. first.id = m.id /\ first.next = at
    BY <1>13 DEF at
  <2>2. Bit(data[1], 5) = m.error
    BY <1>9 DEF Fits, Bit
  <2>3. DecodeMsg(data) =
         UNION {{[id |-> m.id, error |-> m.error, route |-> q.route, data |-> d] :
                   d \in DecodeBody(data, q.next)} :
                  q \in {[route |-> m.route, next |-> next]}}
    BY <1>14, <1>16, <2>1, <2>2
  <2>4. DecodeMsg(data) = {[id |-> m.id, error |-> m.error, route |-> m.route, data |-> d] :
                             d \in DecodeBody(data, next)}
    BY <2>3
  <2> QED
    BY <1>15, <2>4
<1> QED
  BY <1>17, <1>6 DEF Meant, data

-----------------------------------------------------------------------------
(* What the client writes.                                                 *)

AskType(m) == IF m.id = NoId THEN NOTIFY ELSE REQUEST

\* The protocol's message for a request or a notify.
Asked(m, zipped) ==
    [type |-> AskType(m), id |-> m.id, error |-> FALSE, route |-> m.route, data |-> m.data,
     zipped |-> zipped]

\* Understood, by that name.
LEMMA UnderstoodIs ==
    ASSUME NEW bytes
    PROVE  Understood(bytes) =
             {m \in Asks : \E zipped \in {FALSE} \cup {m.data \in DOMAIN Deflated} :
                             bytes = Wire(Asked(m, zipped))}
  BY Zenon DEF Understood, Asked, AskType

\* What a request or a notify is,
LEMMA AskFields ==
    ASSUME NEW m \in Asks
    PROVE  /\ m.id \in Nat /\ IsId(m.id) /\ m.route \in Seq(Byte) /\ m.data \in Seq(Byte)
           /\ m = [id |-> m.id, route |-> m.route, data |-> m.data]
           /\ AskType(m) \in {REQUEST, NOTIFY}
           /\ HasId(AskType(m)) <=> m.id # NoId
           /\ HasRoute(AskType(m))
<1>1. m \in [id : Nat, route : Seq(Byte), data : Seq(Byte)]
  BY MessagesAssumption
<1>2. IsId(m.id)
  BY IdsKnown
<1> QED
  BY <1>1, <1>2 DEF AskType, HasId, HasRoute, REQUEST, NOTIFY, RESPONSE

\* and its message.
LEMMA AskedFields ==
    ASSUME NEW m \in Asks, NEW z \in {FALSE} \cup {m.data \in DOMAIN Deflated}
    PROVE  /\ Asked(m, z).type = AskType(m) /\ Asked(m, z).id = m.id
           /\ Asked(m, z).error = FALSE /\ Asked(m, z).zipped = z /\ z \in BOOLEAN
           /\ Asked(m, z).route = m.route /\ Asked(m, z).data = m.data
           /\ z => m.data \in DOMAIN Deflated
           /\ Len(m.route) < Base => Fits(Asked(m, z))
<1>1. z \in BOOLEAN /\ (z => m.data \in DOMAIN Deflated)
  <2>1. CASE m.data \in DOMAIN Deflated
    <3>1. (m.data \in DOMAIN Deflated) = TRUE
      BY <2>1
    <3>2. z \in {FALSE, TRUE}
      BY <3>1, Zenon
    <3> QED
      BY <2>1, <3>2
  <2>2. CASE m.data \notin DOMAIN Deflated
    <3>1. (m.data \in DOMAIN Deflated) = FALSE
      BY <2>2
    <3>2. z \in {FALSE}
      BY <3>1, Zenon
    <3> QED
      BY <3>2
  <2> QED
    BY <2>1, <2>2
<1>2. /\ Asked(m, z).type = AskType(m) /\ Asked(m, z).id = m.id
      /\ Asked(m, z).error = FALSE /\ Asked(m, z).zipped = z
      /\ Asked(m, z).route = m.route /\ Asked(m, z).data = m.data
  BY DEF Asked
<1> QED
  BY <1>1, <1>2, AskFields DEF Fits

\* The encoder's first byte holds its flags, and the type can be told from it.
LEMMA FlagType ==
    ASSUME NEW t \in {REQUEST, NOTIFY}, NEW c \in 0..1, NEW z \in 0..1
    PROVE  /\ Flag(t, c, z) = t * 2 + c + z * 16
           /\ Flag(t, c, z) \in Byte
           /\ (Flag(t, c, z) \div 2) % 8 = t
<1>1. t \in 0..1
  BY DEF REQUEST, NOTIFY
<1>2. t * 2 + c + z * 16 \in 0..63
  BY <1>1
<1>3. \A x \in 0..63 : x % Base = x /\ x \in Byte
  BY DigitRange DEF Byte
<1>4. ((t * 2 + c + z * 16) \div 2) % 8 = t
  BY <1>1
<1> QED
  BY <1>2, <1>3, <1>4 DEF Flag

AskBytes(m) == IF Shrinks(m.data) THEN Deflated[m.data] ELSE m.data

\* What EncodeMsg's result begins with; a route's code makes the first byte odd.
LEMMA EncodeHead ==
    ASSUME NEW m \in Asks
    PROVE  \E f \in Byte, t \in Seq(Byte) :
             /\ (f \div 2) % 8 = AskType(m) \/ f % 2 = 1
             /\ EncodeMsg(m) = (<<f>> \o OptionalId(AskType(m), m.id)) \o t
<1> DEFINE i == OptionalId(AskType(m), m.id)
           z == IF Shrinks(m.data) THEN 1 ELSE 0
           b == AskBytes(m)
<1>1. i \in Seq(Byte)
  BY AskFields, EncodeIdIsWireId, WireIdType DEF OptionalId
<1>2. b \in Seq(Byte) /\ z \in 0..1
  BY AskFields, MessagesAssumption DEF AskBytes, Shrinks
<1> HIDE DEF i, b, z
<1>3. ASSUME NEW f \in Byte, NEW r \in Seq(Byte),
             EncodeMsg(m) = ((<<f>> \o i) \o r) \o b
      PROVE  \E t \in Seq(Byte) :  EncodeMsg(m) = (<<f>> \o i) \o t
  <2>1. <<f>> \in Seq(Byte)
    OBVIOUS
  <2>2. <<f>> \o i \in Seq(Byte) /\ r \o b \in Seq(Byte)
    BY <1>1, <1>2, <2>1, Join
  <2>3. EncodeMsg(m) = (<<f>> \o i) \o (r \o b)
    BY <1>2, <1>3, <2>2, Assoc
  <2> QED
    BY <2>2, <2>3
<1>4. CASE m.route \in DOMAIN Dict /\ Dict[m.route] > 0
  <2> DEFINE f == Flag(AskType(m), 1, Dict[m.route])
             r == <<(z \div Base) % Base, z % Base>>
  <2>1. f \in Byte /\ f % 2 = 1
    <3>1. PICK n \in Nat : n = AskType(m) * 2 + 1 + Dict[m.route] * 16 /\ n % 2 = 1
      <4>1. AskType(m) \in Nat /\ Dict[m.route] \in Nat
        BY <1>4, AskFields, SessionAssumption DEF REQUEST, NOTIFY
      <4>2. \A x, y \in Nat : x * 2 + 1 + y * 16 \in Nat /\ (x * 2 + 1 + y * 16) % 2 = 1
        OBVIOUS
      <4> QED
        BY <4>1, <4>2, Zenon
    <3>2. n % Base \in Byte
      BY DigitRange DEF Byte
    <3>3. n = Base * (n \div Base) + (n % Base)
      <4>1. Base \in Int /\ Base > 0 /\ n \in Int
        BY DigitRange
      <4> QED
        BY <4>1, Division, Zenon
    <3>4. n % Base \in Nat /\ n \div Base \in Nat
      BY DigitRange
    <3>5. \A d, q \in Nat : (2 * d) * q = 2 * (d * q) /\ d * q \in Nat
      OBVIOUS
    <3>6. PICK k \in Nat : Base * (n \div Base) = 2 * k
      BY DigitRange, <3>4, <3>5
    <3>7. (n % Base) % 2 = 1
      <4>1. \A x, y \in Nat : (2 * x + y) % 2 = y % 2
        OBVIOUS
      <4> QED
        BY <3>1, <3>3, <3>4, <3>6, <4>1
    <3>8. f = n % Base
      BY <3>1 DEF Flag
    <3> QED
      BY <3>2, <3>7, <3>8
  <2>2. z \in Nat
    BY <1>2
  <2>3. \A x \in Nat : x % Base \in Byte /\ x \div Base \in Nat
    BY DigitRange DEF Byte
  <2>4. r \in Seq(Byte)
    BY <2>2, <2>3
  <2>5. EncodeMsg(m) = ((<<f>> \o i) \o r) \o b
    BY <1>4, Zenon DEF EncodeMsg, WithCode, AskType, AskBytes, i, z, b
  <2> HIDE DEF f, r
  <2> QED
    BY <1>3, <2>1, <2>4, <2>5, Zenon DEF i
<1>5. CASE ~(m.route \in DOMAIN Dict /\ Dict[m.route] > 0)
  <2> DEFINE f == Flag(AskType(m), 0, z)
             r == EncodeRoute(m.route)
  <2>1. f \in Byte /\ (f \div 2) % 8 = AskType(m)
    BY <1>2, AskFields, FlagType
  <2>2. r \in Seq(Byte)
    <3>1. m.route \in Seq(Byte) /\ Len(m.route) \in Nat
      BY AskFields, LenProperties
    <3>2. \A x \in Nat : x % Base \in Byte
      BY DigitRange DEF Byte
    <3>3. <<Len(m.route) % Base>> \in Seq(Byte)
      BY <3>1, <3>2
    <3> QED
      BY <3>1, <3>3, Join DEF EncodeRoute
  <2>3. EncodeMsg(m) = ((<<f>> \o i) \o r) \o b
    BY <1>5, Zenon DEF EncodeMsg, WithRoute, AskType, AskBytes, i, z, b
  <2> HIDE DEF f, r
  <2> QED
    BY <1>3, <2>1, <2>2, <2>3 DEF i
<1> QED
  BY <1>4, <1>5

\* A route outside the dictionary, of a length that a byte holds, is written as the
\* protocol asks.
LEMMA EncodeMsgIsWire ==
    ASSUME NEW m \in Asks, m.route \notin DOMAIN Dict, Len(m.route) < Base
    PROVE  EncodeMsg(m) = Wire(Asked(m, Shrinks(m.data)))
<1> DEFINE t == AskType(m)
           z == IF Shrinks(m.data) THEN 1 ELSE 0
           x == Asked(m, Shrinks(m.data))
<1>1. /\ t \in {REQUEST, NOTIFY} /\ z \in 0..1 /\ HasRoute(t)
      /\ m.id \in Nat /\ IsId(m.id) /\ Len(m.route) \in 0..(Base - 1)
  BY AskFields, LenProperties, DigitRange
<1>2. EncodeMsg(m) = ((<<Flag(t, 0, z)>> \o OptionalId(t, m.id)) \o EncodeRoute(m.route))
                       \o AskBytes(m)
  BY Zenon DEF EncodeMsg, WithRoute, AskType, AskBytes
<1>3. /\ x.type = t /\ x.id = m.id /\ x.error = FALSE /\ x.zipped = Shrinks(m.data)
      /\ x.route = m.route /\ x.data = m.data
  BY DEF Asked
<1>4. Flag(t, 0, z) = Flags(x)
  <2>1. Flag(t, 0, z) = t * 2 + 0 + z * 16
    BY <1>1, FlagType
  <2>2. t \in 0..1
    BY <1>1 DEF REQUEST, NOTIFY
  <2>3. Flags(x) = t * 2 + (IF Shrinks(m.data) THEN 16 ELSE 0) + 0
    BY <1>3 DEF Flags
  <2> HIDE DEF t, x
  <2> QED
    BY <2>1, <2>2, <2>3
<1>5. OptionalId(t, m.id) = IdPart(x)
  BY <1>1, <1>3, EncodeIdIsWireId DEF OptionalId, IdPart
<1>6. EncodeRoute(m.route) = RoutePart(x)
  <2>1. \A l \in 0..(Base - 1) : l % Base = l
    BY DigitRange
  <2>2. Len(m.route) % Base = Len(m.route)
    BY <1>1, <2>1
  <2> QED
    BY <1>1, <1>3, <2>2 DEF EncodeRoute, RoutePart
<1>7. AskBytes(m) = BodyPart(x)
  BY <1>3 DEF AskBytes, BodyPart
<1> HIDE DEF t, z, x
<1>8. EncodeMsg(m) = Wire(x)
  BY <1>2, <1>4, <1>5, <1>6, <1>7, WireParts
<1> QED
  BY <1>8 DEF x

\* The beginning of the bytes of a request or a notify in the protocol, and a route
\* whose length no byte holds.
LEMMA WireHead ==
    ASSUME NEW m \in Asks, NEW z \in {FALSE} \cup {m.data \in DOMAIN Deflated}
    PROVE  /\ \E f \in Byte, t \in Seq(Nat) :
                /\ (f \div 2) % 8 = AskType(m) /\ f % 2 = 0
                /\ Wire(Asked(m, z)) = (<<f>> \o IdPart(Asked(m, z))) \o t
           /\ Wire(Asked(m, z)) \in Seq(Byte) => Len(m.route) < Base
<1> DEFINE x == Asked(m, z)
           i == IdPart(x)
           f == Flags(x)
           b == BodyPart(x)
           l == <<Len(m.route)>>
<1>1. /\ x.type = AskType(m) /\ x.id = m.id /\ x.error = FALSE /\ x.zipped = z
      /\ z \in BOOLEAN /\ x.route = m.route /\ x.data = m.data
      /\ z => m.data \in DOMAIN Deflated
  BY AskedFields
<1>2. /\ m.id \in Nat /\ IsId(m.id) /\ m.route \in Seq(Byte) /\ m.data \in Seq(Byte)
      /\ AskType(m) \in {REQUEST, NOTIFY} /\ HasRoute(AskType(m))
  BY AskFields
<1> HIDE DEF x
<1>3. f \in Byte /\ (f \div 2) % 8 = AskType(m) /\ f % 2 = 0
  <2>1. x.error \in BOOLEAN
    BY <1>1, Zenon
  <2>2. x.zipped \in BOOLEAN
    BY <1>1, Zenon
  <2>3. x.type \in {REQUEST, NOTIFY, RESPONSE, PUSH}
    BY <1>1, <1>2
  <2>4. f \in Byte /\ (f \div 2) % 8 = x.type /\ f % 2 = 0
    BY <2>1, <2>2, <2>3, FlagBits
  <2> QED
    BY <1>1, <2>4
<1>4. i \in Seq(Nat)
  <2>1. i \in Seq(Byte)
    BY <1>1, <1>2, WireIdType DEF IdPart
  <2> QED
    BY <2>1, BytesAreNumbers
<1>5. b \in Seq(Nat)
  <2>1. b \in Seq(Byte)
    BY <1>1, <1>2, MessagesAssumption DEF BodyPart
  <2> QED
    BY <2>1, BytesAreNumbers
<1>6. m.route \in Seq(Nat) /\ Len(m.route) \in Nat
  BY <1>2, BytesAreNumbers, LenProperties
<1>7. Wire(x) = ((<<f>> \o i) \o (l \o m.route)) \o b
  BY <1>1, <1>2, WireParts DEF RoutePart
<1> HIDE DEF i, f, b
<1>8. l \in Seq(Nat) /\ Len(l) = 1 /\ l[1] = Len(m.route)
  BY <1>6
<1> HIDE DEF l
<1>9. <<f>> \in Seq(Nat)
  BY <1>3, DigitRange DEF Byte
<1>10. \A s, t \in Seq(Nat) : s \o t \in Seq(Nat) /\ Len(s \o t) = Len(s) + Len(t)
  BY ConcatProperties, SMTT(30)
<1>11. \A s, t, u \in Seq(Nat) : (s \o t) \o u = s \o (t \o u)
  BY ConcatAssociative, SMTT(30)
<1>12. <<f>> \o i \in Seq(Nat) /\ l \o m.route \in Seq(Nat) /\ (l \o m.route) \o b \in Seq(Nat)
       /\ m.route \o b \in Seq(Nat)
  BY <1>4, <1>5, <1>6, <1>8, <1>9, <1>10
<1>13. Wire(x) = (<<f>> \o i) \o ((l \o m.route) \o b)
  BY <1>5, <1>7, <1>11, <1>12, ZenonT(60)
<1>14. (l \o m.route) \o b = l \o (m.route \o b)
  BY <1>5, <1>6, <1>8, <1>11
<1>15. Wire(x) \in Seq(Byte) => Len(m.route) < Base
  <2> DEFINE p == <<f>> \o i
             q == m.route \o b
  <2>1. p \in Seq(Nat) /\ q \in Seq(Nat) /\ Wire(x) = p \o (l \o q)
    BY <1>12, <1>13, <1>14
  <2> HIDE DEF p, q
  <2>2. Len(p) \in Nat /\ Len(q) \in Nat
    BY <2>1, LenProperties
  <2>3. l \o q \in Seq(Nat) /\ Len(l \o q) = 1 + Len(q)
    BY <1>8, <1>10, <2>1
  <2>4. /\ Len(p) + 1 \in 1..(Len(p) + (1 + Len(q))) /\ ~(Len(p) + 1 <= Len(p))
        /\ (Len(p) + 1) - Len(p) = 1 /\ 1 \in 1..(1 + Len(q)) /\ 1 <= 1
    BY <2>2
  <2>5. (l \o q)[1] = l[1]
    BY <1>8, <2>1, <2>4, ConcatProperties
  <2>6. Len(p \o (l \o q)) = Len(p) + (1 + Len(q))
    <3>1. Len(p \o (l \o q)) = Len(p) + Len(l \o q)
      BY <1>10, <2>1, <2>3, Zenon
    <3> QED
      BY <2>3, <3>1, Zenon
  <2>7. (p \o (l \o q))[Len(p) + 1] = (l \o q)[1]
    BY <2>1, <2>3, <2>4, ConcatProperties
  <2>8. Wire(x)[Len(p) + 1] = Len(m.route) /\ Len(Wire(x)) = Len(p) + (1 + Len(q))
    BY <1>8, <2>1, <2>5, <2>6, <2>7, Zenon
  <2>9. ASSUME Wire(x) \in Seq(Byte)
        PROVE  Len(m.route) < Base
    <3>1. Len(m.route) \in Byte
      BY <2>4, <2>8, <2>9, ElementOfSeq
    <3> QED
      BY <3>1, DigitRange DEF Byte
  <2> QED
    BY <2>9
<1> QED
  BY <1>3, <1>12, <1>13, <1>15 DEF x, i

\* What was written can only be understood under the id it was written for.
LEMMA SameId ==
    ASSUME NEW m \in Asks, NEW ask \in Understood(EncodeMsg(m))
    PROVE  ask.id = m.id
<1>1. PICK z \in {FALSE} \cup {ask.data \in DOMAIN Deflated} :
        ask \in Asks /\ EncodeMsg(m) = Wire(Asked(ask, z))
  BY UnderstoodIs
<1>2. PICK f \in Byte, t \in Seq(Byte) :
        /\ (f \div 2) % 8 = AskType(m) \/ f % 2 = 1
        /\ EncodeMsg(m) = (<<f>> \o OptionalId(AskType(m), m.id)) \o t
  BY EncodeHead
<1>3. PICK g \in Byte, u \in Seq(Nat) :
        /\ (g \div 2) % 8 = AskType(ask) /\ g % 2 = 0
        /\ EncodeMsg(m) = (<<g>> \o IdPart(Asked(ask, z))) \o u
  BY <1>1, WireHead, ZenonT(60)
<1>4. /\ m.id \in Nat /\ IsId(m.id) /\ (HasId(AskType(m)) <=> m.id # NoId)
      /\ ask.id \in Nat /\ IsId(ask.id) /\ (HasId(AskType(ask)) <=> ask.id # NoId)
  BY <1>1, AskFields
<1>5. /\ Asked(ask, z).type = AskType(ask) /\ Asked(ask, z).id = ask.id
  BY <1>1, AskedFields
<1>6. f = g
  <2>1. OptionalId(AskType(m), m.id) \in Seq(Nat) /\ IdPart(Asked(ask, z)) \in Seq(Nat)
    <3>1. OptionalId(AskType(m), m.id) \in Seq(Byte)
      BY <1>4, EncodeIdIsWireId, WireIdType DEF OptionalId
    <3>2. IdPart(Asked(ask, z)) \in Seq(Byte)
      BY <1>4, <1>5, WireIdType DEF IdPart
    <3> QED
      BY <3>1, <3>2, BytesAreNumbers
  <2>2. t \in Seq(Nat) /\ f \in Nat /\ g \in Nat
    BY BytesAreNumbers, DigitRange DEF Byte
  <2>3. ASSUME NEW h \in Nat, NEW v \in Seq(Nat), NEW w \in Seq(Nat)
        PROVE  ((<<h>> \o v) \o w)[1] = h
    <3>1. <<h>> \in Seq(Nat) /\ Len(<<h>>) = 1 /\ <<h>>[1] = h /\ Len(v) \in Nat
          /\ Len(w) \in Nat
      BY LenProperties
    <3>2. /\ 1 \in 1..(1 + Len(v)) /\ 1 <= 1 /\ 1 <= 1 + Len(v)
          /\ 1 \in 1..((1 + Len(v)) + Len(w))
      BY <3>1
    <3>3. <<h>> \o v \in Seq(Nat) /\ Len(<<h>> \o v) = 1 + Len(v) /\ (<<h>> \o v)[1] = h
      BY <3>1, <3>2, ConcatProperties
    <3> QED
      BY <3>2, <3>3, ConcatProperties
  <2>4. EncodeMsg(m)[1] = f
    BY <1>2, <2>1, <2>2, <2>3
  <2>5. EncodeMsg(m)[1] = g
    BY <1>3, <2>1, <2>2, <2>3
  <2> QED
    BY <2>4, <2>5
<1>7. AskType(m) = AskType(ask)
  BY <1>2, <1>3, <1>6
<1>8. CASE m.id = NoId
  BY <1>4, <1>7, <1>8
<1>9. CASE m.id # NoId
  <2>1. OptionalId(AskType(m), m.id) = WireId(m.id) /\ IdPart(Asked(ask, z)) = WireId(ask.id)
    BY <1>4, <1>5, <1>7, <1>9, EncodeIdIsWireId DEF OptionalId, IdPart
  <2>2. t \in Seq(Nat) /\ f \in Nat /\ g \in Nat
    BY BytesAreNumbers, DigitRange DEF Byte
  <2>3. IdAt(EncodeMsg(m), 2, m.id)
    BY <1>2, <1>4, <2>1, <2>2, IdPlaced
  <2>4. IdAt(EncodeMsg(m), 2, ask.id)
    BY <1>3, <1>4, <2>1, <2>2, IdPlaced
  <2>5. EncodeMsg(m) \in Seq(Byte)
    <3>1. WireId(m.id) \in Seq(Byte) /\ <<f>> \in Seq(Byte)
      BY <1>4, WireIdType
    <3>2. <<f>> \o WireId(m.id) \in Seq(Byte)
      BY <3>1, Join
    <3> QED
      BY <1>2, <2>1, <3>2, Join
  <2>6. /\ DecodeId(EncodeMsg(m), 2) = [id |-> m.id, next |-> 2 + Digits(m.id)]
        /\ DecodeId(EncodeMsg(m), 2) = [id |-> ask.id, next |-> 2 + Digits(ask.id)]
    BY <1>4, <2>3, <2>4, <2>5, IdRead
  <2> DEFINE d == DecodeId(EncodeMsg(m), 2)
  <2>7. d.id = m.id /\ d.id = ask.id
    BY <2>6
  <2> QED
    BY <2>7
<1> QED
  BY <1>8, <1>9

\* What the client writes are bytes.
LEMMA EncodeMsgType == \A m \in Asks : EncodeMsg(m) \in Seq(Byte)
<1> TAKE m \in Asks
<1>1. PICK f \in Byte, t \in Seq(Byte) :
        EncodeMsg(m) = (<<f>> \o OptionalId(AskType(m), m.id)) \o t
  BY EncodeHead
<1>2. OptionalId(AskType(m), m.id) \in Seq(Byte) /\ <<f>> \in Seq(Byte)
  BY AskFields, EncodeIdIsWireId, WireIdType DEF OptionalId
<1>3. <<f>> \o OptionalId(AskType(m), m.id) \in Seq(Byte)
  BY <1>2, Join
<1> QED
  BY <1>1, <1>3, Join

\* What the client writes is what the server understands.
LEMMA OneMeaning ==
    ASSUME NEW m \in Asks, m.route \notin DOMAIN Dict, Len(m.route) < Base
    PROVE  Understood(EncodeMsg(m)) = {m}
<1> DEFINE z == Shrinks(m.data)
<1>1. z \in {FALSE} \cup {m.data \in DOMAIN Deflated}
  <2>1. CASE ~z
    BY <2>1, Zenon DEF Shrinks
  <2>2. CASE z
    BY <2>2, Zenon DEF Shrinks
  <2> QED
    BY <2>1, <2>2
<1>2. EncodeMsg(m) = Wire(Asked(m, z))
  BY EncodeMsgIsWire
<1> HIDE DEF z
<1>3. m \in Understood(EncodeMsg(m))
  BY <1>1, <1>2, UnderstoodIs
<1>4. ASSUME NEW ask \in Understood(EncodeMsg(m))
      PROVE  ask = m
  <2>1. PICK y \in {FALSE} \cup {ask.data \in DOMAIN Deflated} :
          ask \in Asks /\ EncodeMsg(m) = Wire(Asked(ask, y))
    BY UnderstoodIs
  <2>2. Len(ask.route) < Base
    BY <2>1, EncodeMsgType, WireHead
  <2>3. Fits(Asked(m, z)) /\ Fits(Asked(ask, y))
    BY <1>1, <2>1, <2>2, AskedFields
  <2>4. {Meant(Asked(m, z))} = {Meant(Asked(ask, y))}
    BY <1>2, <2>1, <2>3, Decoded
  <2>5. Meant(Asked(m, z)) = Meant(Asked(ask, y))
    BY <2>4
  <2>6. ask.id = m.id /\ ask.route = m.route /\ ask.data = m.data
    BY <2>5 DEF Meant, Asked
  <2> QED
    BY <2>1, <2>6, AskFields
<1> QED
  BY <1>3, <1>4

-----------------------------------------------------------------------------
(* What is said on a connection.                                           *)

\* A message of the server comes from a request that was made on the connection, if it
\* is an answer.
FromRequest(m) == m.type = RESPONSE => \E w \in written : w.msg.id = m.id

WrittenByClient == \A w \in written : w.msg \in Asks /\ w.bytes = EncodeMsg(w.msg)

SentByServer ==
    \A i \in 1..Len(sent) : sent[i].type = DATA =>
      \E m \in Messages : sent[i] = Package(m) /\ FromRequest(m)

SInv == IInv /\ WrittenByClient /\ SentByServer

\* A step of a session is one of the parser, which sees nothing of the messages.
LEMMA SessionStep == [SessionNext]_sessionVars => [Next]_vars
<1> SUFFICES ASSUME [SessionNext]_sessionVars
             PROVE  [Next]_vars
  OBVIOUS
<1>1. CASE UNCHANGED sessionVars
  BY <1>1 DEF sessionVars
<1>2. CASE Open
  BY <1>2 DEF Open, Next
<1>3. CASE Receive
  BY <1>3 DEF Receive, Next
<1>4. ASSUME NEW m \in Asks, Ask(m)
      PROVE  [Next]_vars
  BY <1>4 DEF Ask
<1>5. ASSUME NEW m \in Messages, Say(m)
      PROVE  [Next]_vars
  <2>1. Package(m) \in Packages
    BY MessagesAssumption
  <2> QED
    BY <1>5, <2>1 DEF Say, Next
<1>6. ASSUME NEW p \in Packages, Control(p)
      PROVE  [Next]_vars
  BY <1>6 DEF Control, Next
<1> QED
  BY <1>1, <1>2, <1>3, <1>4, <1>5, <1>6 DEF SessionNext

\* A session is a behaviour of the package parser: what is proved of one holds of the
\* other.
THEOREM SessionParses == SessionSpec => Spec
<1>1. SessionInit => Init
  BY DEF SessionInit
<1> QED
  BY <1>1, SessionStep, PTL DEF SessionSpec, Spec

\* The parser's invariant holds in a session.
LEMMA SessionIInv ==
    ASSUME Undecodable = {}
    PROVE  SessionSpec => []IInv
  BY SessionParses, Inductive, PTL

\* The client's part.
LEMMA ClientStep ==
    ASSUME WrittenByClient, [SessionNext]_sessionVars
    PROVE  WrittenByClient'
<1>1. CASE UNCHANGED written
  BY <1>1 DEF WrittenByClient
<1>2. CASE written' = {}
  BY <1>2 DEF WrittenByClient
<1>3. ASSUME NEW m \in Asks, Ask(m)
      PROVE  WrittenByClient'
  <2>1. written' = written \cup {[msg |-> m, bytes |-> EncodeMsg(m)]}
    BY <1>3 DEF Ask
  <2> QED
    BY <2>1 DEF WrittenByClient
<1> QED
  BY <1>1, <1>2, <1>3 DEF SessionNext, sessionVars, Open, Receive, Say, Control

\* A package that is sent leaves those before it where they are.
LEMMA SentAfter ==
    ASSUME TypeOK, NEW p \in Packages, Send(p), SentByServer, UNCHANGED written,
           p.type = DATA => \E m \in Messages : p = Package(m) /\ FromRequest(m)
    PROVE  SentByServer'
<1>1. sent \in Seq(Packages) /\ sent' = Append(sent, p) /\ Len(sent) \in Nat
  BY LenProperties DEF TypeOK, Send
<1>2. Len(sent') = Len(sent) + 1 /\ sent'[Len(sent) + 1] = p
      /\ \A i \in 1..Len(sent) : sent'[i] = sent[i]
  BY <1>1, AppendProperties
<1>3. ASSUME NEW i \in 1..Len(sent'), sent'[i].type = DATA
      PROVE  \E m \in Messages : sent'[i] = Package(m) /\ FromRequest(m)'
  <2>1. \A m : FromRequest(m)' <=> FromRequest(m)
    BY DEF FromRequest
  <2>2. CASE i = Len(sent) + 1
    BY <1>2, <1>3, <2>1, <2>2
  <2>3. CASE i # Len(sent) + 1
    <3>1. i \in 1..Len(sent)
      BY <1>1, <1>2, <2>3
    <3>2. sent'[i] = sent[i]
      BY <1>2, <3>1
    <3> QED
      BY <1>3, <2>1, <3>1, <3>2 DEF SentByServer
  <2> QED
    BY <2>2, <2>3
<1> QED
  BY <1>3 DEF SentByServer

\* The server's part.
LEMMA ServerStep ==
    ASSUME TypeOK, WrittenByClient, SentByServer, [SessionNext]_sessionVars
    PROVE  SentByServer'
<1>1. CASE UNCHANGED sessionVars
  BY <1>1 DEF sessionVars, vars, SentByServer, FromRequest
<1>2. CASE Open
  <2>1. sent' = <<>>
    BY <1>2 DEF Open, Connect
  <2>2. Len(sent') = 0
    BY <2>1
  <2> QED
    BY <2>2 DEF SentByServer
<1>3. CASE Receive
  <2>1. UNCHANGED <<sent, written>>
    BY <1>3 DEF Receive, Feed, ParseHead, ParseBody, Lost
  <2> QED
    BY <2>1 DEF SentByServer, FromRequest
<1>4. ASSUME NEW m \in Asks, Ask(m)
      PROVE  SentByServer'
  <2>1. sent' = sent /\ written \subseteq written'
    BY <1>4 DEF Ask, vars
  <2>2. \A n : FromRequest(n) => FromRequest(n)'
    BY <2>1 DEF FromRequest
  <2> QED
    BY <2>1, <2>2 DEF SentByServer
<1>5. ASSUME NEW m \in Messages, Say(m)
      PROVE  SentByServer'
  <2>1. Package(m) \in Packages
    BY MessagesAssumption
  <2>2. FromRequest(m)
    <3> SUFFICES ASSUME m.type = RESPONSE
                 PROVE  \E w \in written : w.msg.id = m.id
      BY DEF FromRequest
    <3>1. PICK w \in written : \E ask \in Understood(w.bytes) : ask.id = m.id
      BY <1>5 DEF Say
    <3>2. w.msg \in Asks /\ w.bytes = EncodeMsg(w.msg)
      BY DEF WrittenByClient
    <3>3. PICK ask \in Understood(EncodeMsg(w.msg)) : ask.id = m.id
      BY <3>1, <3>2
    <3>4. ask.id = w.msg.id
      BY <3>2, <3>3, SameId
    <3> QED
      BY <3>3, <3>4
  <2>3. Send(Package(m)) /\ UNCHANGED written
    BY <1>5 DEF Say
  <2> QED
    BY <2>1, <2>2, <2>3, SentAfter
<1>6. ASSUME NEW p \in Packages, Control(p)
      PROVE  SentByServer'
  BY <1>6, SentAfter DEF Control
<1> QED
  BY <1>1, <1>2, <1>3, <1>4, <1>5, <1>6 DEF SessionNext

\* All of it holds in a session.
LEMMA SessionInductive ==
    ASSUME Undecodable = {}
    PROVE  SessionSpec => []SInv
<1>1. SessionInit => WrittenByClient /\ SentByServer
  <2> SUFFICES ASSUME SessionInit
               PROVE  WrittenByClient /\ SentByServer
    OBVIOUS
  <2>1. written = {} /\ Len(sent) = 0
    BY DEF SessionInit, Init
  <2> QED
    BY <2>1 DEF WrittenByClient, SentByServer
<1>2. IInv /\ WrittenByClient /\ SentByServer /\ [SessionNext]_sessionVars
        => WrittenByClient' /\ SentByServer'
  BY ClientStep, ServerStep DEF IInv
<1>3. SInv <=> IInv /\ WrittenByClient /\ SentByServer
  BY DEF SInv
<1> QED
  BY <1>1, <1>2, <1>3, SessionIInv, PTL DEF SessionSpec

-----------------------------------------------------------------------------
(* The theorems.                                                           *)

\* What is written and what is parsed are bytes, and nothing exceeds its buffer.
THEOREM SessionIsTyped ==
    ASSUME Undecodable = {}
    PROVE  SessionSpec => []SessionTypeOK
<1>1. SInv => SessionTypeOK
  BY EncodeMsgType DEF SInv, IInv, WrittenByClient, SessionTypeOK
<1> QED
  BY <1>1, SessionInductive, PTL

\* The server reads every request as it was made, under the id by which the client
\* knows it, whatever the id, the route outside the dictionary and the body.
THEOREM RequestsAreUnderstood ==
    ASSUME Undecodable = {}
    PROVE  SessionSpec => []RequestsUnderstood
<1>1. SInv => RequestsUnderstood
  <2> SUFFICES ASSUME SInv, NEW w \in written,
                      w.msg.route \notin DOMAIN Dict, Len(w.msg.route) < Base
               PROVE  Understood(w.bytes) = {w.msg}
    BY DEF RequestsUnderstood
  <2>1. w.msg \in Asks /\ w.bytes = EncodeMsg(w.msg)
    BY DEF SInv, WrittenByClient
  <2> QED
    BY <2>1, OneMeaning
<1> QED
  BY <1>1, SessionInductive, PTL

\* The server's messages fit the format.
LEMMA MessagesFit == \A m \in Messages : Fits(m)
<1> TAKE m \in Messages
<1>1. /\ m.type \in {RESPONSE, PUSH} /\ m.id \in Nat /\ m.error \in BOOLEAN
      /\ m.route \in Seq(Byte) /\ m.data \in Seq(Byte) /\ m.zipped \in BOOLEAN
      /\ m.zipped => m.data \in DOMAIN Deflated
      /\ m.type = RESPONSE => m.route = NoRoute
      /\ m.type = PUSH => m.id = NoId /\ Len(m.route) < Base
  BY MessagesAssumption
<1>2. IsId(m.id)
  BY IdsKnown
<1> QED
  BY <1>1, <1>2 DEF Fits, HasId, HasRoute, REQUEST, RESPONSE, NOTIFY, PUSH

\* Every message of the server is decoded as it was meant, and an answer carries the id
\* of a request of its connection.
THEOREM AnswersAreMatched ==
    ASSUME Undecodable = {}
    PROVE  SessionSpec => []AnswersMatch
<1>1. SInv => AnswersMatch
  <2> SUFFICES ASSUME SInv, NEW i \in DOMAIN delivered, delivered[i].type = DATA
               PROVE  \E m \in Messages :
                        /\ sent[i] = Package(m)
                        /\ DecodeMsg(delivered[i].body) = {Meant(m)}
                        /\ m.type = RESPONSE => \E w \in written : w.msg.id = m.id
    BY DEF AnswersMatch
  <2>1. /\ delivered \in Seq(Packages) /\ sent \in Seq(Packages)
        /\ Len(delivered) <= Len(sent) /\ delivered = SubSeq(sent, 1, Len(delivered))
    BY DEF SInv, IInv, TypeOK, FramesMatch
  <2>2. Len(delivered) \in Nat /\ Len(sent) \in Nat /\ DOMAIN delivered = 1..Len(delivered)
    BY <2>1, LenProperties
  <2>3. i \in 1..Len(delivered) /\ i \in 1..Len(sent) /\ i \in 1..(Len(delivered) - 1 + 1)
        /\ 1 + i - 1 = i
    BY <2>1, <2>2
  <2>4. delivered[i] = sent[i]
    <3>1. \A j \in 1..Len(delivered) : sent[j] \in Packages
      <4> TAKE j \in 1..Len(delivered)
      <4>1. j \in 1..Len(sent)
        BY <2>1, <2>2
      <4> QED
        BY <2>1, <4>1, ElementOfSeq
    <3>2. SubSeq(sent, 1, Len(delivered))[i] = sent[1 + i - 1]
      BY <2>2, <2>3, <3>1, SubSeqProperties
    <3> QED
      BY <2>1, <2>3, <3>2
  <2>5. PICK m \in Messages : sent[i] = Package(m) /\ FromRequest(m)
    BY <2>3, <2>4 DEF SInv, SentByServer
  <2>6. delivered[i].body = Wire(m)
    BY <2>4, <2>5 DEF Package
  <2>7. DecodeMsg(Wire(m)) = {Meant(m)}
    BY MessagesFit, Decoded
  <2> QED
    BY <2>5, <2>6, <2>7 DEF FromRequest
<1> QED
  BY <1>1, SessionInductive, PTL

=============================================================================
