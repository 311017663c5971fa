----------------------------- MODULE CrcProofs -----------------------------
(***************************************************************************)
(* What the checksum is and what it tells apart, for every partition and   *)
(* chunk size and any contents: the register of crc.c is the remainder of  *)
(* a long division, a remainder notices every burst of 32 bits, and a      *)
(* bank's verdict rests on its last chunk.                                 *)
(***************************************************************************)
EXTENDS CrcPair, TLAPS, WellFoundedInduction

----------------------------------------------------------------------------
\* Long division.

LessThan == {p \in Nat \X Nat : p[1] < p[2]}

\* A set of numbers has a least one.  The induction theorems take a predicate
\* for a parameter; a minimal counterexample does with a set.
LEMMA LeastElement ==
  ASSUME NEW T, T \subseteq Nat, T # {}
  PROVE  \E n \in T : \A m \in T : n <= m
<1>1. IsWellFoundedOn(LessThan, Nat)
  <2>1. LessThan = OpToRel(<, Nat)  BY DEF OpToRel, LessThan
  <2> QED BY <2>1, NatLessThanWellFounded
<1>2. PICK n \in T : \A m \in T : ~ (<<m, n>> \in LessThan)
  BY <1>1, WFMin
<1>3. \A m \in T : ~ (m < n)  BY <1>2 DEF LessThan
<1> QED BY <1>3

\* Induction from the highest degree down to that of the remainder.
LEMMA DownToRemainder ==
  ASSUME NEW top \in Nat, NEW S, top \in S, \A d \in 31 .. top - 1 : d + 1 \in S => d \in S
  PROVE  31 .. top \subseteq S
<1> DEFINE Outside == {k \in Nat : k <= top - 31 /\ top - k \notin S}
<1>1. SUFFICES ASSUME Outside # {} PROVE FALSE
  <2>1. ASSUME NEW d \in 31 .. top PROVE d \in S
    <3>1. top - d \in Nat /\ top - d <= top - 31 /\ top - (top - d) = d  OBVIOUS
    <3>2. top - d \notin Outside  OBVIOUS
    <3> QED BY <3>1, <3>2
  <2> QED BY <2>1
<1>2. PICK k \in Outside : \A m \in Outside : k <= m
  <2>1. Outside \subseteq Nat  OBVIOUS
  <2> HIDE DEF Outside
  <2> QED BY <1>1, <2>1, LeastElement
<1>3. k \in Nat /\ k <= top - 31 /\ top - k \notin S  OBVIOUS
<1>4. k # 0
  <2>1. top - 0 = top  OBVIOUS
  <2> QED BY <1>3, <2>1
<1>5. k - 1 \in Nat /\ k - 1 <= top - 31 /\ k - 1 \notin Outside
  BY <1>2, <1>3, <1>4
<1>6. top - (k - 1) \in S  BY <1>5
<1>7. top - k \in 31 .. top - 1 /\ (top - k) + 1 = top - (k - 1)  BY <1>3, <1>4
<1> QED BY <1>3, <1>6, <1>7

\* One step of the division, for the term of degree d + 1.
Cancel(p, d) == IF d + 1 \in p THEN Xor(p, {e + d - 31 : e \in Generator}) ELSE p

DividedDownTo(g, polynomial, low, top) ==
  g = [d \in low .. top |-> IF d = top THEN polynomial ELSE Cancel(g[d + 1], d)]

\* The function that Division chooses exists.
LEMMA DivisionExists ==
  ASSUME NEW polynomial, NEW top \in Nat, top >= 31
  PROVE  \E g : DividedDownTo(g, polynomial, 31, top)
<1> DEFINE Divided == {d \in 31 .. top : \E g : DividedDownTo(g, polynomial, d, top)}
<1>1. top \in Divided
  <2>1. DividedDownTo([d \in top .. top |-> polynomial], polynomial, top, top)
    BY DEF DividedDownTo
  <2> QED BY <2>1
<1>2. ASSUME NEW low \in 31 .. top - 1, low + 1 \in Divided
      PROVE  low \in Divided
  <2>1. PICK h : DividedDownTo(h, polynomial, low + 1, top)  BY <1>2
  <2> DEFINE g == [d \in low .. top |-> IF d = low THEN Cancel(h[d + 1], d) ELSE h[d]]
  <2>2. ASSUME NEW d \in low .. top
        PROVE  g[d] = IF d = top THEN polynomial ELSE Cancel(g[d + 1], d)
    <3>1. CASE d = low
      <4>1. d + 1 \in low .. top /\ d + 1 # low /\ d # top  BY <3>1
      <4>2. g[d + 1] = h[d + 1]  BY <4>1
      <4> QED BY <3>1, <4>1, <4>2
    <3>2. CASE d # low
      <4>1. d \in low + 1 .. top /\ g[d] = h[d]  BY <3>2
      <4>2. h[d] = IF d = top THEN polynomial ELSE Cancel(h[d + 1], d)
        BY <2>1, <4>1 DEF DividedDownTo
      <4>3. d # top => d + 1 \in low .. top /\ d + 1 # low
        BY <3>2
      <4>4. d # top => g[d + 1] = h[d + 1]  BY <4>3
      <4> QED BY <4>1, <4>2, <4>4
    <3> QED BY <3>1, <3>2
  <2>3. g = [d \in low .. top |-> g[d]]  OBVIOUS
  <2> HIDE DEF g
  <2>4. g = [d \in low .. top |-> IF d = top THEN polynomial ELSE Cancel(g[d + 1], d)]
    BY <2>2, <2>3
  <2>5. DividedDownTo(g, polynomial, low, top)  BY <2>4 DEF DividedDownTo
  <2> QED BY <2>5 DEF g
<1>3. 31 \in 31 .. top  OBVIOUS
<1> HIDE DEF Divided
<1>4. 31 \in Divided  BY <1>1, <1>2, <1>3, DownToRemainder
<1> QED BY <1>4 DEF Divided

\* Division is what its recursive definition says.
LEMMA DivisionSteps ==
  ASSUME NEW polynomial, NEW top \in Nat, top >= 31
  PROVE  /\ Division(polynomial, top)[top] = polynomial
         /\ \A d \in 31 .. top - 1 :
              Division(polynomial, top)[d] = Cancel(Division(polynomial, top)[d + 1], d)
<1> DEFINE rest == Division(polynomial, top)
<1>1. PICK g : DividedDownTo(g, polynomial, 31, top)  BY DivisionExists
<1>2. DividedDownTo(rest, polynomial, 31, top)
  BY <1>1 DEF Division, DividedDownTo, Cancel
<1>3. rest = [d \in 31 .. top |-> IF d = top THEN polynomial ELSE Cancel(rest[d + 1], d)]
  BY <1>2 DEF DividedDownTo
<1> HIDE DEF rest
<1>4. rest[top] = polynomial  BY <1>3
<1>5. ASSUME NEW d \in 31 .. top - 1 PROVE rest[d] = Cancel(rest[d + 1], d)
  BY <1>3
<1> QED BY <1>4, <1>5 DEF rest

\* Nothing leaves nothing.
LEMMA NothingRemains ==
  ASSUME NEW top \in Nat, top >= 31
  PROVE  Remainder({}, top) = {}
<1> DEFINE S == {d \in 31 .. top : Division({}, top)[d] = {}}
<1>1. top \in S  BY DivisionSteps
<1>2. ASSUME NEW d \in 31 .. top - 1, d + 1 \in S PROVE d \in S
  <2>1. Division({}, top)[d] = Cancel(Division({}, top)[d + 1], d)  BY DivisionSteps
  <2>2. Division({}, top)[d + 1] = {}  BY <1>2
  <2>3. Cancel({}, d) = {}  BY DEF Cancel
  <2> QED BY <2>1, <2>2, <2>3
<1> HIDE DEF S
<1>3. 31 \in S  BY <1>1, <1>2, DownToRemainder
<1> QED BY <1>3 DEF S, Remainder

\* The remainder is of lower degree than the generator.
LEMMA RemainderType ==
  ASSUME NEW top \in Nat, top >= 31, NEW polynomial, polynomial \subseteq 0 .. top
  PROVE  Remainder(polynomial, top) \in Register
<1> DEFINE rest == Division(polynomial, top)
           S == {d \in 31 .. top : rest[d] \subseteq 0 .. d}
<1>1. top \in S
  <2>1. rest[top] = polynomial  BY DivisionSteps
  <2> HIDE DEF rest
  <2>2. rest[top] \subseteq 0 .. top  BY <2>1
  <2>3. top \in 31 .. top  OBVIOUS
  <2> QED BY <2>2, <2>3
<1>2. ASSUME NEW d \in 31 .. top - 1, d + 1 \in S PROVE d \in S
  <2>1. rest[d] = Cancel(rest[d + 1], d)  BY DivisionSteps
  <2>2. rest[d + 1] \subseteq 0 .. d + 1  BY <1>2
  <2> HIDE DEF rest
  <2>3. ASSUME NEW p, p \subseteq 0 .. d + 1 PROVE Cancel(p, d) \subseteq 0 .. d
    <3> DEFINE multiple == {e + d - 31 : e \in Generator}
    <3>1. d + 1 \in multiple /\ multiple \subseteq 0 .. d + 1
      BY DEF Generator, CRC_POLYNOMIAL
    <3> HIDE DEF multiple
    <3>2. CASE d + 1 \in p
      <4>1. Cancel(p, d) = Xor(p, multiple)  BY <3>2 DEF Cancel, multiple
      <4>2. Xor(p, multiple) \subseteq 0 .. d + 1 /\ d + 1 \notin Xor(p, multiple)
        BY <2>3, <3>1, <3>2 DEF Xor
      <4> QED BY <4>1, <4>2
    <3>3. CASE d + 1 \notin p
      <4>1. Cancel(p, d) = p  BY <3>3 DEF Cancel
      <4> QED BY <2>3, <3>3, <4>1
    <3> QED BY <3>2, <3>3
  <2> QED BY <2>1, <2>2, <2>3
<1> HIDE DEF S
<1>3. 31 \in S  BY <1>1, <1>2, DownToRemainder
<1> QED BY <1>3 DEF S, Remainder, Register

\* The remainder of a sum is the sum of the remainders.
LEMMA RemaindersAdd ==
  ASSUME NEW top \in Nat, top >= 31, NEW p, NEW q
  PROVE  Remainder(Xor(p, q), top) = Xor(Remainder(p, top), Remainder(q, top))
<1> DEFINE S == {d \in 31 .. top : Division(Xor(p, q), top)[d]
                                     = Xor(Division(p, top)[d], Division(q, top)[d])}
<1>1. top \in S  BY DivisionSteps
<1>2. ASSUME NEW d \in 31 .. top - 1, d + 1 \in S PROVE d \in S
  <2>1. \A a, b : Cancel(Xor(a, b), d) = Xor(Cancel(a, d), Cancel(b, d))
    BY DEF Cancel, Xor
  <2>2. /\ Division(Xor(p, q), top)[d] = Cancel(Division(Xor(p, q), top)[d + 1], d)
        /\ Division(p, top)[d] = Cancel(Division(p, top)[d + 1], d)
        /\ Division(q, top)[d] = Cancel(Division(q, top)[d + 1], d)
    BY DivisionSteps
  <2>3. Division(Xor(p, q), top)[d + 1]
          = Xor(Division(p, top)[d + 1], Division(q, top)[d + 1])
    BY <1>2
  <2> QED BY <2>1, <2>2, <2>3
<1> HIDE DEF S
<1>3. 31 \in S  BY <1>1, <1>2, DownToRemainder
<1> QED BY <1>3 DEF S, Remainder

\* The generator has its lowest term, so a step of the division leaves something
\* of terms that lie within 32 degrees, and leaves it within 32 degrees.
LEMMA CancelKeepsWindow ==
  ASSUME NEW d \in Int, NEW p, p \subseteq d - 30 .. d + 1, p # {}
  PROVE  Cancel(p, d) # {} /\ Cancel(p, d) \subseteq d - 31 .. d
<1> DEFINE multiple == {e + d - 31 : e \in Generator}
<1>1. d - 31 \in multiple /\ d + 1 \in multiple /\ multiple \subseteq d - 31 .. d + 1
  BY DEF Generator, CRC_POLYNOMIAL
<1> HIDE DEF multiple
<1>2. CASE d + 1 \in p
  <2>1. Cancel(p, d) = Xor(p, multiple)  BY <1>2 DEF Cancel, multiple
  <2>2. d - 31 \notin p  OBVIOUS
  <2>3. d - 31 \in Xor(p, multiple) /\ d + 1 \notin Xor(p, multiple)
    BY <1>1, <1>2, <2>2 DEF Xor
  <2>4. Xor(p, multiple) \subseteq d - 31 .. d + 1  BY <1>1 DEF Xor
  <2> QED BY <2>1, <2>3, <2>4
<1>3. CASE d + 1 \notin p
  BY <1>3 DEF Cancel
<1> QED BY <1>2, <1>3

\* What the division leaves of a burst of terms from degree k on: all of it as
\* long as it is below, then something within 32 degrees.
LeftOf(burst, k, p, d) ==
  IF d >= k + 31 THEN p = burst ELSE p # {} /\ p \subseteq d - 31 .. d

LEMMA LeftOfBurst ==
  ASSUME NEW burst, NEW k \in Int, burst \subseteq k .. k + 31, NEW d \in Int, NEW p,
         LeftOf(burst, k, p, d + 1), burst # {}
  PROVE  LeftOf(burst, k, Cancel(p, d), d)
<1>1. CASE d >= k + 31
  <2>1. p = burst /\ d + 1 \notin burst  BY <1>1 DEF LeftOf
  <2> QED BY <1>1, <2>1 DEF Cancel, LeftOf
<1>2. CASE d < k + 31
  <2>1. p # {} /\ p \subseteq d - 30 .. d + 1
    <3>1. CASE d + 1 >= k + 31
      <4>1. d = k + 30 /\ p = burst  BY <1>2, <3>1 DEF LeftOf
      <4> QED BY <4>1
    <3>2. CASE ~(d + 1 >= k + 31)
      <4>1. p # {} /\ p \subseteq (d + 1) - 31 .. d + 1  BY <3>2 DEF LeftOf
      <4> QED BY <4>1
    <3> QED BY <3>1, <3>2
  <2>2. Cancel(p, d) # {} /\ Cancel(p, d) \subseteq d - 31 .. d
    BY <2>1, CancelKeepsWindow
  <2> QED BY <1>2, <2>2 DEF LeftOf
<1> QED BY <1>1, <1>2

\* The generator divides no burst: terms within 32 degrees leave a remainder.
Window(k) == k .. k + 31

LEMMA BurstRemains ==
  ASSUME NEW top \in Nat, top >= 31, NEW burst, burst # {}, burst \subseteq 32 .. top,
         NEW k \in Int, burst \subseteq Window(k)
  PROVE  Remainder(burst, top) # {}
<1> USE DEF Window
<1> DEFINE rest == Division(burst, top)
           S == {d \in 31 .. top : LeftOf(burst, k, rest[d], d)}
<1>1. top \in S
  <2>1. rest[top] = burst  BY DivisionSteps
  <2>2. LeftOf(burst, k, burst, top)  BY DEF LeftOf
  <2> HIDE DEF rest
  <2> QED BY <2>1, <2>2
<1>2. ASSUME NEW d \in 31 .. top - 1, d + 1 \in S PROVE d \in S
  <2>1. rest[d] = Cancel(rest[d + 1], d)  BY DivisionSteps
  <2> HIDE DEF rest
  <2>2. LeftOf(burst, k, rest[d + 1], d + 1)  BY <1>2
  <2>3. d \in 31 .. top /\ d \in Int  OBVIOUS
  <2>4. LeftOf(burst, k, Cancel(rest[d + 1], d), d)
    BY <2>2, <2>3, LeftOfBurst, Zenon
  <2> QED BY <2>1, <2>3, <2>4
<1>3. 31 \in S
  <2> HIDE DEF S
  <2> QED BY <1>1, <1>2, DownToRemainder
<1>4. rest[31] # {}
  <2> HIDE DEF rest
  <2>1. LeftOf(burst, k, rest[31], 31)  BY <1>3
  <2> QED BY <2>1 DEF LeftOf
<1> QED BY <1>4 DEF Remainder

----------------------------------------------------------------------------
\* The register.

\* The arithmetic keeps to 32 bits.
LEMMA NextBitType ==
  ASSUME NEW a \in Register
  PROVE  NextBit(a) \in Register
<1>1. CRC_POLYNOMIAL \subseteq 0 .. 31  BY DEF CRC_POLYNOMIAL
<1>2. ShiftLeft(a) \subseteq 0 .. 31  BY DEF ShiftLeft
<1>3. Xor(ShiftLeft(a), CRC_POLYNOMIAL) \subseteq 0 .. 31  BY <1>1, <1>2 DEF Xor
<1> QED BY <1>2, <1>3 DEF NextBit, Register

LEMMA TakenByteType ==
  ASSUME NEW a \in Register, NEW x
  PROVE  Xor(a, TopByte(x)) \in Register
<1>1. TopByte(x) \subseteq 0 .. 31  BY DEF TopByte
<1> QED BY <1>1 DEF Xor, Register

LEMMA Complements ==
  ASSUME NEW a \in Register
  PROVE  Complement(a) \in Register /\ Complement(Complement(a)) = a
BY DEF Complement, Register

\* A register as part of a polynomial whose highest term has degree d.
Shifted(register, d) == {e \in d - 31 .. d : e - (d - 31) \in register}

\* The terms of the n bytes after the first t.
Untaken(polynomial, n, t) == {e \in polynomial : e <= 8 * (n - t) + 31}

\* A turn of the loop over the bits is a step of the division.
LEMMA BitDivides ==
  ASSUME NEW register, register \subseteq 0 .. 31, NEW d \in Int, NEW low,
         low \subseteq Int, \A e \in low : e < d
  PROVE  Cancel(Xor(Shifted(register, d), low), d - 1) = Xor(Shifted(NextBit(register), d - 1), low)
<1> DEFINE held == Xor(Shifted(register, d), low)
           multiple == {e + (d - 1) - 31 : e \in Generator}
<1>1. d \in held <=> 31 \in register
  BY DEF Xor, Shifted
<1>2. \A e \in Int : e \in Shifted(register, d) <=> (e - d + 31 \in register)
  BY DEF Shifted
<1>3. \A e \in Int : e \in Shifted(ShiftLeft(register), d - 1)
                       <=> (e # d /\ e - d + 31 \in register)
  BY DEF Shifted, ShiftLeft
<1>4. \A e \in Int : e \in multiple <=> e = d \/ e - d + 32 \in CRC_POLYNOMIAL
  BY DEF Generator, CRC_POLYNOMIAL
<1>5. \A e \in Int : e \in Shifted(CRC_POLYNOMIAL, d - 1) <=> e - d + 32 \in CRC_POLYNOMIAL
  BY DEF Shifted, CRC_POLYNOMIAL
<1>6. CASE 31 \notin register
  <2>1. \A e \in Int : e \in Shifted(NextBit(register), d - 1) <=> e \in Shifted(register, d)
    BY <1>2, <1>3, <1>6 DEF NextBit
  <2>2. Shifted(NextBit(register), d - 1) \subseteq Int /\ Shifted(register, d) \subseteq Int
    BY DEF Shifted
  <2>3. Shifted(NextBit(register), d - 1) = Shifted(register, d)  BY <2>1, <2>2
  <2>4. d - 1 + 1 = d  OBVIOUS
  <2> QED BY <1>1, <1>6, <2>3, <2>4 DEF Cancel
<1>7. CASE 31 \in register
  <2>1. \A e \in Int : e \in Shifted(NextBit(register), d - 1)
          <=> ((e \in Shifted(ShiftLeft(register), d - 1)) # (e \in Shifted(CRC_POLYNOMIAL, d - 1)))
    BY <1>7 DEF NextBit, Shifted, Xor
  <2>2. ASSUME NEW e \in Int
        PROVE  e \in Xor(held, multiple) <=> e \in Xor(Shifted(NextBit(register), d - 1), low)
    <3>1. CASE e = d
      <4>1. e \in held /\ e \in multiple /\ e \notin low
        BY <1>1, <1>4, <1>7, <3>1
      <4>2. e - d + 32 \notin CRC_POLYNOMIAL  BY <3>1 DEF CRC_POLYNOMIAL
      <4>3. e \notin Shifted(NextBit(register), d - 1)
        BY <1>3, <1>5, <2>1, <3>1, <4>2
      <4> QED BY <4>1, <4>3 DEF Xor
    <3>2. CASE e # d
      <4>1. e \in multiple <=> e \in Shifted(CRC_POLYNOMIAL, d - 1)
        BY <1>4, <1>5, <3>2
      <4>2. e \in Shifted(register, d) <=> e \in Shifted(ShiftLeft(register), d - 1)
        BY <1>2, <1>3, <3>2
      <4> QED BY <2>1, <4>1, <4>2 DEF Xor
    <3> QED BY <3>1, <3>2
  <2>3. /\ Xor(held, multiple) \subseteq Int
        /\ Xor(Shifted(NextBit(register), d - 1), low) \subseteq Int
    <3>1. multiple \subseteq Int  BY DEF Generator, CRC_POLYNOMIAL
    <3>2. Shifted(register, d) \subseteq Int /\ Shifted(NextBit(register), d - 1) \subseteq Int
      BY DEF Shifted
    <3> QED BY <3>1, <3>2 DEF Xor
  <2>4. Xor(held, multiple) = Xor(Shifted(NextBit(register), d - 1), low)
    BY <2>2, <2>3
  <2>5. d - 1 + 1 = d  OBVIOUS
  <2> QED BY <1>1, <1>7, <2>4, <2>5 DEF Cancel
<1> QED BY <1>6, <1>7

----------------------------------------------------------------------------
\* A calculation.  It has taken t of the n bytes at an address, and what the
\* division leaves down to degree d is the register at the top and, below it,
\* the bytes still to come.

DataPolynomial(bytes, from, n) == Xor(Polynomial(bytes, from, n), 8 * n .. 8 * n + 31)

RestAt(bytes, from, n, t, d, register) ==
  Division(DataPolynomial(bytes, from, n), 8 * n + 31)[d]
    = Xor(Shifted(register, d), Untaken(Polynomial(bytes, from, n), n, t))

LEMMA PolynomialDegrees ==
  ASSUME NEW bytes, NEW from, NEW n \in Nat
  PROVE  Polynomial(bytes, from, n) \subseteq 32 .. 8 * n + 31
BY DEF Polynomial

\* The register a calculation starts with holds the complement of the first 32
\* bits.
LEMMA RestStarts ==
  ASSUME NEW bytes, NEW from \in Nat, NEW n \in Nat
  PROVE  RestAt(bytes, from, n, 0, 8 * n + 31, INITIAL_CRC_VALUE)
<1> DEFINE P == Polynomial(bytes, from, n)
           top == 8 * n + 31
<1>1. top \in Nat /\ top >= 31 /\ top - 31 = 8 * n  OBVIOUS
<1>2. Division(DataPolynomial(bytes, from, n), top)[top] = Xor(P, 8 * n .. top)
  BY <1>1, DivisionSteps DEF DataPolynomial
<1>3. Shifted(INITIAL_CRC_VALUE, top) = 8 * n .. top
  <2>1. \A e \in 8 * n .. top : e - 8 * n \in 0 .. 31  BY <1>1
  <2> QED BY <1>1, <2>1 DEF Shifted, INITIAL_CRC_VALUE
<1>4. Untaken(P, n, 0) = P
  <2>1. \A e \in P : e <= 8 * (n - 0) + 31  BY PolynomialDegrees
  <2> HIDE DEF P
  <2> QED BY <2>1 DEF Untaken
<1>5. Xor(P, 8 * n .. top) = Xor(8 * n .. top, P)  BY DEF Xor
<1> QED BY <1>2, <1>3, <1>4, <1>5 DEF RestAt

\* Taking a byte only moves it.
LEMMA RestTakesByte ==
  ASSUME NEW bytes, NEW from \in Nat, NEW n \in Nat, NEW t \in 0 .. n - 1, NEW d,
         d = 8 * (n - t) + 31, NEW register \in Register,
         RestAt(bytes, from, n, t, d, register)
  PROVE  RestAt(bytes, from, n, t + 1, d, Xor(register, TopByte(bytes[from + t])))
<1> DEFINE P == Polynomial(bytes, from, n)
           byte == bytes[from + t]
           rest == Untaken(P, n, t)
           left == Untaken(P, n, t + 1)
<1>1. d \in Int /\ d >= 39  OBVIOUS
<1>2. ASSUME NEW b \in 0 .. 7
      PROVE  d - 7 + b \in P <=> b \in byte
  <2>1. d - 7 + b = 8 * (n - 1 - t) + 32 + b  OBVIOUS
  <2>2. \A q \in Nat, c \in 0 .. 7 : ((8 * q + 32 + c) % 8) = c /\ (((8 * q + 32 + c) - 32) \div 8) = q
    BY SMT
  <2>3. n - 1 - t \in Nat  OBVIOUS
  <2>4. ((d - 7 + b) % 8) = b /\ ((d - 7 + b - 32) \div 8) = n - 1 - t
    BY <2>1, <2>2, <2>3
  <2>5. d - 7 + b \in 32 .. 8 * n + 31  OBVIOUS
  <2>6. from + n - 1 - (n - 1 - t) = from + t  OBVIOUS
  <2>7. \A e \in 32 .. 8 * n + 31 :
          e \in P <=> (e % 8) \in bytes[from + n - 1 - ((e - 32) \div 8)]
    BY DEF Polynomial
  <2>8. PICK e \in 32 .. 8 * n + 31 : e = d - 7 + b  BY <2>5
  <2>9. (e % 8) = b /\ ((e - 32) \div 8) = n - 1 - t  BY <2>4, <2>8
  <2> HIDE DEF P
  <2> QED BY <2>6, <2>7, <2>8, <2>9
<1>3. \A e : (e \in rest <=> e \in P /\ e <= d) /\ (e \in left <=> e \in P /\ e <= d - 8)
  <2>1. 8 * (n - t) + 31 = d /\ 8 * (n - (t + 1)) + 31 = d - 8  OBVIOUS
  <2> HIDE DEF P
  <2> QED BY <2>1 DEF Untaken
<1>4. P \subseteq Int  BY DEF Polynomial
<1> HIDE DEF P, byte, rest, left
<1>5. ASSUME NEW e \in Int
      PROVE  (e \in Xor(Shifted(register, d), rest))
                <=> (e \in Xor(Shifted(Xor(register, TopByte(byte)), d), left))
  <2>1. CASE e \in d - 7 .. d
    <3>1. PICK b \in 0 .. 7 : e = d - 7 + b
      <4>1. e - (d - 7) \in 0 .. 7 /\ e = d - 7 + (e - (d - 7))  BY <1>1, <2>1
      <4> QED BY <4>1
    <3>2. e \in rest <=> b \in byte  BY <1>1, <1>2, <1>3, <3>1
    <3>3. e \notin left  BY <1>1, <1>3, <2>1
    <3>4. b + 24 \in TopByte(byte) <=> b \in byte  BY DEF TopByte
    <3>5. e - (d - 31) = b + 24 /\ e \in d - 31 .. d  BY <1>1, <3>1
    <3> QED BY <3>2, <3>3, <3>4, <3>5 DEF Xor, Shifted
  <2>2. CASE e \notin d - 7 .. d
    <3>1. e \in rest <=> e \in left
      BY <1>1, <1>3, <2>2
    <3>2. e \in d - 31 .. d => e - (d - 31) \notin TopByte(byte)
      BY <1>1, <2>2 DEF TopByte
    <3> QED BY <3>1, <3>2 DEF Xor, Shifted
  <2> QED BY <2>1, <2>2
<1>6. Xor(Shifted(register, d), rest) \subseteq Int
      /\ Xor(Shifted(Xor(register, TopByte(byte)), d), left) \subseteq Int
  <2>1. rest \subseteq Int /\ left \subseteq Int  BY <1>3, <1>4
  <2>2. \A r : Shifted(r, d) \subseteq Int  BY <1>1 DEF Shifted
  <2> QED BY <2>1, <2>2 DEF Xor
<1>7. Xor(Shifted(register, d), rest) = Xor(Shifted(Xor(register, TopByte(byte)), d), left)
  BY <1>5, <1>6
<1> QED BY <1>7 DEF RestAt, P, byte, rest, left

\* Eight turns of the loop over the bits divide it.
LEMMA RestTakesBit ==
  ASSUME NEW bytes, NEW from \in Nat, NEW n \in Nat, NEW t \in 1 .. n, NEW d \in Int,
         8 * (n - t) + 31 < d, d <= 8 * n + 31, NEW register \in Register,
         RestAt(bytes, from, n, t, d, register)
  PROVE  RestAt(bytes, from, n, t, d - 1, NextBit(register))
<1> DEFINE top == 8 * n + 31
           rest == Division(DataPolynomial(bytes, from, n), top)
           low == Untaken(Polynomial(bytes, from, n), n, t)
<1>1. top \in Nat /\ top >= 31 /\ d - 1 \in 31 .. top - 1 /\ d - 1 + 1 = d  OBVIOUS
<1>2. rest[d - 1] = Cancel(rest[d - 1 + 1], d - 1)
  <2> HIDE DEF top
  <2> QED BY <1>1, DivisionSteps
<1>3. low \subseteq Int /\ \A e \in low : e < d
  <2>1. Polynomial(bytes, from, n) \subseteq Int  BY DEF Polynomial
  <2> QED BY <2>1 DEF Untaken
<1>4. register \subseteq 0 .. 31  BY DEF Register
<1>5. rest[d] = Xor(Shifted(register, d), low)  BY DEF RestAt
<1> HIDE DEF low, rest
<1>6. Cancel(Xor(Shifted(register, d), low), d - 1) = Xor(Shifted(NextBit(register), d - 1), low)
  BY <1>3, <1>4, BitDivides
<1>7. rest[d - 1] = Xor(Shifted(NextBit(register), d - 1), low)
  BY <1>1, <1>2, <1>5, <1>6
<1> QED BY <1>7 DEF RestAt, rest, low

\* All of the data taken, the register is the remainder.
LEMMA RestEnds ==
  ASSUME NEW bytes, NEW from \in Nat, NEW n \in Nat, NEW register \in Register,
         RestAt(bytes, from, n, n, 31, register)
  PROVE  register = DataRemainder(bytes, from, n)
<1>1. Untaken(Polynomial(bytes, from, n), n, n) = {}
  BY PolynomialDegrees DEF Untaken
<1>2. Shifted(register, 31) = register
  <2>1. register \subseteq 0 .. 31  BY DEF Register
  <2>2. \A e \in 0 .. 31 : e - (31 - 31) = e  OBVIOUS
  <2>3. Shifted(register, 31) = {e \in 0 .. 31 : e \in register}  BY <2>2 DEF Shifted
  <2> QED BY <2>1, <2>3
<1>3. Xor(register, {}) = register  BY DEF Xor
<1> QED BY <1>1, <1>2, <1>3 DEF RestAt, DataRemainder, Remainder, DataPolynomial

LEMMA DataRemainderType ==
  ASSUME NEW bytes, NEW from, NEW n \in Nat
  PROVE  DataRemainder(bytes, from, n) \in Register
<1>1. 8 * n + 31 \in Nat /\ 8 * n + 31 >= 31  OBVIOUS
<1>2. Xor(Polynomial(bytes, from, n), 8 * n .. 8 * n + 31) \subseteq 0 .. 8 * n + 31
  <2>1. Polynomial(bytes, from, n) \subseteq 0 .. 8 * n + 31  BY PolynomialDegrees
  <2>2. 8 * n .. 8 * n + 31 \subseteq 0 .. 8 * n + 31  OBVIOUS
  <2> QED BY <2>1, <2>2 DEF Xor
<1> QED BY <1>1, <1>2, RemainderType DEF DataRemainder

\* Two calculations differ by the remainder of what their data differ in.
LEMMA DifferenceRemains ==
  ASSUME NEW p, NEW q, NEW from, NEW n \in Nat
  PROVE  Xor(DataRemainder(p, from, n), DataRemainder(q, from, n))
           = Remainder(Xor(Polynomial(p, from, n), Polynomial(q, from, n)), 8 * n + 31)
<1>1. 8 * n + 31 \in Nat /\ 8 * n + 31 >= 31  OBVIOUS
<1>2. \A a, b, c : Xor(Xor(a, c), Xor(b, c)) = Xor(a, b)  BY DEF Xor
<1> QED BY <1>1, <1>2, RemaindersAdd DEF DataRemainder

----------------------------------------------------------------------------
\* The sizes.

\* The arguments of CRC_Calculate are the numbers the code's unsigned
\* subtraction makes of the sizes.
LEMMA Wrapped ==
  ASSUME NEW n \in Nat, NEW t \in Nat
  PROVE  (n - t) % UINT32_RANGE \in Nat
BY CrcAssumption, SMT

\* A packet that CRC_Calculate got through is no shorter than its CRC: the
\* length of a shorter one wraps past the end of the memory.
LEMMA PacketSize ==
  ASSUME NEW n \in Nat, n <= MEMORY_SIZE, (n - 4) % UINT32_RANGE <= MEMORY_SIZE
  PROVE  n \in 4 .. MEMORY_SIZE
<1>1. MEMORY_SIZE \in Nat /\ UINT32_RANGE \in Nat /\ UINT32_RANGE > MEMORY_SIZE + 8
  BY CrcAssumption
<1>2. ASSUME n < 4 PROVE FALSE
  <2>1. \A m \in Nat, k \in 0 .. 3 : m > 8 => (k - 4) % m = k - 4 + m
    BY SMT
  <2>2. (n - 4) % UINT32_RANGE = n - 4 + UINT32_RANGE
    BY <1>1, <1>2, <2>1
  <2> QED BY <1>1, <1>2, <2>2
<1> QED BY <1>1, <1>2

----------------------------------------------------------------------------
\* The inductive invariant of the calls.

\* How many bytes the register has taken, and the degree of its top bit.
Taken  == IF place = "bit" THEN i + 1 ELSE i
Degree == 8 * (length - i) + 31 - j

\* The chunk or packet in the buffer is inside the memory.
DataRead == place \in {"byte", "bit"} /\ base + length <= MEMORY_SIZE

\* What a call has calculated: of a bank of no more than its metadata, nothing.
Checksum(function, bytes, from, n) ==
  IF function = "CRC_Validate" /\ n = 0
  THEN INITIAL_CRC_VALUE
  ELSE Complement(DataRemainder(bytes, from, n))

\* What it compares, and with which word.
Presented(function, calculated) ==
  IF function = "ValidatePacket" THEN calculated ELSE Complement(calculated)
CheckStart == IF caller = "ValidatePacket" THEN size - 4 ELSE StoredCrcAddress
Word(bytes, address) == {b \in 0 .. 31 : (b % 8) \in bytes[address + (b \div 8)]}

Verdicts == {"true", "false"}

LoopsInRange ==
  /\ place = "byte" => j = 0 /\ base + i <= MEMORY_SIZE
  /\ place = "bit" => i < length /\ base + i < MEMORY_SIZE
  /\ place \in {"byte", "bit"} /\ caller = "CRC_Validate" => length > 0
  /\ place \in {"byte", "bit"} /\ caller = "ValidatePacket" =>
       base = 0 /\ length = (size - 4) % UINT32_RANGE /\ size < UINT32_RANGE
  /\ place = "chunk" => base + length <= MEMORY_SIZE /\ caller = "CRC_Validate"

\* CRC_Validate is as far as its chunks went.
ChunksCount ==
  (place \in {"chunk", "byte", "bit"} \/ answer \in Verdicts) /\ caller = "CRC_Validate" =>
    /\ base + length + remaining_size = (size - CRC_METADATA_SIZE) % UINT32_RANGE
    /\ length <= CHUNK_SIZE /\ size < UINT32_RANGE

\* A verdict was passed on data in the memory.
Passed ==
  /\ place # "idle" => answer = "none"
  /\ answer \in Verdicts =>
       /\ base + length <= MEMORY_SIZE
       /\ \/ caller = "CRC_Validate" /\ remaining_size = 0
          \/ /\ caller = "ValidatePacket" /\ base = 0
             /\ length = size - 4 /\ size \in 4 .. MEMORY_SIZE
       /\ answer = Verdict(Presented(caller, calculated_crc) = Word(memory, CheckStart))

CrcInv ==
  /\ CrcTypeOK /\ LoopsInRange /\ ChunksCount /\ Passed
  /\ DataRead => RestAt(memory, base, length, Taken, Degree, crc)
  /\ place = "chunk" \/ answer \in Verdicts =>
       calculated_crc = Checksum(caller, memory, base, length)

LEMMA InitCrcInv == Init => CrcInv
<1> SUFFICES ASSUME Init PROVE CrcInv  OBVIOUS
<1>1. CrcTypeOK
  BY CrcAssumption DEF Init, CrcTypeOK, Callers, Answers, Register
<1>2. LoopsInRange /\ ChunksCount /\ Passed /\ ~DataRead /\ place = "idle" /\ answer = "none"
  BY DEF Init, LoopsInRange, ChunksCount, Passed, DataRead, Verdicts
<1> QED BY <1>1, <1>2 DEF CrcInv, Verdicts

\* What the entries of the calls have in common.
Entered(n) ==
  /\ memory' = memory /\ base' = 0 /\ i' = 0 /\ j' = 0 /\ size' = n
  /\ answer' \in {"none", "no_buffer", "no_magic"}
  /\ crc' \in {{}, INITIAL_CRC_VALUE} /\ calculated_crc' \in {{}, INITIAL_CRC_VALUE}
  /\ \/ /\ place' \in {"idle", "chunk"} /\ caller' = "CRC_Validate" /\ length' = 0
        /\ remaining_size' \in {0, (n - CRC_METADATA_SIZE) % UINT32_RANGE}
        /\ calculated_crc' = INITIAL_CRC_VALUE
        /\ place' = "chunk" =>
             /\ answer' = "none"
             /\ remaining_size' = (n - CRC_METADATA_SIZE) % UINT32_RANGE
     \/ /\ place' = "byte" /\ remaining_size' = 0 /\ crc' = INITIAL_CRC_VALUE
        /\ answer' = "none"
        /\ \/ /\ caller' = "CRC_UpdateExpected"
              /\ length' = (n - CRC_METADATA_SIZE) % UINT32_RANGE
           \/ caller' = "ValidatePacket" /\ length' = (n - 4) % UINT32_RANGE

LEMMA EnterCrc ==
  ASSUME CrcInv, NEW n \in Nat, n < UINT32_RANGE,
         \/ CRC_Validate(n) \/ (\E why \in {"no_buffer", "no_magic"} : Refuse(n, why))
         \/ CRC_UpdateExpected(n) \/ CommunicationManager_ValidatePacket(n)
  PROVE  CrcInv'
<1>1. (n - CRC_METADATA_SIZE) % UINT32_RANGE \in Nat /\ (n - 4) % UINT32_RANGE \in Nat
  BY Wrapped DEF CRC_METADATA_SIZE
<1>2. Entered(n)
  BY DEF CRC_Validate, Refuse, CRC_UpdateExpected, CommunicationManager_ValidatePacket,
     Calculate, Enter, Entered
<1>3. remaining_size' \in Nat /\ length' \in Nat /\ caller' \in Callers
  BY <1>1, <1>2 DEF Callers, Entered
<1>4. CrcTypeOK'
  <2>1. INITIAL_CRC_VALUE \in Register /\ {} \in Register  BY DEF INITIAL_CRC_VALUE, Register
  <2>2. memory \in [Address -> Byte]  BY DEF CrcInv, CrcTypeOK
  <2>3. crc' \in Register /\ calculated_crc' \in Register  BY <1>2, <2>1 DEF Entered
  <2>4. answer' \in Answers /\ place' \in {"idle", "chunk", "byte"}
    BY <1>2 DEF Answers, Entered
  <2>5. /\ memory' = memory /\ size' = n /\ base' = 0
        /\ i' \in 0 .. length' /\ j' \in 0 .. 7
    BY <1>2, <1>3 DEF Entered
  <2> QED BY <1>3, <2>2, <2>3, <2>4, <2>5 DEF CrcTypeOK
<1>5. LoopsInRange'
  BY <1>2, CrcAssumption DEF LoopsInRange, Entered
<1>6. ChunksCount'
  <2>1. CHUNK_SIZE \in Nat  BY CrcAssumption
  <2> QED BY <1>1, <1>2, <2>1 DEF ChunksCount, Entered, Verdicts
<1>7. Passed'
  BY <1>2 DEF Passed, Entered, Verdicts
<1>8. place' = "byte" => RestAt(memory', base', length', Taken', Degree', crc')
  <2>1. place' = "byte" => /\ Taken' = 0 /\ Degree' = 8 * length' + 31 /\ base' = 0
                          /\ crc' = INITIAL_CRC_VALUE
    BY <1>2, <1>3 DEF Entered, Taken, Degree
  <2>2. RestAt(memory', 0, length', 0, 8 * length' + 31, INITIAL_CRC_VALUE)
    BY <1>3, RestStarts
  <2> QED BY <2>1, <2>2
<1>9. place' = "chunk" => calculated_crc' = Checksum(caller', memory', base', length')
  BY <1>2 DEF Entered, Checksum
<1>10. answer' \notin Verdicts /\ (DataRead' => place' = "byte")
  BY <1>2 DEF Entered, DataRead, Verdicts
<1> QED BY <1>4, <1>5, <1>6, <1>7, <1>8, <1>9, <1>10 DEF CrcInv

LEMMA CopyChunkCrc == CrcInv /\ CopyChunk => CrcInv'
<1> SUFFICES ASSUME CrcInv, CopyChunk PROVE CrcInv'  OBVIOUS
<1>1. /\ place = "chunk" /\ remaining_size > 0 /\ caller = "CRC_Validate" /\ answer = "none"
      /\ base' = base + length /\ length' = ChunkLength
      /\ remaining_size' = remaining_size - ChunkLength
      /\ i' = 0 /\ j' = 0 /\ crc' = INITIAL_CRC_VALUE
      /\ place' = IF base' + length' <= MEMORY_SIZE THEN "byte" ELSE "fault"
      /\ UNCHANGED <<memory, caller, size, calculated_crc, answer>>
  BY DEF CopyChunk, CrcInv, LoopsInRange, Passed
<1>2. base \in Nat /\ length \in Nat /\ remaining_size \in Nat
  BY DEF CrcInv, CrcTypeOK
<1>3. /\ ChunkLength \in Nat /\ ChunkLength > 0 /\ ChunkLength <= remaining_size
      /\ ChunkLength <= CHUNK_SIZE
  BY <1>1, <1>2, CrcAssumption DEF ChunkLength
<1>4. /\ base' \in Nat /\ length' \in Nat /\ length' > 0 /\ remaining_size' \in Nat
      /\ length' <= CHUNK_SIZE
  BY <1>1, <1>2, <1>3
<1>5. CrcTypeOK'
  <2>1. INITIAL_CRC_VALUE \in Register  BY DEF INITIAL_CRC_VALUE, Register
  <2>2. place' \in {"byte", "fault"}  BY <1>1
  <2> QED BY <1>1, <1>4, <2>1, <2>2 DEF CrcInv, CrcTypeOK
<1>6. LoopsInRange'
  <2>1. place' = "byte" => base' + i' <= MEMORY_SIZE
    <3>1. place' = "byte" => base' + length' <= MEMORY_SIZE  BY <1>1
    <3>2. MEMORY_SIZE \in Nat  BY CrcAssumption
    <3> QED BY <1>1, <1>4, <3>1, <3>2
  <2> QED BY <1>1, <1>4, <2>1 DEF LoopsInRange
<1>7. ChunksCount'
  <2>1. /\ base + length + remaining_size = (size - CRC_METADATA_SIZE) % UINT32_RANGE
        /\ size < UINT32_RANGE
    BY <1>1 DEF CrcInv, ChunksCount
  <2>2. base' + length' + remaining_size' = base + length + remaining_size
    BY <1>1, <1>2, <1>3
  <2> QED BY <1>1, <1>4, <2>1, <2>2 DEF ChunksCount
<1>8. Passed'  BY <1>1 DEF Passed, Verdicts
<1>9. RestAt(memory', base', length', Taken', Degree', crc')
  <2>1. Taken' = 0 /\ Degree' = 8 * length' + 31
    BY <1>1, <1>4 DEF Taken, Degree
  <2> QED BY <1>1, <1>4, <2>1, RestStarts
<1> QED BY <1>1, <1>5, <1>6, <1>7, <1>8, <1>9 DEF CrcInv, Verdicts

\* The loops divide whatever memory they read and with whatever register.
LEMMA LoopsDivide ==
  ASSUME CrcInv, DataRead, NEW bytes, NEW register \in Register,
         RestAt(bytes, base, length, Taken, Degree, register)
  PROVE  /\ TakeByte => RestAt(bytes, base', length', Taken', Degree',
                               Xor(register, TopByte(bytes[base + i])))
         /\ TakeBit => RestAt(bytes, base', length', Taken', Degree', NextBit(register))
         /\ place = "byte" /\ i = length => register = DataRemainder(bytes, base, length)
<1>1. base \in Nat /\ length \in Nat /\ i \in 0 .. length /\ j \in 0 .. 7
  BY DEF CrcInv, CrcTypeOK
<1>2. ASSUME TakeByte
      PROVE  RestAt(bytes, base', length', Taken', Degree',
                    Xor(register, TopByte(bytes[base + i])))
  <2>1. i \in 0 .. length - 1 /\ j = 0 /\ UNCHANGED <<base, length, i>>
    BY <1>1, <1>2 DEF TakeByte, CrcInv, LoopsInRange
  <2>2. Taken = i /\ Taken' = i + 1  BY <1>2, <2>1 DEF Taken, TakeByte
  <2>3. Degree = 8 * (length - i) + 31 /\ Degree' = Degree
    BY <1>1, <1>2, <2>1 DEF Degree, TakeByte
  <2>4. RestAt(bytes, base, length, i, Degree, register)  BY <2>2
  <2>5. RestAt(bytes, base, length, i + 1, Degree, Xor(register, TopByte(bytes[base + i])))
    BY <1>1, <2>1, <2>3, <2>4, RestTakesByte
  <2> QED BY <2>1, <2>2, <2>3, <2>5
<1>3. ASSUME TakeBit
      PROVE  RestAt(bytes, base', length', Taken', Degree', NextBit(register))
  <2>1. i \in 0 .. length - 1 /\ UNCHANGED <<base, length>>
    BY <1>1, <1>3 DEF TakeBit, CrcInv, LoopsInRange
  <2>2. Taken = i + 1 /\ Taken' = Taken
    BY <1>3, <2>1 DEF Taken, TakeBit
  <2>3. Degree = 8 * (length - i) + 31 - j /\ Degree' = Degree - 1
    <3>1. \/ j < 7 /\ j' = j + 1 /\ i' = i
          \/ j = 7 /\ j' = 0 /\ i' = i + 1
      BY <1>1, <1>3 DEF TakeBit
    <3> QED BY <1>1, <2>1, <3>1 DEF Degree
  <2>4. /\ Taken \in 1 .. length /\ Degree \in Int /\ 8 * (length - Taken) + 31 < Degree
        /\ Degree <= 8 * length + 31
    BY <1>1, <2>1, <2>2, <2>3
  <2>5. RestAt(bytes, base, length, Taken, Degree - 1, NextBit(register))
    BY <1>1, <2>4, RestTakesBit
  <2> QED BY <2>1, <2>2, <2>3, <2>5
<1>4. ASSUME place = "byte", i = length
      PROVE  register = DataRemainder(bytes, base, length)
  <2>1. j = 0  BY <1>4 DEF CrcInv, LoopsInRange
  <2>2. Taken = length /\ Degree = 31  BY <1>1, <1>4, <2>1 DEF Taken, Degree
  <2>3. RestAt(bytes, base, length, length, 31, register)  BY <2>2
  <2> QED BY <1>1, <2>3, RestEnds
<1> QED BY <1>2, <1>3, <1>4

LEMMA TakeByteCrc == CrcInv /\ TakeByte => CrcInv'
<1> SUFFICES ASSUME CrcInv, TakeByte PROVE CrcInv'  OBVIOUS
<1>1. /\ place = "byte" /\ place' = "bit" /\ i < length /\ base + i < MEMORY_SIZE
      /\ i' = i /\ j' = 0 /\ crc' = Xor(crc, TopByte(memory[base + i]))
      /\ UNCHANGED <<memory, caller, size, remaining_size, base, length, calculated_crc, answer>>
  BY DEF TakeByte
<1>2. answer = "none"  BY <1>1 DEF CrcInv, Passed
<1>3. crc' \in Register
  BY <1>1, TakenByteType DEF CrcInv, CrcTypeOK
<1>4. CrcTypeOK' /\ LoopsInRange' /\ ChunksCount' /\ Passed'
  BY <1>1, <1>2, <1>3 DEF CrcInv, CrcTypeOK, LoopsInRange, ChunksCount, Passed, Verdicts
<1>5. DataRead' => RestAt(memory, base', length', Taken', Degree', crc')
  <2>1. DataRead' => DataRead  BY <1>1 DEF DataRead
  <2>2. crc \in Register  BY DEF CrcInv, CrcTypeOK
  <2>3. DataRead => RestAt(memory, base, length, Taken, Degree, crc)  BY DEF CrcInv
  <2> QED BY <1>1, <2>1, <2>2, <2>3, LoopsDivide
<1> QED BY <1>1, <1>2, <1>4, <1>5 DEF CrcInv, Verdicts

LEMMA TakeBitCrc == CrcInv /\ TakeBit => CrcInv'
<1> SUFFICES ASSUME CrcInv, TakeBit PROVE CrcInv'  OBVIOUS
<1>1. /\ place = "bit" /\ i < length /\ base + i < MEMORY_SIZE /\ crc' = NextBit(crc)
      /\ \/ j < 7 /\ j' = j + 1 /\ i' = i /\ place' = "bit"
         \/ j' = 0 /\ i' = i + 1 /\ place' = "byte"
      /\ UNCHANGED <<memory, caller, size, remaining_size, base, length, calculated_crc, answer>>
  BY DEF TakeBit, CrcInv, LoopsInRange
<1>2. answer = "none"  BY <1>1 DEF CrcInv, Passed
<1>3. crc' \in Register
  BY <1>1, NextBitType DEF CrcInv, CrcTypeOK
<1>4. base \in Nat /\ length \in Nat /\ i \in Nat /\ j \in 0 .. 7 /\ MEMORY_SIZE \in Nat
  BY CrcAssumption DEF CrcInv, CrcTypeOK
<1>5. CrcTypeOK'
  BY <1>1, <1>3, <1>4 DEF CrcInv, CrcTypeOK
<1>6. LoopsInRange'
  BY <1>1, <1>4 DEF CrcInv, LoopsInRange
<1>7. ChunksCount' /\ Passed'
  BY <1>1, <1>2 DEF CrcInv, ChunksCount, Passed, Verdicts
<1>8. DataRead' => RestAt(memory, base', length', Taken', Degree', crc')
  <2>1. DataRead' => DataRead  BY <1>1 DEF DataRead
  <2>2. crc \in Register  BY DEF CrcInv, CrcTypeOK
  <2>3. DataRead => RestAt(memory, base, length, Taken, Degree, crc)  BY DEF CrcInv
  <2> QED BY <1>1, <2>1, <2>2, <2>3, LoopsDivide
<1> QED BY <1>1, <1>2, <1>5, <1>6, <1>7, <1>8 DEF CrcInv, Verdicts

\* When CRC_Calculate returns, its data was all in the memory, and the register
\* holds the remainder.
LEMMA LoopEnds ==
  ASSUME CrcInv, place = "byte", i = length
  PROVE  DataRead /\ crc = DataRemainder(memory, base, length)
<1>1. DataRead  BY DEF CrcInv, LoopsInRange, DataRead
<1>2. crc \in Register  BY DEF CrcInv, CrcTypeOK
<1>3. RestAt(memory, base, length, Taken, Degree, crc)  BY <1>1 DEF CrcInv
<1> QED BY <1>1, <1>2, <1>3, LoopsDivide

LEMMA ChunkDoneCrc == CrcInv /\ ChunkDone => CrcInv'
<1> SUFFICES ASSUME CrcInv, ChunkDone PROVE CrcInv'  OBVIOUS
<1>1. /\ place = "byte" /\ i = length /\ caller = "CRC_Validate" /\ place' = "chunk"
      /\ calculated_crc' = Complement(crc)
      /\ UNCHANGED <<memory, caller, size, remaining_size, base, length, i, j, crc, answer>>
  BY DEF ChunkDone, Return
<1>2. DataRead /\ crc = DataRemainder(memory, base, length) /\ length > 0 /\ answer = "none"
  BY <1>1, LoopEnds DEF CrcInv, LoopsInRange, Passed
<1>3. CrcTypeOK'
  BY <1>1, Complements DEF CrcInv, CrcTypeOK
<1>4. LoopsInRange' /\ ChunksCount' /\ Passed' /\ ~DataRead'
  BY <1>1, <1>2 DEF CrcInv, LoopsInRange, ChunksCount, Passed, DataRead, Verdicts
<1>5. calculated_crc' = Checksum(caller, memory, base, length)
  <2>1. length # 0  BY <1>2
  <2> QED BY <1>1, <1>2, <2>1 DEF Checksum
<1> QED BY <1>1, <1>3, <1>4, <1>5 DEF CrcInv

LEMMA CompareStoredCrc == CrcInv /\ CompareStored => CrcInv'
<1> SUFFICES ASSUME CrcInv, CompareStored PROVE CrcInv'  OBVIOUS
<1>1. /\ place = "chunk" /\ place' = "idle" /\ caller = "CRC_Validate" /\ remaining_size = 0
      /\ answer' = Verdict(Complement(calculated_crc) = WordAt(StoredCrcAddress))
      /\ UNCHANGED <<memory, caller, size, remaining_size, base, length, i, j, crc, calculated_crc>>
  BY DEF CompareStored, CrcInv, LoopsInRange
<1>2. CrcTypeOK'
  BY <1>1 DEF CrcInv, CrcTypeOK, Verdict, Answers
<1>3. LoopsInRange' /\ ChunksCount' /\ ~DataRead'
  BY <1>1 DEF CrcInv, LoopsInRange, ChunksCount, DataRead
<1>4. Passed'
  <2>1. base + length <= MEMORY_SIZE  BY <1>1 DEF CrcInv, LoopsInRange
  <2>2. answer' = Verdict(Presented(caller', calculated_crc') = Word(memory', CheckStart'))
    BY <1>1 DEF Presented, Word, WordAt, CheckStart
  <2> QED BY <1>1, <2>1, <2>2 DEF Passed
<1>5. calculated_crc = Checksum(caller, memory, base, length)  BY <1>1 DEF CrcInv
<1> QED BY <1>1, <1>2, <1>3, <1>4, <1>5 DEF CrcInv

LEMMA PacketDoneCrc == CrcInv /\ PacketDone => CrcInv'
<1> SUFFICES ASSUME CrcInv, PacketDone PROVE CrcInv'  OBVIOUS
<1>1. /\ place = "byte" /\ i = length /\ caller = "ValidatePacket" /\ size <= MEMORY_SIZE
      /\ place' = "idle" /\ calculated_crc' = Complement(crc)
      /\ answer' = Verdict(Complement(crc) = WordAt(size - 4))
      /\ UNCHANGED <<memory, caller, size, remaining_size, base, length, i, j, crc>>
  BY DEF PacketDone, Return
<1>2. CrcTypeOK'
  BY <1>1, Complements DEF CrcInv, CrcTypeOK, Verdict, Answers
<1>3. LoopsInRange' /\ ChunksCount' /\ ~DataRead'
  BY <1>1 DEF LoopsInRange, ChunksCount, DataRead
<1>4. base + length <= MEMORY_SIZE /\ crc = DataRemainder(memory, base, length)
  BY <1>1, LoopEnds DEF DataRead
<1>5. base = 0 /\ length = (size - 4) % UINT32_RANGE /\ size \in Nat /\ length \in Nat
  BY <1>1 DEF CrcInv, LoopsInRange, CrcTypeOK
<1>6. size \in 4 .. MEMORY_SIZE
  <2>1. length <= MEMORY_SIZE  BY <1>4, <1>5
  <2> QED BY <1>1, <1>5, <2>1, PacketSize
<1>7. length = size - 4
  <2>1. \A m \in Nat : \A k \in 0 .. m - 1 : m > 0 => (k % m) = k  BY SMT
  <2>2. UINT32_RANGE \in Nat /\ MEMORY_SIZE \in Nat /\ UINT32_RANGE > MEMORY_SIZE + 8
    BY CrcAssumption
  <2>3. size - 4 \in 0 .. UINT32_RANGE - 1  BY <1>6, <2>2
  <2> QED BY <1>5, <2>1, <2>2, <2>3
<1>8. Passed'
  <2>1. answer' = Verdict(Presented(caller', calculated_crc') = Word(memory', CheckStart'))
    BY <1>1 DEF Presented, Word, WordAt, CheckStart
  <2> QED BY <1>1, <1>4, <1>5, <1>6, <1>7, <2>1 DEF Passed
<1>9. calculated_crc' = Checksum(caller, memory, base, length)
  BY <1>1, <1>4 DEF Checksum
<1> QED BY <1>1, <1>2, <1>3, <1>8, <1>9 DEF CrcInv

LEMMA OtherCrc == CrcInv /\ (ExpectedDone \/ ReadBeyond \/ Reset \/ UNCHANGED crcVars) => CrcInv'
<1>1. CrcInv /\ ExpectedDone => CrcInv'
  <2> SUFFICES ASSUME CrcInv, ExpectedDone PROVE CrcInv'  OBVIOUS
  <2>1. /\ place' = "idle" /\ answer = "none" /\ calculated_crc' = Complement(crc)
        /\ UNCHANGED <<memory, caller, size, remaining_size, base, length, i, j, crc, answer>>
    BY DEF ExpectedDone, Return, CrcInv, Passed
  <2>2. CrcTypeOK'  BY <2>1, Complements DEF CrcInv, CrcTypeOK
  <2> QED BY <2>1, <2>2 DEF CrcInv, LoopsInRange, ChunksCount, Passed, DataRead, Verdicts
<1>2. CrcInv /\ ReadBeyond => CrcInv'
  <2> SUFFICES ASSUME CrcInv, ReadBeyond PROVE CrcInv'  OBVIOUS
  <2>1. /\ place' = "fault" /\ answer = "none"
        /\ UNCHANGED <<memory, caller, size, remaining_size, base, length, i, j, crc,
                       calculated_crc, answer>>
    BY DEF ReadBeyond, CrcInv, Passed
  <2>2. CrcTypeOK'  BY <2>1 DEF CrcInv, CrcTypeOK
  <2> QED BY <2>1, <2>2 DEF CrcInv, LoopsInRange, ChunksCount, Passed, DataRead, Verdicts
<1>3. CrcInv /\ Reset => CrcInv'
  <2> SUFFICES ASSUME CrcInv, Reset PROVE CrcInv'  OBVIOUS
  <2>1. CrcTypeOK'
    BY DEF Reset, CrcInv, CrcTypeOK, Callers, Answers, Register
  <2>2. place' = "idle" /\ answer' = "none"  BY DEF Reset
  <2> QED BY <2>1, <2>2 DEF CrcInv, LoopsInRange, ChunksCount, Passed, DataRead, Verdicts
<1>4. CrcInv /\ UNCHANGED crcVars => CrcInv'
  <2> SUFFICES ASSUME CrcInv, UNCHANGED crcVars PROVE CrcInv'  OBVIOUS
  <2>1. UNCHANGED <<memory, place, caller, size, remaining_size, base, length, i, j, crc,
                   calculated_crc, answer>>
    BY DEF crcVars, control
  <2>2. CrcTypeOK' /\ LoopsInRange' /\ ChunksCount'
    BY <2>1 DEF CrcInv, CrcTypeOK, LoopsInRange, ChunksCount
  <2>3. Passed'
    BY <2>1 DEF CrcInv, Passed, CheckStart
  <2>4. /\ DataRead' = DataRead /\ Taken' = Taken /\ Degree' = Degree
    BY <2>1 DEF DataRead, Taken, Degree
  <2> QED BY <2>1, <2>2, <2>3, <2>4 DEF CrcInv
<1> QED BY <1>1, <1>2, <1>3, <1>4

LEMMA NextCrcInv == CrcInv /\ [Next]_crcVars => CrcInv'
<1> SUFFICES ASSUME CrcInv, [Next]_crcVars PROVE CrcInv'  OBVIOUS
<1>1. ASSUME NEW n \in Sizes,
             \/ CRC_Validate(n) \/ NoBuffer(n)
             \/ CRC_UpdateExpected(n) \/ CommunicationManager_ValidatePacket(n)
      PROVE  CrcInv'
  <2>1. n \in Nat /\ n < UINT32_RANGE  BY CrcAssumption
  <2> QED BY <1>1, <2>1, EnterCrc DEF NoBuffer
<1>2. CASE ValidationManager_ValidateFirmware \/ MagicMissing
  <2>1. PARTITION_SIZE \in Nat /\ PARTITION_SIZE < UINT32_RANGE  BY CrcAssumption
  <2> QED BY <1>2, <2>1, EnterCrc DEF ValidationManager_ValidateFirmware, MagicMissing, NoBuffer
<1> QED BY <1>1, <1>2, CopyChunkCrc, TakeByteCrc, TakeBitCrc, ChunkDoneCrc, CompareStoredCrc,
           PacketDoneCrc, OtherCrc DEF Next

LEMMA AlwaysCrcInv == Spec => []CrcInv
BY InitCrcInv, NextCrcInv, PTL DEF Spec

----------------------------------------------------------------------------
\* The theorems about one calculation.

\* Whenever CRC_Calculate returns, for data of any length and contents, its
\* register is the remainder of that data (crc.c:21).
THEOREM RegisterIsRemainder == Spec => []RemainderCalculated
<1>1. CrcInv => RemainderCalculated
  BY LoopEnds DEF RemainderCalculated
<1> QED BY <1>1, AlwaysCrcInv, PTL

\* What every verdict says of the bytes it was passed on: a packet's of all its
\* data, a bank's of its last chunk, for partitions and chunks of every size
\* (crc.c:53, crc.c:61, communication_manager.c).
THEOREM VerdictsMean == Spec => []VerdictMeaning
<1>1. ASSUME CrcInv, answer \in Verdicts
      PROVE  /\ caller = "ValidatePacket" =>
                  (answer = "true" <=> WordAt(size - 4)
                                         = Complement(DataRemainder(memory, 0, size - 4)))
             /\ caller = "CRC_Validate" =>
                  (answer = "true" <=> WordAt(StoredCrcAddress)
                     = IF length = 0 THEN {} ELSE DataRemainder(memory, base, length))
  <2>1. /\ answer = Verdict(Presented(caller, calculated_crc) = Word(memory, CheckStart))
        /\ calculated_crc = Checksum(caller, memory, base, length)
        /\ \/ caller = "CRC_Validate"
           \/ caller = "ValidatePacket" /\ base = 0 /\ length = size - 4
    BY <1>1 DEF CrcInv, Passed
  <2>2. \A p \in BOOLEAN : Verdict(p) = "true" <=> p  BY DEF Verdict
  <2>3. Word(memory, CheckStart) = WordAt(CheckStart)  BY DEF Word, WordAt
  <2>4. CASE caller = "ValidatePacket"
    BY <2>1, <2>2, <2>3, <2>4 DEF Presented, Checksum, CheckStart
  <2>5. CASE caller = "CRC_Validate"
    <3>1. DataRemainder(memory, base, length) \in Register
      BY <1>1, DataRemainderType DEF CrcInv, CrcTypeOK
    <3>2. Complement(INITIAL_CRC_VALUE) = {}  BY DEF Complement, INITIAL_CRC_VALUE
    <3>3. Presented(caller, calculated_crc)
            = IF length = 0 THEN {} ELSE DataRemainder(memory, base, length)
      BY <2>1, <2>5, <3>1, <3>2, Complements DEF Presented, Checksum
    <3> QED BY <2>1, <2>2, <2>3, <2>5, <3>3 DEF CheckStart
  <2> QED BY <2>1, <2>4, <2>5
<1>2. CrcInv => VerdictMeaning  BY <1>1 DEF VerdictMeaning, Verdicts
<1> QED BY <1>2, AlwaysCrcInv, PTL

\* CRC_UpdateExpected calculates the complement of the remainder of its data, and
\* for a bank of one chunk no call of CRC_Validate accepts a stored word that is
\* the complement of the remainder: what the one stores the other refuses, for
\* every firmware of that size (crc.c:61, crc.c:101).
THEOREM ExpectedIsRefused ==
  Spec => /\ [][ExpectedDone => calculated_crc'
                                  = Complement(DataRemainder(memory, base, length))]_crcVars
          /\ [](/\ caller = "CRC_Validate" /\ answer = "true" /\ base = 0 /\ length > 0
                => WordAt(StoredCrcAddress) # Complement(DataRemainder(memory, 0, length)))
<1> DEFINE Expected == ExpectedDone => calculated_crc'
                                         = Complement(DataRemainder(memory, base, length))
           Refused  == /\ caller = "CRC_Validate" /\ answer = "true"
                       /\ base = 0 /\ length > 0
                       => WordAt(StoredCrcAddress) # Complement(DataRemainder(memory, 0, length))
<1>1. RemainderCalculated /\ [Next]_crcVars => [Expected]_crcVars
  BY DEF RemainderCalculated, ExpectedDone, Return
<1>2. ASSUME CrcInv, VerdictMeaning PROVE Refused
  <2>1. SUFFICES ASSUME caller = "CRC_Validate", answer = "true", base = 0, length > 0
                 PROVE  WordAt(StoredCrcAddress) # Complement(DataRemainder(memory, 0, length))
    OBVIOUS
  <2>2. length # 0  BY <1>2, <2>1 DEF CrcInv, CrcTypeOK
  <2>3. WordAt(StoredCrcAddress) = DataRemainder(memory, 0, length)
    BY <1>2, <2>1, <2>2 DEF VerdictMeaning
  <2>4. ASSUME NEW r PROVE r # Complement(r)
    BY DEF Complement
  <2> QED BY <2>3, <2>4
<1> QED BY <1>1, <1>2, RegisterIsRemainder, VerdictsMean, AlwaysCrcInv, PTL DEF Spec

----------------------------------------------------------------------------
\* Why a calculation ends.

\* The steps that are left at most: nine for a byte, and two for a chunk, which
\* has a byte at least.
CalculationWork ==
  CASE place = "chunk" -> 12 * remaining_size + 1
    [] place = "byte"  -> 12 * remaining_size + 9 * (length - i) + 2
    [] place = "bit"   -> 12 * remaining_size + 9 * (length - i) + 1 - j
    [] OTHER           -> 0

Calculating ==
  \/ CopyChunk \/ TakeByte \/ ReadBeyond \/ TakeBit
  \/ ChunkDone \/ CompareStored \/ PacketDone \/ ExpectedDone

LEMMA WorkCounts ==
  ASSUME CrcInv
  PROVE  /\ CalculationWork \in Nat
         /\ place \in {"chunk", "byte", "bit"} => CalculationWork > 0
<1>1. /\ remaining_size \in Nat /\ length \in Nat /\ i \in 0 .. length /\ j \in 0 .. 7
      /\ place \in {"idle", "chunk", "byte", "bit", "fault"}
      /\ place = "bit" => i < length
  BY DEF CrcInv, CrcTypeOK, LoopsInRange
<1> QED BY <1>1 DEF CalculationWork

LEMMA CalculatingWork ==
  ASSUME CrcInv, Calculating
  PROVE  CalculationWork' < CalculationWork
<1>1. /\ remaining_size \in Nat /\ length \in Nat /\ i \in 0 .. length /\ j \in 0 .. 7
      /\ place = "bit" => i < length
  BY DEF CrcInv, CrcTypeOK, LoopsInRange
<1>2. CASE CopyChunk
  <2>1. length' \in 1 .. remaining_size /\ remaining_size' = remaining_size - length'
    BY <1>1, <1>2, CrcAssumption DEF CopyChunk, ChunkLength
  <2>2. place = "chunk" /\ place' \in {"byte", "fault"} /\ i' = 0
    BY <1>2 DEF CopyChunk
  <2> QED BY <1>1, <2>1, <2>2 DEF CalculationWork
<1>3. CASE TakeByte
  BY <1>1, <1>3 DEF TakeByte, CalculationWork
<1>4. CASE TakeBit
  BY <1>1, <1>4 DEF TakeBit, CalculationWork
<1>5. CASE ChunkDone
  BY <1>1, <1>5 DEF ChunkDone, Return, CalculationWork
<1>6. CASE ReadBeyond \/ CompareStored \/ PacketDone \/ ExpectedDone
  <2>1. place \in {"chunk", "byte"} /\ place' \in {"idle", "fault"}
    BY <1>6 DEF ReadBeyond, CompareStored, PacketDone, ExpectedDone, Return
  <2>2. CalculationWork' = 0  BY <2>1 DEF CalculationWork
  <2> QED BY <2>1, <2>2, WorkCounts
<1> QED BY <1>2, <1>3, <1>4, <1>5, <1>6 DEF Calculating

\* No calculation goes on for ever, whatever size it was called with: each of its
\* steps leaves it less to do, a length that wrapped around included, which ends
\* in a fault (CRC_Calculate, CRC_Validate).
THEOREM CalculationsAreBounded ==
  Spec => /\ [](CalculationWork \in Nat)
          /\ [][Calculating => CalculationWork' < CalculationWork]_crcVars
<1>1. CrcInv => CalculationWork \in Nat  BY WorkCounts
<1>2. CrcInv /\ [Next]_crcVars => [Calculating => CalculationWork' < CalculationWork]_crcVars
  BY CalculatingWork
<1> QED BY <1>1, <1>2, AlwaysCrcInv, PTL DEF Spec

----------------------------------------------------------------------------
\* The lengths.

\* A size that leaves more than the memory to read has less than its trailer or
\* more than the memory; one with less than its trailer leaves more than the
\* memory, unless it has more than that itself.
LEMMA TrailerWraps ==
  ASSUME NEW n \in Nat, NEW t \in 0 .. 8, n < UINT32_RANGE
  PROVE  /\ (n - t) % UINT32_RANGE > MEMORY_SIZE => n < t \/ n > MEMORY_SIZE
         /\ n < t => (n - t) % UINT32_RANGE > MEMORY_SIZE
<1>1. MEMORY_SIZE \in Nat /\ UINT32_RANGE \in Nat /\ UINT32_RANGE > MEMORY_SIZE + 8
  BY CrcAssumption
<1>2. CASE n < t
  <2>1. \A m \in Nat, k \in Int : m > 8 /\ k < 0 /\ k >= -8 => (k % m) = k + m  BY SMT
  <2> DEFINE d == n - t
  <2>2. d \in Int /\ d < 0 /\ d >= -8  BY <1>2
  <2>3. d % UINT32_RANGE = d + UINT32_RANGE
    <3> HIDE DEF d
    <3>1. UINT32_RANGE > 8  BY <1>1
    <3> QED BY <1>1, <2>1, <2>2, <3>1
  <2> QED BY <1>1, <1>2, <2>2, <2>3
<1>3. CASE n >= t
  <2>1. \A m \in Nat : \A k \in 0 .. m - 1 : m > 0 => (k % m) = k  BY SMT
  <2>2. n - t \in 0 .. UINT32_RANGE - 1  BY <1>1, <1>3
  <2>3. (n - t) % UINT32_RANGE = n - t  BY <1>1, <2>1, <2>2
  <2> QED BY <1>1, <1>3, <2>3
<1> QED BY <1>2, <1>3

\* What is left of the size while a call calculates, and of one that faulted.
Lengths ==
  /\ place \in {"byte", "bit"} /\ caller = "CRC_UpdateExpected" =>
       base = 0 /\ length = (size - CRC_METADATA_SIZE) % UINT32_RANGE /\ size < UINT32_RANGE
  /\ place = "fault" => size < Trailer \/ size > MEMORY_SIZE

\* A call that reads on beyond the memory had a size that makes it.
LEMMA FaultLengths ==
  ASSUME CrcInv, Lengths, CopyChunk \/ ReadBeyond, place' = "fault"
  PROVE  size < Trailer \/ size > MEMORY_SIZE
<1>1. /\ size \in Nat /\ base \in Nat /\ length \in Nat /\ remaining_size \in Nat
      /\ i \in 0 .. length /\ caller \in Callers
      /\ MEMORY_SIZE \in Nat /\ CHUNK_SIZE \in Nat \ {0}
  BY CrcAssumption DEF CrcInv, CrcTypeOK
<1>2. CASE CopyChunk
  <2>1. caller = "CRC_Validate" /\ size < UINT32_RANGE
    BY <1>2 DEF CopyChunk, CrcInv, LoopsInRange, ChunksCount
  <2>2. base + length + remaining_size = (size - 8) % UINT32_RANGE
    BY <1>2, <2>1 DEF CopyChunk, CrcInv, ChunksCount, CRC_METADATA_SIZE
  <2>3. base + length + ChunkLength > MEMORY_SIZE /\ ChunkLength <= remaining_size
        /\ ChunkLength \in Nat
    <3>1. base' = base + length /\ length' = ChunkLength
          /\ ~(base' + length' <= MEMORY_SIZE)
      BY <1>2 DEF CopyChunk
    <3>2. ChunkLength <= remaining_size /\ ChunkLength \in Nat  BY <1>1 DEF ChunkLength
    <3> QED BY <1>1, <3>1, <3>2
  <2>4. (size - 8) % UINT32_RANGE > MEMORY_SIZE  BY <1>1, <2>2, <2>3
  <2> QED BY <1>1, <2>1, <2>4, TrailerWraps DEF Trailer, CRC_METADATA_SIZE
<1>3. CASE ReadBeyond
  <2>1. place = "byte"  BY <1>3 DEF ReadBeyond
  <2>2. size < UINT32_RANGE
    BY <1>1, <2>1 DEF Callers, CrcInv, LoopsInRange, ChunksCount, Lengths
  <2>3. CASE i < length /\ base + i >= MEMORY_SIZE
    <3>1. base + length > MEMORY_SIZE  BY <1>1, <2>3
    <3>2. CASE caller = "ValidatePacket"
      <4>1. (size - 4) % UINT32_RANGE > MEMORY_SIZE
        BY <1>1, <2>1, <3>1, <3>2 DEF CrcInv, LoopsInRange
      <4> QED BY <1>1, <2>2, <3>2, <4>1, TrailerWraps DEF Trailer
    <3>3. CASE caller = "CRC_UpdateExpected"
      <4>1. (size - 8) % UINT32_RANGE > MEMORY_SIZE
        BY <1>1, <2>1, <3>1, <3>3 DEF Lengths, CRC_METADATA_SIZE
      <4> QED BY <1>1, <2>2, <3>3, <4>1, TrailerWraps DEF Trailer, CRC_METADATA_SIZE
    <3>4. CASE caller = "CRC_Validate"
      <4>1. base + length + remaining_size = (size - 8) % UINT32_RANGE
        BY <2>1, <3>4 DEF CrcInv, ChunksCount, CRC_METADATA_SIZE
      <4>2. (size - 8) % UINT32_RANGE > MEMORY_SIZE  BY <1>1, <3>1, <4>1
      <4> QED BY <1>1, <2>2, <3>4, <4>2, TrailerWraps DEF Trailer, CRC_METADATA_SIZE
    <3> QED BY <1>1, <3>2, <3>3, <3>4 DEF Callers
  <2> QED BY <1>3, <2>3 DEF ReadBeyond
<1> QED BY <1>2, <1>3

LEMMA NextLengths == CrcInv /\ Lengths /\ [Next]_crcVars => Lengths'
<1> SUFFICES ASSUME CrcInv, Lengths, [Next]_crcVars PROVE Lengths'  OBVIOUS
<1>1. ASSUME NEW n \in Sizes,
             \/ CRC_Validate(n) \/ NoBuffer(n)
             \/ CRC_UpdateExpected(n) \/ CommunicationManager_ValidatePacket(n)
      PROVE  Lengths'
  <2>1. n < UINT32_RANGE  BY CrcAssumption
  <2>2. /\ size' = n /\ base' = 0 /\ place' # "fault"
        /\ caller' = "CRC_UpdateExpected" =>
             length' = (n - CRC_METADATA_SIZE) % UINT32_RANGE
    BY <1>1 DEF CRC_Validate, NoBuffer, Refuse, CRC_UpdateExpected,
       CommunicationManager_ValidatePacket, Calculate, Enter
  <2> QED BY <2>1, <2>2 DEF Lengths
<1>2. CASE ValidationManager_ValidateFirmware \/ MagicMissing
  <2>1. caller' = "CRC_Validate" /\ place' # "fault"
    BY <1>2 DEF ValidationManager_ValidateFirmware, MagicMissing, CRC_Validate, NoBuffer,
       Refuse, Enter
  <2> QED BY <2>1 DEF Lengths
<1>3. CASE CopyChunk
  <2>1. caller = "CRC_Validate" /\ UNCHANGED <<caller, size>>
    BY <1>3 DEF CopyChunk, CrcInv, LoopsInRange
  <2>2. place' = "fault" => size < Trailer \/ size > MEMORY_SIZE  BY <1>3, FaultLengths
  <2> QED BY <2>1, <2>2 DEF Lengths, Trailer
<1>4. CASE ReadBeyond
  <2>1. place' = "fault" /\ UNCHANGED <<caller, size>>  BY <1>4 DEF ReadBeyond
  <2>2. size < Trailer \/ size > MEMORY_SIZE  BY <1>4, <2>1, FaultLengths
  <2> QED BY <2>1, <2>2 DEF Lengths, Trailer
<1>5. CASE TakeByte \/ TakeBit
  BY <1>5 DEF TakeByte, TakeBit, Lengths, Trailer
<1>6. CASE ChunkDone \/ CompareStored \/ PacketDone \/ ExpectedDone \/ Reset
  <2>1. place' \in {"idle", "chunk"}
    BY <1>6 DEF ChunkDone, CompareStored, PacketDone, ExpectedDone, Reset
  <2> QED BY <2>1 DEF Lengths
<1>7. CASE UNCHANGED crcVars
  BY <1>7 DEF crcVars, control, Lengths, Trailer
<1> QED BY <1>1, <1>2, <1>3, <1>4, <1>5, <1>6, <1>7 DEF Next

\* Only a size below its trailer or beyond the memory makes a call fault, and one
\* below its trailer is never judged: for memories, chunks and sizes of every
\* number of bytes (crc.c:44, crc.c:101, communication_manager.c:79).
THEOREM FaultsAreByLength == Spec => []FaultsByLength
<1>1. Init => Lengths
  BY DEF Init, Lengths
<1>2. ASSUME CrcInv, answer \in Verdicts, size < Trailer
      PROVE  FALSE
  <2>1. /\ base + length <= MEMORY_SIZE
        /\ \/ caller = "CRC_Validate" /\ remaining_size = 0
           \/ caller = "ValidatePacket" /\ size \in 4 .. MEMORY_SIZE
        /\ size \in Nat /\ base \in Nat /\ length \in Nat
    BY <1>2 DEF CrcInv, CrcTypeOK, Passed
  <2>2. CASE caller = "CRC_Validate" /\ remaining_size = 0
    <3>1. base + length = (size - 8) % UINT32_RANGE /\ size < UINT32_RANGE
      BY <1>2, <2>1, <2>2 DEF CrcInv, ChunksCount, CRC_METADATA_SIZE
    <3>2. (size - 8) % UINT32_RANGE > MEMORY_SIZE
      BY <1>2, <2>1, <2>2, <3>1, TrailerWraps DEF Trailer, CRC_METADATA_SIZE
    <3> QED BY <2>1, <3>1, <3>2, CrcAssumption
  <2>3. CASE caller = "ValidatePacket" /\ size \in 4 .. MEMORY_SIZE
    BY <1>2, <2>3, CrcAssumption DEF Trailer
  <2> QED BY <2>1, <2>2, <2>3
<1>3. CrcInv /\ Lengths => FaultsByLength
  BY <1>2 DEF Lengths, FaultsByLength, Verdicts
<1>4. Spec => [](CrcInv /\ Lengths)
  BY <1>1, InitCrcInv, NextCrcInv, NextLengths, PTL DEF Spec
<1> QED BY <1>3, <1>4, PTL

----------------------------------------------------------------------------
\* Two memories.

\* The two copies calculate with the same operators.
LEMMA SameArithmetic ==
  /\ Twin!Byte = Byte /\ Twin!Register = Register /\ Twin!Address = Address
  /\ Twin!INITIAL_CRC_VALUE = INITIAL_CRC_VALUE
  /\ Twin!StoredCrcAddress = StoredCrcAddress
  /\ \A x : /\ Twin!NextBit(x) = NextBit(x) /\ Twin!Complement(x) = Complement(x)
           /\ Twin!TopByte(x) = TopByte(x) /\ Twin!Verdict(x) = Verdict(x)
  /\ \A x, y : Twin!Xor(x, y) = Xor(x, y)
BY DEF Byte, Twin!Byte, Register, Twin!Register, Address, Twin!Address,
   INITIAL_CRC_VALUE, Twin!INITIAL_CRC_VALUE, StoredCrcAddress, Twin!StoredCrcAddress,
   CRC_METADATA_SIZE, Twin!CRC_METADATA_SIZE,
   NextBit, Twin!NextBit, ShiftLeft, Twin!ShiftLeft, CRC_POLYNOMIAL, Twin!CRC_POLYNOMIAL,
   Complement, Twin!Complement, TopByte, Twin!TopByte, Verdict, Twin!Verdict, Xor, Twin!Xor

\* What CrcInv says of the first copy's values holds of the second's.
TwinInv ==
  /\ twinMemory \in [Address -> Byte]
  /\ twinCrc \in Register /\ twinCalculated \in Register /\ twinAnswer \in Answers
  /\ DataRead => RestAt(twinMemory, base, length, Taken, Degree, twinCrc)
  /\ place = "chunk" \/ answer \in Verdicts =>
       twinCalculated = Checksum(caller, twinMemory, base, length)
  /\ place # "idle" => twinAnswer = "none"
  /\ twinAnswer \in Verdicts =>
       /\ answer \in Verdicts
       /\ twinAnswer = Verdict(Presented(caller, twinCalculated) = Word(twinMemory, CheckStart))

LEMMA InitTwinInv == PairInit => TwinInv
<1> SUFFICES ASSUME PairInit PROVE TwinInv  OBVIOUS
<1>1. twinMemory \in [Address -> Byte]
  BY CrcAssumption DEF PairInit, Twin!Init
<1>2. /\ twinCrc = {} /\ twinCalculated = {} /\ twinAnswer = "none"
      /\ place = "idle" /\ answer = "none"
  BY DEF PairInit, Init, Twin!Init
<1> QED BY <1>1, <1>2 DEF TwinInv, Register, Answers, Verdicts, DataRead

LEMMA EnterTwin ==
  ASSUME CrcInv, CrcInv', TwinInv, NEW n \in Nat,
         \/ CRC_Validate(n) /\ Twin!CRC_Validate(n)
         \/ \E why \in {"no_buffer", "no_magic"} : Refuse(n, why) /\ Twin!Refuse(n, why)
         \/ CRC_UpdateExpected(n) /\ Twin!CRC_UpdateExpected(n)
         \/ CommunicationManager_ValidatePacket(n) /\ Twin!CommunicationManager_ValidatePacket(n)
  PROVE  TwinInv'
<1>1. /\ twinMemory' = twinMemory
      /\ crc' = twinCrc' /\ calculated_crc' = twinCalculated'
      /\ twinAnswer' = answer' /\ answer' \in {"none", "no_buffer", "no_magic"}
      /\ place' \in {"chunk", "byte"} => answer' = "none"
      /\ place' \in {"idle", "chunk", "byte"} /\ base' = 0 /\ i' = 0 /\ j' = 0
      /\ place' = "byte" => twinCrc' = INITIAL_CRC_VALUE
      /\ place' = "chunk" => /\ caller' = "CRC_Validate" /\ length' = 0
                            /\ twinCalculated' = INITIAL_CRC_VALUE
  BY SameArithmetic DEF CRC_Validate, Twin!CRC_Validate, Refuse, Twin!Refuse,
     CRC_UpdateExpected, Twin!CRC_UpdateExpected, CommunicationManager_ValidatePacket,
     Twin!CommunicationManager_ValidatePacket, Calculate, Twin!Calculate, Enter, Twin!Enter
<1>2. crc' \in Register /\ calculated_crc' \in Register /\ length' \in Nat
  BY DEF CrcInv, CrcTypeOK
<1>3. place' = "byte" => RestAt(twinMemory', base', length', Taken', Degree', twinCrc')
  <2>1. place' = "byte" => Taken' = 0 /\ Degree' = 8 * length' + 31
    BY <1>1, <1>2 DEF Taken, Degree
  <2>2. RestAt(twinMemory', 0, length', 0, 8 * length' + 31, INITIAL_CRC_VALUE)
    BY <1>2, RestStarts
  <2> QED BY <1>1, <2>1, <2>2
<1>4. place' = "chunk" => twinCalculated' = Checksum(caller', twinMemory', base', length')
  BY <1>1 DEF Checksum
<1>5. /\ answer' \notin Verdicts /\ twinAnswer' \notin Verdicts /\ twinAnswer' \in Answers
      /\ (DataRead' => place' = "byte")
  BY <1>1 DEF Verdicts, Answers, DataRead
<1> QED BY <1>1, <1>2, <1>3, <1>4, <1>5 DEF TwinInv

LEMMA CopyChunkTwin == CrcInv /\ CrcInv' /\ TwinInv /\ CopyChunk /\ Twin!CopyChunk => TwinInv'
<1> SUFFICES ASSUME CrcInv, CrcInv', TwinInv, CopyChunk, Twin!CopyChunk PROVE TwinInv'  OBVIOUS
<1>1. /\ place = "chunk" /\ place' \in {"byte", "fault"} /\ i' = 0 /\ j' = 0
      /\ twinCrc' = INITIAL_CRC_VALUE /\ answer' = answer
      /\ UNCHANGED <<twinMemory, twinCalculated, twinAnswer>>
  BY SameArithmetic DEF CopyChunk, Twin!CopyChunk
<1>2. answer = "none" /\ twinAnswer = "none"
  BY <1>1 DEF CrcInv, Passed, TwinInv
<1>3. base' \in Nat /\ length' \in Nat  BY DEF CrcInv, CrcTypeOK
<1>4. RestAt(twinMemory', base', length', Taken', Degree', twinCrc')
  <2>1. Taken' = 0 /\ Degree' = 8 * length' + 31  BY <1>1, <1>3 DEF Taken, Degree
  <2> QED BY <1>1, <1>3, <2>1, RestStarts
<1>5. INITIAL_CRC_VALUE \in Register  BY DEF INITIAL_CRC_VALUE, Register
<1> QED BY <1>1, <1>2, <1>4, <1>5 DEF TwinInv, Verdicts

\* The twin's loops divide as the first copy's do.
LEMMA LoopsTwin ==
  /\ CrcInv /\ CrcInv' /\ TwinInv
  /\ (TakeByte /\ Twin!TakeByte) \/ (TakeBit /\ Twin!TakeBit)
  => TwinInv'
<1> SUFFICES ASSUME CrcInv, CrcInv', TwinInv,
                    (TakeByte /\ Twin!TakeByte) \/ (TakeBit /\ Twin!TakeBit)
             PROVE  TwinInv'
  OBVIOUS
<1>1. /\ place \in {"byte", "bit"} /\ place' \in {"byte", "bit"}
      /\ UNCHANGED <<twinMemory, twinCalculated, twinAnswer, answer, base, length>>
      /\ \/ TakeByte /\ twinCrc' = Xor(twinCrc, TopByte(twinMemory[base + i]))
         \/ TakeBit /\ twinCrc' = NextBit(twinCrc)
  BY SameArithmetic DEF TakeByte, Twin!TakeByte, TakeBit, Twin!TakeBit
<1>2. answer = "none" /\ twinAnswer = "none" /\ twinCrc \in Register
  BY <1>1 DEF CrcInv, Passed, TwinInv
<1>3. twinCrc' \in Register  BY <1>1, <1>2, TakenByteType, NextBitType
<1>4. DataRead' => RestAt(twinMemory, base', length', Taken', Degree', twinCrc')
  <2>1. DataRead' => DataRead  BY <1>1 DEF DataRead
  <2>2. DataRead => RestAt(twinMemory, base, length, Taken, Degree, twinCrc)  BY DEF TwinInv
  <2> QED BY <1>1, <1>2, <2>1, <2>2, LoopsDivide
<1> QED BY <1>1, <1>2, <1>3, <1>4 DEF TwinInv, Verdicts

LEMMA ChunkDoneTwin == CrcInv /\ CrcInv' /\ TwinInv /\ ChunkDone /\ Twin!ChunkDone => TwinInv'
<1> SUFFICES ASSUME CrcInv, CrcInv', TwinInv, ChunkDone, Twin!ChunkDone PROVE TwinInv'  OBVIOUS
<1>1. /\ place = "byte" /\ i = length /\ place' = "chunk" /\ caller = "CRC_Validate"
      /\ twinCalculated' = Complement(twinCrc)
      /\ UNCHANGED <<twinMemory, twinCrc, twinAnswer, answer, caller, base, length>>
  BY SameArithmetic DEF ChunkDone, Twin!ChunkDone, Return, Twin!Return
<1>2. DataRead /\ length > 0 /\ answer = "none" /\ twinAnswer = "none" /\ twinCrc \in Register
  BY <1>1, LoopEnds DEF CrcInv, LoopsInRange, Passed, TwinInv
<1>3. twinCrc = DataRemainder(twinMemory, base, length)
  <2>1. RestAt(twinMemory, base, length, Taken, Degree, twinCrc)  BY <1>2 DEF TwinInv
  <2> QED BY <1>1, <1>2, <2>1, LoopsDivide
<1>4. twinCalculated' = Checksum(caller, twinMemory, base, length)
  <2>1. length # 0  BY <1>2
  <2> QED BY <1>1, <1>3, <2>1 DEF Checksum
<1> QED BY <1>1, <1>2, <1>4, Complements DEF TwinInv, Verdicts, DataRead

LEMMA CompareStoredTwin ==
  CrcInv /\ CrcInv' /\ TwinInv /\ CompareStored /\ Twin!CompareStored => TwinInv'
<1> SUFFICES ASSUME CrcInv, CrcInv', TwinInv, CompareStored, Twin!CompareStored
             PROVE  TwinInv'
  OBVIOUS
<1>1. /\ place = "chunk" /\ place' = "idle"
      /\ twinAnswer' = Verdict(Complement(twinCalculated) = Twin!WordAt(StoredCrcAddress))
      /\ answer' \in Verdicts
      /\ UNCHANGED <<twinMemory, twinCrc, twinCalculated, caller, size, base, length>>
  BY SameArithmetic DEF CompareStored, Twin!CompareStored, Verdict, Verdicts
<1>2. caller = "CRC_Validate"  BY <1>1 DEF CrcInv, LoopsInRange
<1>3. twinAnswer' = Verdict(Presented(caller', twinCalculated') = Word(twinMemory', CheckStart'))
  BY <1>1, <1>2 DEF Presented, Word, Twin!WordAt, CheckStart
<1>4. twinAnswer' \in Answers  BY <1>1 DEF Verdict, Answers
<1> QED BY <1>1, <1>3, <1>4 DEF TwinInv, DataRead

LEMMA PacketDoneTwin ==
  CrcInv /\ CrcInv' /\ TwinInv /\ PacketDone /\ Twin!PacketDone => TwinInv'
<1> SUFFICES ASSUME CrcInv, CrcInv', TwinInv, PacketDone, Twin!PacketDone PROVE TwinInv'  OBVIOUS
<1>1. /\ place = "byte" /\ i = length /\ place' = "idle" /\ caller = "ValidatePacket"
      /\ twinCalculated' = Complement(twinCrc)
      /\ twinAnswer' = Verdict(twinCalculated' = Twin!WordAt(size - 4))
      /\ answer' \in Verdicts
      /\ UNCHANGED <<twinMemory, twinCrc, caller, size, base, length>>
  BY SameArithmetic DEF PacketDone, Twin!PacketDone, Return, Twin!Return, Verdict, Verdicts
<1>2. DataRead /\ twinCrc \in Register  BY <1>1, LoopEnds DEF TwinInv
<1>3. twinCrc = DataRemainder(twinMemory, base, length)
  <2>1. RestAt(twinMemory, base, length, Taken, Degree, twinCrc)  BY <1>2 DEF TwinInv
  <2> QED BY <1>1, <1>2, <2>1, LoopsDivide
<1>4. twinCalculated' = Checksum(caller, twinMemory, base, length)
  BY <1>1, <1>3 DEF Checksum
<1>5. twinAnswer' = Verdict(Presented(caller', twinCalculated') = Word(twinMemory', CheckStart'))
  BY <1>1 DEF Presented, Word, Twin!WordAt, CheckStart
<1>6. twinAnswer' \in Answers  BY <1>1 DEF Verdict, Answers
<1> QED BY <1>1, <1>2, <1>4, <1>5, <1>6, Complements DEF TwinInv, DataRead

LEMMA OtherTwin ==
  /\ CrcInv /\ CrcInv' /\ TwinInv
  /\ \/ ExpectedDone /\ Twin!ExpectedDone
     \/ ReadBeyond /\ Twin!ReadBeyond
     \/ Reset /\ Twin!Reset
     \/ UNCHANGED pairVars
  => TwinInv'
<1>1. TwinInv /\ CrcInv /\ ExpectedDone /\ Twin!ExpectedDone => TwinInv'
  <2> SUFFICES ASSUME TwinInv, CrcInv, ExpectedDone, Twin!ExpectedDone PROVE TwinInv'  OBVIOUS
  <2>1. /\ place = "byte" /\ place' = "idle" /\ twinCalculated' = Complement(twinCrc)
        /\ UNCHANGED <<twinMemory, twinCrc, twinAnswer, answer>>
    BY SameArithmetic DEF ExpectedDone, Twin!ExpectedDone, Return
  <2>2. answer = "none" /\ twinAnswer = "none" /\ twinCrc \in Register
    BY <2>1 DEF CrcInv, Passed, TwinInv
  <2> QED BY <2>1, <2>2, Complements DEF TwinInv, Verdicts, DataRead
<1>2. TwinInv /\ CrcInv /\ ReadBeyond /\ Twin!ReadBeyond => TwinInv'
  <2> SUFFICES ASSUME TwinInv, CrcInv, ReadBeyond, Twin!ReadBeyond PROVE TwinInv'  OBVIOUS
  <2>1. /\ place = "byte" /\ place' = "fault"
        /\ UNCHANGED <<twinMemory, twinCrc, twinCalculated, twinAnswer, answer>>
    BY DEF ReadBeyond, Twin!ReadBeyond
  <2>2. answer = "none" /\ twinAnswer = "none"
    BY <2>1 DEF CrcInv, Passed, TwinInv
  <2> QED BY <2>1, <2>2 DEF TwinInv, Verdicts, DataRead
<1>3. TwinInv /\ Reset /\ Twin!Reset => TwinInv'
  BY DEF Reset, Twin!Reset, TwinInv, Verdicts, DataRead, Register, Answers
<1>4. TwinInv /\ UNCHANGED pairVars => TwinInv'
  <2> SUFFICES ASSUME TwinInv, UNCHANGED pairVars PROVE TwinInv'  OBVIOUS
  <2>1. UNCHANGED <<twinMemory, place, caller, size, base, length, i, j, twinCrc,
                   twinCalculated, answer, twinAnswer>>
    BY DEF pairVars, twinVars, crcVars, control
  <2>2. DataRead' = DataRead /\ Taken' = Taken /\ Degree' = Degree /\ CheckStart' = CheckStart
    BY <2>1 DEF DataRead, Taken, Degree, CheckStart
  <2> QED BY <2>1, <2>2 DEF TwinInv
<1> QED BY <1>1, <1>2, <1>3, <1>4

LEMMA NextTwinInv == CrcInv /\ CrcInv' /\ TwinInv /\ [PairNext]_pairVars => TwinInv'
<1> SUFFICES ASSUME CrcInv, CrcInv', TwinInv, [PairNext]_pairVars PROVE TwinInv'  OBVIOUS
<1>1. ASSUME NEW n \in Sizes,
             \/ CRC_Validate(n) /\ Twin!CRC_Validate(n)
             \/ NoBuffer(n) /\ Twin!NoBuffer(n)
             \/ CRC_UpdateExpected(n) /\ Twin!CRC_UpdateExpected(n)
             \/ CommunicationManager_ValidatePacket(n) /\ Twin!CommunicationManager_ValidatePacket(n)
      PROVE  TwinInv'
  <2>1. n \in Nat  BY CrcAssumption
  <2> QED BY <1>1, <2>1, EnterTwin DEF NoBuffer, Twin!NoBuffer
<1>2. PARTITION_SIZE \in Nat  BY CrcAssumption
<1>3. CASE ValidationManager_ValidateFirmware /\ Twin!ValidationManager_ValidateFirmware
  <2>1. \/ CRC_Validate(PARTITION_SIZE) /\ Twin!CRC_Validate(PARTITION_SIZE)
        \/ Refuse(PARTITION_SIZE, "no_buffer") /\ Twin!Refuse(PARTITION_SIZE, "no_buffer")
    <3>1. CRC_Validate(PARTITION_SIZE) \/ Twin!CRC_Validate(PARTITION_SIZE) => place' = "chunk"
      BY DEF CRC_Validate, Twin!CRC_Validate
    <3>2. Refuse(PARTITION_SIZE, "no_buffer") \/ Twin!Refuse(PARTITION_SIZE, "no_buffer")
            => place' = "idle"
      BY DEF Refuse, Twin!Refuse, Enter, Twin!Enter
    <3> QED BY <1>3, <3>1, <3>2 DEF ValidationManager_ValidateFirmware,
               Twin!ValidationManager_ValidateFirmware, NoBuffer, Twin!NoBuffer
  <2> QED BY <1>2, <2>1, EnterTwin
<1>4. CASE MagicMissing /\ Twin!MagicMissing
  BY <1>2, <1>4, EnterTwin DEF MagicMissing, Twin!MagicMissing
<1> QED BY <1>1, <1>3, <1>4, CopyChunkTwin, LoopsTwin, ChunkDoneTwin, CompareStoredTwin,
           PacketDoneTwin, OtherTwin DEF PairNext

\* The first copy of a pair runs as it would alone.
LEMMA PairRefines == PairSpec => Spec
<1>1. PairInit => Init  BY DEF PairInit
<1>2. [PairNext]_pairVars => [Next]_crcVars
  BY DEF PairNext, pairVars, Next
<1> QED BY <1>1, <1>2, PTL DEF PairSpec, Spec

LEMMA AlwaysPairInv == PairSpec => [](CrcInv /\ TwinInv)
<1>1. PairSpec => []CrcInv  BY PairRefines, AlwaysCrcInv, PTL
<1> QED BY <1>1, InitTwinInv, NextTwinInv, PTL DEF PairSpec

----------------------------------------------------------------------------
\* The theorems about two memories.

\* Both calculations keep their registers to 32 bits and their counters in
\* range, whatever sizes callers pass (crc.c).
THEOREM PairTypesKept == PairSpec => []PairTypeOK
<1>1. CrcInv /\ TwinInv => PairTypeOK
  BY SameArithmetic DEF CrcInv, TwinInv, PairTypeOK, CrcTypeOK, Twin!CrcTypeOK, Callers,
     Twin!Callers, Answers, Twin!Answers
<1> QED BY <1>1, AlwaysPairInv, PTL

\* A word is made of its four bytes, and shows a difference in each of them.
LEMMA WordsAgree ==
  ASSUME NEW p \in [Address -> Byte], NEW q \in [Address -> Byte], NEW address \in Nat,
         WordBytes(address) \subseteq Address
  PROVE  Word(p, address) = Word(q, address) <=> \A a \in WordBytes(address) : p[a] = q[a]
<1>1. \A b \in 0 .. 31 : (b \div 8) \in 0 .. 3  BY SMT
<1>2. \A k \in 0 .. 3, d \in 0 .. 7 :
        8 * k + d \in 0 .. 31 /\ ((8 * k + d) % 8) = d /\ ((8 * k + d) \div 8) = k
  BY SMT
<1>3. ASSUME \A a \in WordBytes(address) : p[a] = q[a]
      PROVE  Word(p, address) = Word(q, address)
  <2>1. ASSUME NEW b \in 0 .. 31
        PROVE  p[address + (b \div 8)] = q[address + (b \div 8)]
    <3>1. \A k \in 0 .. 3 : address + k \in address .. address + 3  OBVIOUS
    <3>2. address + (b \div 8) \in WordBytes(address)  BY <1>1, <3>1 DEF WordBytes
    <3> QED BY <1>3, <3>2
  <2> QED BY <2>1 DEF Word
<1>4. ASSUME NEW a \in WordBytes(address), p[a] # q[a]
      PROVE  Word(p, address) # Word(q, address)
  <2>1. PICK k \in 0 .. 3 : a = address + k
    <3>1. a - address \in 0 .. 3 /\ a = address + (a - address)  BY DEF WordBytes
    <3> QED BY <3>1
  <2>2. p[a] \in Byte /\ q[a] \in Byte  OBVIOUS
  <2>3. PICK d \in 0 .. 7 : (d \in p[a]) # (d \in q[a])
    BY <1>4, <2>2 DEF Byte
  <2>4. PICK b \in 0 .. 31 : (b % 8) = d /\ (b \div 8) = k  BY <1>2
  <2>5. (b \in Word(p, address)) # (b \in Word(q, address))
    BY <2>1, <2>3, <2>4 DEF Word
  <2> QED BY <2>5
<1> QED BY <1>3, <1>4

\* Polynomials of bytes that agree are equal.
LEMMA PolynomialsAgree ==
  ASSUME NEW p, NEW q, NEW from \in Nat, NEW n \in Nat,
         \A a \in from .. from + n - 1 : p[a] = q[a]
  PROVE  Polynomial(p, from, n) = Polynomial(q, from, n)
<1>1. ASSUME NEW d \in 32 .. 8 * n + 31
      PROVE  from + n - 1 - ((d - 32) \div 8) \in from .. from + n - 1
  <2>1. d - 32 \in 0 .. 8 * n - 1  OBVIOUS
  <2>2. \A m \in Nat : \A k \in 0 .. 8 * m - 1 : (k \div 8) \in 0 .. m - 1  BY SMT
  <2>3. ((d - 32) \div 8) \in 0 .. n - 1  BY <2>1, <2>2
  <2> QED BY <2>3
<1>2. \A d \in 32 .. 8 * n + 31 : p[from + n - 1 - ((d - 32) \div 8)]
                                   = q[from + n - 1 - ((d - 32) \div 8)]
  BY <1>1
<1> QED BY <1>2 DEF Polynomial

\* A verdict compares the remainder of LastData with the check word, and the
\* remainders of a pair differ by that of the errors.
LEMMA VerdictCompares ==
  ASSUME CrcInv, TwinInv, Judged
  PROVE  /\ caller \in {"CRC_Validate", "ValidatePacket"}
         /\ Errors = {} => calculated_crc = twinCalculated
         /\ Burst => calculated_crc # twinCalculated
         /\ AgreeOn(LastData) => Errors = {}
         /\ Word(memory, CheckStart) = Word(twinMemory, CheckStart) <=> AgreeOn(CheckWord)
         /\ answer = "true" <=> Presented(caller, calculated_crc) = Word(memory, CheckStart)
         /\ twinAnswer = "true" <=>
              Presented(caller, twinCalculated) = Word(twinMemory, CheckStart)
         /\ calculated_crc \in Register /\ twinCalculated \in Register
<1>1. /\ answer \in Verdicts /\ twinAnswer \in Verdicts
      /\ calculated_crc = Checksum(caller, memory, base, length)
      /\ twinCalculated = Checksum(caller, twinMemory, base, length)
      /\ base \in Nat /\ length \in Nat /\ size \in Nat
      /\ memory \in [Address -> Byte] /\ twinMemory \in [Address -> Byte]
      /\ calculated_crc \in Register /\ twinCalculated \in Register
  BY DEF Judged, Verdicts, CrcInv, CrcTypeOK, TwinInv
<1>2. /\ \/ caller = "CRC_Validate"
         \/ caller = "ValidatePacket" /\ size \in 4 .. MEMORY_SIZE
      /\ answer = Verdict(Presented(caller, calculated_crc) = Word(memory, CheckStart))
      /\ twinAnswer = Verdict(Presented(caller, twinCalculated) = Word(twinMemory, CheckStart))
  BY <1>1 DEF CrcInv, Passed, TwinInv
<1>3. \A p \in BOOLEAN : Verdict(p) = "true" <=> p  BY DEF Verdict
<1>4. Word(memory, CheckStart) = Word(twinMemory, CheckStart) <=> AgreeOn(CheckWord)
  <2>1. CheckStart \in Nat /\ CheckStart + 4 <= MEMORY_SIZE
    BY <1>2, CrcAssumption DEF CheckStart, StoredCrcAddress, CRC_METADATA_SIZE
  <2>2. CheckWord = WordBytes(CheckStart)  BY DEF CheckWord, CheckStart
  <2>3. WordBytes(CheckStart) \subseteq Address
    BY <2>1, CrcAssumption DEF WordBytes, Address
  <2> QED BY <1>1, <2>1, <2>2, <2>3, WordsAgree DEF AgreeOn
<1>5. AgreeOn(LastData) => Errors = {}
  <2>1. AgreeOn(LastData) => Polynomial(memory, base, length) = Polynomial(twinMemory, base, length)
    BY <1>1, PolynomialsAgree DEF AgreeOn, LastData
  <2> QED BY <2>1 DEF Errors, Xor
<1> DEFINE r == DataRemainder(memory, base, length)
           twin == DataRemainder(twinMemory, base, length)
           top == 8 * length + 31
<1>6. Xor(r, twin) = Remainder(Errors, top)
  BY <1>1, DifferenceRemains DEF Errors
<1>7. top \in Nat /\ top >= 31  BY <1>1
<1>8. Errors \subseteq 32 .. top
  BY <1>1, PolynomialDegrees DEF Errors, Xor
<1>9. Errors = {} => calculated_crc = twinCalculated
  <2>1. Errors = {} => Xor(r, twin) = {}  BY <1>6, <1>7, NothingRemains
  <2>2. Errors = {} => r = twin  BY <2>1 DEF Xor
  <2> QED BY <1>1, <2>2 DEF Checksum
<1>10. ASSUME Burst PROVE calculated_crc # twinCalculated
  <2>1. PICK k \in 32 .. top : Errors \subseteq k .. k + 31  BY <1>10 DEF Burst
  <2>2. Errors # {}  BY <1>10 DEF Burst
  <2>3. Remainder(Errors, top) # {}
    <3>1. Errors \subseteq Window(k) /\ k \in Int  BY <1>7, <2>1 DEF Window
    <3> HIDE DEF top
    <3> QED BY <1>7, <1>8, <2>2, <3>1, BurstRemains
  <2>4. r # twin  BY <1>6, <2>3 DEF Xor
  <2>5. length # 0  BY <1>1, <1>8, <2>2
  <2>6. r \in Register /\ twin \in Register  BY <1>1, DataRemainderType
  <2>7. Complement(r) # Complement(twin)
    <3> HIDE DEF r, twin
    <3> QED BY <2>4, <2>6, Complements
  <2> QED BY <1>1, <2>5, <2>7 DEF Checksum
<1> QED BY <1>1, <1>2, <1>3, <1>4, <1>5, <1>9, <1>10

\* A burst of wrong bits in the data of a calculation changes its CRC, and one in
\* data or check word never leaves both verdicts good: for memories, partitions
\* and chunks of every size (crc.c:21, crc.c:65).
THEOREM BurstErrorsSeen == PairSpec => []BurstErrorSeen
<1>1. ASSUME CrcInv, TwinInv, Judged
      PROVE  BurstErrorSeen
  <2>1. ASSUME Burst, AgreeOn(CheckWord)
        PROVE  ~(answer = "true" /\ twinAnswer = "true")
    <3>1. calculated_crc # twinCalculated  BY <1>1, <2>1, VerdictCompares
    <3>2. Presented(caller, calculated_crc) # Presented(caller, twinCalculated)
      BY <1>1, <3>1, VerdictCompares, Complements DEF Presented
    <3> QED BY <1>1, <2>1, <3>2, VerdictCompares
  <2>2. ASSUME Errors = {}, ~AgreeOn(CheckWord)
        PROVE  ~(answer = "true" /\ twinAnswer = "true")
    BY <1>1, <2>2, VerdictCompares
  <2>3. Burst => calculated_crc # twinCalculated  BY <1>1, VerdictCompares
  <2> QED BY <2>1, <2>2, <2>3 DEF BurstErrorSeen
<1>2. CrcInv /\ TwinInv => BurstErrorSeen  BY <1>1 DEF BurstErrorSeen
<1> QED BY <1>2, AlwaysPairInv, PTL

\* Banks that agree on the last CHUNK_SIZE bytes of their data and on the stored
\* word get the same verdict, for every partition and chunk size (crc.c:47).
THEOREM LastChunkAlwaysDecides == PairSpec => []LastChunkDecides
<1>1. ASSUME CrcInv, TwinInv, Judged, caller = "CRC_Validate", AgreeOn(LastChunk \cup CheckWord)
      PROVE  answer = twinAnswer
  <2>1. LastData \subseteq LastChunk
    <3>1. /\ base \in Nat /\ length \in Nat /\ size \in Nat /\ size < UINT32_RANGE
          /\ base + length = (size - CRC_METADATA_SIZE) % UINT32_RANGE
          /\ length <= CHUNK_SIZE /\ base + length <= MEMORY_SIZE
      BY <1>1 DEF CrcInv, CrcTypeOK, ChunksCount, Passed, Judged, Verdicts
    <3>2. /\ MEMORY_SIZE \in Nat /\ CHUNK_SIZE \in Nat /\ UINT32_RANGE \in Nat
          /\ UINT32_RANGE > MEMORY_SIZE + 8
      BY CrcAssumption
    <3>3. \A m \in Nat : \A k \in 0 .. m - 1 :
            m > 8 => ((k - 8) % m) = IF k < 8 THEN k - 8 + m ELSE k - 8
      BY SMT
    <3>4. base + length = size - 8
      BY <3>1, <3>2, <3>3 DEF CRC_METADATA_SIZE
    <3> QED BY <3>1, <3>2, <3>4 DEF LastData, LastChunk, Address, CRC_METADATA_SIZE
  <2>2. AgreeOn(LastData) /\ AgreeOn(CheckWord)  BY <1>1, <2>1 DEF AgreeOn
  <2>3. /\ calculated_crc = twinCalculated
        /\ Word(memory, CheckStart) = Word(twinMemory, CheckStart)
    BY <1>1, <2>2, VerdictCompares
  <2>4. answer = "true" <=> twinAnswer = "true"
    BY <1>1, <2>3, VerdictCompares
  <2> QED BY <1>1, <2>4 DEF Judged
<1>2. CrcInv /\ TwinInv => LastChunkDecides  BY <1>1 DEF LastChunkDecides
<1> QED BY <1>2, AlwaysPairInv, PTL
=============================================================================
