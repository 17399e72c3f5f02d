-------------------------- MODULE HammingCrcProofs --------------------------
(***************************************************************************)
(* Proofs about the coder of "Error Correction/1505114.cpp", for every     *)
(* input, every generator polynomial and every number of toggled bits.     *)
(***************************************************************************)
EXTENDS HammingCrc, TLAPS, SequenceTheorems, FiniteSetTheorems, WellFoundedInduction

Bit == {0, 1}
Xor(a, b) == IF a = b THEN 0 ELSE 1

\* Every non-empty set of natural numbers has a least element.
LEMMA LeastNumber ==
    ASSUME NEW S, S \subseteq Nat, S # {}
    PROVE  \E m \in S : \A n \in S : m <= n
<1>1. PICK m \in S : \A n \in S : ~(<<n, m>> \in OpToRel(<, Nat))
    BY WFMin, NatLessThanWellFounded
<1>2. ASSUME NEW n \in S PROVE m <= n
    <2>1. n \in Nat /\ m \in Nat /\ ~(n < m)
        BY <1>1 DEF OpToRel
    <2> QED BY <2>1
<1> QED BY <1>2

-----------------------------------------------------------------------------
(***************************************************************************)
(* The division as a shift register over one key k of d + 1 bits: the      *)
(* remainder r moves up by one, the bit b comes in, and if a bit has left  *)
(* the register the key is subtracted.                                     *)
(***************************************************************************)
Deg(k) == Len(k) - 1
Vec(k) == [1..Deg(k) -> Bit]
Zero(k) == [i \in 1..Deg(k) |-> 0]
Feed(k, r, b) ==
    [i \in 1..Deg(k) |-> Xor(IF i < Deg(k) THEN r[i + 1] ELSE b,
                             IF r[1] = 1 THEN k[i + 1] ELSE 0)]

\* The register after each of the bits of a frame.
Reg(k, frame) ==
    LET reg[j \in 0..Len(frame)] ==
            IF j = 0 THEN Zero(k) ELSE Feed(k, reg[j - 1], frame[j])
    IN  reg

Key(k) == k \in Seq(Bit) /\ Len(k) > 1 /\ k[1] = 1

LEMMA KeyProps ==
    ASSUME NEW k, Key(k)
    PROVE  /\ Deg(k) \in Nat \ {0} /\ Len(k) \in Nat /\ Len(k) = Deg(k) + 1
           /\ \A i \in 1..Deg(k) : i + 1 \in 1..Len(k) /\ k[i + 1] \in Bit
<1>1. Len(k) \in Nat /\ \A i \in 1..Len(k) : k[i] \in Bit
    BY LenProperties, ElementOfSeq DEF Key
<1> QED BY <1>1 DEF Key, Deg

LEMMA FeedType ==
    ASSUME NEW k, Key(k), NEW r \in Vec(k), NEW b \in Bit
    PROVE  Feed(k, r, b) \in Vec(k)
<1>1. ASSUME NEW i \in 1..Deg(k)
      PROVE  Xor(IF i < Deg(k) THEN r[i + 1] ELSE b, IF r[1] = 1 THEN k[i + 1] ELSE 0) \in Bit
    BY DEF Xor, Bit
<1> QED BY <1>1 DEF Feed, Vec

\* The recursive function exists and is what it is meant to be.
LEMMA RegProps ==
    ASSUME NEW k, Key(k), NEW frame \in Seq(Bit)
    PROVE  /\ DOMAIN Reg(k, frame) = 0..Len(frame)
           /\ \A j \in 0..Len(frame) : Reg(k, frame)[j] \in Vec(k)
           /\ Reg(k, frame)[0] = Zero(k)
           /\ \A j \in 1..Len(frame) : Reg(k, frame)[j] = Feed(k, Reg(k, frame)[j - 1], frame[j])
<1> DEFINE step(s, j) == Feed(k, s, frame[j])
           F(m, g) == g = [j \in 0..m |-> IF j = 0 THEN Zero(k) ELSE step(g[j - 1], j)]
           f == CHOOSE g : F(Len(frame), g)
<1>1. Reg(k, frame) = f
    BY DEF Reg
<1>2. Len(frame) \in Nat /\ \A j \in 1..Len(frame) : frame[j] \in Bit
    BY LenProperties, ElementOfSeq
<1>3. ASSUME NEW s \in Vec(k), NEW j \in 1..Len(frame)
      PROVE  step(s, j) \in Vec(k)
    BY <1>2, FeedType
<1>4. Zero(k) \in Vec(k)
    BY DEF Zero, Vec, Bit
<1> HIDE DEF step
<1>5. \A m \in Nat : \E g : F(m, g)
    <2> DEFINE S == {m \in Nat : ~\E g : F(m, g)}
    <2> SUFFICES ASSUME S # {} PROVE FALSE
        OBVIOUS
    <2>1. PICK m \in S : \A n \in S : m <= n
        BY LeastNumber
    <2>2. m # 0
        <3>1. F(0, [i \in 0..0 |-> Zero(k)])
            OBVIOUS
        <3> QED BY <3>1
    <2>3. m \in Nat /\ m - 1 \in Nat /\ m - 1 \notin S
        <3>1. m \in Nat
            OBVIOUS
        <3> HIDE DEF S
        <3> QED BY <2>1, <2>2, <3>1
    <2>4. PICK h : F(m - 1, h)
        BY <2>3
    <2> DEFINE g == [i \in 0..m |-> IF i = m THEN step(h[m - 1], m) ELSE h[i]]
    <2>5. ASSUME NEW i \in 0..m
          PROVE  g[i] = IF i = 0 THEN Zero(k) ELSE step(g[i - 1], i)
        <3>1. CASE i = m
            BY <2>2, <2>3, <3>1
        <3>2. CASE i # m
            <4>1. i \in 0..m - 1 /\ g[i] = h[i]
                BY <2>3, <3>2
            <4>2. h[i] = IF i = 0 THEN Zero(k) ELSE step(h[i - 1], i)
                BY <2>4, <4>1
            <4>3. i # 0 => g[i - 1] = h[i - 1]
                BY <2>3, <4>1
            <4> QED BY <4>1, <4>2, <4>3
        <3> QED BY <3>1, <3>2
    <2>6. F(m, g)
        BY <2>5
    <2> QED BY <2>1, <2>6
<1>6. F(Len(frame), f)
    BY <1>2, <1>5
<1> HIDE DEF f
<1>7. /\ DOMAIN f = 0..Len(frame) /\ f[0] = Zero(k)
      /\ \A j \in 1..Len(frame) : f[j] = step(f[j - 1], j)
    <2>1. 0 \in 0..Len(frame) /\ \A i \in 1..Len(frame) : i \in 0..Len(frame) /\ i # 0
        BY <1>2
    <2> QED BY <1>6, <2>1
<1>8. ASSUME NEW j \in 0..Len(frame) PROVE f[j] \in Vec(k)
    <2> DEFINE Bad == {i \in 0..Len(frame) : f[i] \notin Vec(k)}
    <2> SUFFICES ASSUME Bad # {} PROVE FALSE
        OBVIOUS
    <2>1. PICK m \in Bad : \A i \in Bad : m <= i
        <3>1. Bad \subseteq Nat
            BY <1>2
        <3> HIDE DEF Bad
        <3> QED BY <3>1, LeastNumber
    <2>2. m # 0
        BY <1>4, <1>7
    <2>3. m \in 1..Len(frame) /\ m - 1 \in 0..Len(frame) /\ m - 1 \notin Bad
        BY <1>2, <2>1, <2>2
    <2>4. f[m - 1] \in Vec(k)
        BY <2>3
    <2> QED BY <1>3, <1>7, <2>3, <2>4
<1> QED BY <1>1, <1>7, <1>8 DEF step

-----------------------------------------------------------------------------
(* What the register is, for four kinds of frames.                         *)

\* It depends only on the bits that have come in.
LEMMA RegPrefix ==
    ASSUME NEW k, Key(k), NEW f \in Seq(Bit), NEW g \in Seq(Bit), NEW n \in Nat,
           n <= Len(f), n <= Len(g), \A i \in 1..n : f[i] = g[i]
    PROVE  Reg(k, f)[n] = Reg(k, g)[n]
<1>1. Len(f) \in Nat /\ Len(g) \in Nat
    BY LenProperties
<1> DEFINE Bad == {j \in 0..n : Reg(k, f)[j] # Reg(k, g)[j]}
<1> SUFFICES ASSUME Bad # {} PROVE FALSE
    OBVIOUS
<1>2. PICK m \in Bad : \A i \in Bad : m <= i
    <2>1. Bad \subseteq Nat
        OBVIOUS
    <2> HIDE DEF Bad
    <2> QED BY <2>1, LeastNumber
<1>3. m # 0
    BY RegProps
<1>4. /\ m \in 1..n /\ m \in 1..Len(f) /\ m \in 1..Len(g)
      /\ m - 1 \in 0..n /\ m - 1 \notin Bad
    BY <1>1, <1>2, <1>3
<1>5. Reg(k, f)[m - 1] = Reg(k, g)[m - 1] /\ f[m] = g[m]
    BY <1>4
<1> QED BY <1>4, <1>5, RegProps

Add(k, r, s) == [i \in 1..Deg(k) |-> Xor(r[i], s[i])]

\* Bits are added without carry, in any order.
LEMMA XorProps ==
    /\ \A a, b \in Bit : Xor(a, b) \in Bit /\ Xor(a, b) = Xor(b, a) /\ Xor(a, 0) = a /\ Xor(0, a) = a
    /\ \A a, b, c, d \in Bit : Xor(Xor(a, b), Xor(c, d)) = Xor(Xor(a, c), Xor(b, d))
BY DEF Xor, Bit

LEMMA FeedLinear ==
    ASSUME NEW k, Key(k), NEW r \in Vec(k), NEW s \in Vec(k), NEW a \in Bit, NEW b \in Bit
    PROVE  Feed(k, Add(k, r, s), Xor(a, b)) = Add(k, Feed(k, r, a), Feed(k, s, b))
<1> DEFINE t == Add(k, r, s)
           key_(v, i) == IF v[1] = 1 THEN k[i + 1] ELSE 0
           up(v, i, c) == IF i < Deg(k) THEN v[i + 1] ELSE c
<1>1. Deg(k) \in Nat \ {0} /\ \A i \in 1..Deg(k) : k[i + 1] \in Bit
    BY KeyProps
<1>2. ASSUME NEW i \in 1..Deg(k)
      PROVE  Xor(up(t, i, Xor(a, b)), key_(t, i)) =
                 Xor(Xor(up(r, i, a), key_(r, i)), Xor(up(s, i, b), key_(s, i)))
    <2>1. 1 \in 1..Deg(k) /\ (i < Deg(k) => i + 1 \in 1..Deg(k))
        BY <1>1
    <2>2. /\ up(t, i, Xor(a, b)) = Xor(up(r, i, a), up(s, i, b))
          /\ up(r, i, a) \in Bit /\ up(s, i, b) \in Bit
        BY <2>1 DEF Add, Vec
    <2>3. t[1] = Xor(r[1], s[1]) /\ r[1] \in Bit /\ s[1] \in Bit
        BY <2>1 DEF Add, Vec
    <2>4. /\ key_(t, i) = Xor(key_(r, i), key_(s, i))
          /\ key_(r, i) \in Bit /\ key_(s, i) \in Bit
        BY <1>1, <2>3 DEF Xor, Bit
    <2> HIDE DEF up, key_, t
    <2> QED BY <2>2, <2>4, XorProps
<1>3. Feed(k, t, Xor(a, b)) = [i \in 1..Deg(k) |-> Xor(up(t, i, Xor(a, b)), key_(t, i))]
    BY DEF Feed
<1>4. /\ Feed(k, r, a) = [i \in 1..Deg(k) |-> Xor(up(r, i, a), key_(r, i))]
      /\ Feed(k, s, b) = [i \in 1..Deg(k) |-> Xor(up(s, i, b), key_(s, i))]
    BY DEF Feed
<1> HIDE DEF up, key_, t
<1>5. Add(k, Feed(k, r, a), Feed(k, s, b)) =
          [i \in 1..Deg(k) |-> Xor(Xor(up(r, i, a), key_(r, i)), Xor(up(s, i, b), key_(s, i)))]
    BY <1>4 DEF Add
<1> QED BY <1>2, <1>3, <1>5 DEF t

\* The division is linear: the register of a sum is the sum of the registers.
LEMMA RegLinear ==
    ASSUME NEW k, Key(k), NEW f \in Seq(Bit), NEW g \in Seq(Bit), NEW h \in Seq(Bit),
           Len(f) = Len(h), Len(g) = Len(h),
           \A i \in 1..Len(h) : h[i] = Xor(f[i], g[i])
    PROVE  \A j \in 0..Len(h) : Reg(k, h)[j] = Add(k, Reg(k, f)[j], Reg(k, g)[j])
<1>1. Len(h) \in Nat
    BY LenProperties
<1> DEFINE Bad == {j \in 0..Len(h) : Reg(k, h)[j] # Add(k, Reg(k, f)[j], Reg(k, g)[j])}
<1> SUFFICES ASSUME Bad # {} PROVE FALSE
    OBVIOUS
<1>2. PICK m \in Bad : \A i \in Bad : m <= i
    <2>1. Bad \subseteq Nat
        OBVIOUS
    <2> HIDE DEF Bad
    <2> QED BY <2>1, LeastNumber
<1>3. m # 0
    <2>1. Add(k, Zero(k), Zero(k)) = Zero(k)
        BY DEF Add, Zero, Xor
    <2> QED BY <2>1, RegProps
<1>4. m \in 1..Len(h) /\ m - 1 \in 0..Len(h) /\ m - 1 \notin Bad
    BY <1>1, <1>2, <1>3
<1>5. Reg(k, h)[m - 1] = Add(k, Reg(k, f)[m - 1], Reg(k, g)[m - 1])
    BY <1>4
<1>6. /\ Reg(k, h)[m] = Feed(k, Reg(k, h)[m - 1], h[m])
      /\ Reg(k, f)[m] = Feed(k, Reg(k, f)[m - 1], f[m])
      /\ Reg(k, g)[m] = Feed(k, Reg(k, g)[m - 1], g[m])
      /\ Reg(k, f)[m - 1] \in Vec(k) /\ Reg(k, g)[m - 1] \in Vec(k)
    BY <1>4, RegProps
<1>7. f[m] \in Bit /\ g[m] \in Bit /\ h[m] = Xor(f[m], g[m])
    BY <1>4, ElementOfSeq
<1>8. Reg(k, h)[m] = Add(k, Reg(k, f)[m], Reg(k, g)[m])
    BY <1>5, <1>6, <1>7, FeedLinear
<1> QED BY <1>8

\* As long as at most Deg(k) bits have come in behind zeros it just holds them.
LEMMA RegShort ==
    ASSUME NEW k, Key(k), NEW f \in Seq(Bit), NEW p \in 0..Len(f), \A i \in 1..p : f[i] = 0
    PROVE  \A j \in 0..Len(f) : j <= p + Deg(k) =>
               Reg(k, f)[j] = [i \in 1..Deg(k) |-> IF j - Deg(k) + i >= 1 THEN f[j - Deg(k) + i] ELSE 0]
<1> DEFINE d == Deg(k)
           Holds(j) == [i \in 1..d |-> IF j - d + i >= 1 THEN f[j - d + i] ELSE 0]
<1>1. Len(f) \in Nat /\ d \in Nat \ {0}
    BY LenProperties, KeyProps
<1> DEFINE Bad == {j \in 0..Len(f) : j <= p + d /\ Reg(k, f)[j] # Holds(j)}
<1> SUFFICES ASSUME Bad # {} PROVE FALSE
    OBVIOUS
<1>2. PICK m \in Bad : \A i \in Bad : m <= i
    <2>1. Bad \subseteq Nat
        OBVIOUS
    <2> HIDE DEF Bad
    <2> QED BY <2>1, LeastNumber
<1>3. m # 0
    <2>1. \A i \in 1..d : ~(0 - d + i >= 1)
        BY <1>1
    <2>2. Holds(0) = Zero(k)
        BY <2>1 DEF Zero
    <2> QED BY <2>2, RegProps
<1>4. m \in 1..Len(f) /\ m - 1 \in 0..Len(f) /\ m - 1 \notin Bad /\ m <= p + d /\ m - 1 <= p + d
    <2>1. m \in 0..Len(f) /\ m <= p + d
        OBVIOUS
    <2> HIDE DEF d
    <2>2. m \in 1..Len(f) /\ m - 1 \in 0..Len(f) /\ m - 1 <= p + d /\ ~(m <= m - 1)
        BY <1>1, <1>3, <2>1
    <2> HIDE DEF Bad
    <2> QED BY <1>2, <2>1, <2>2
<1>5. Reg(k, f)[m - 1] = Holds(m - 1) /\ Reg(k, f)[m] = Feed(k, Reg(k, f)[m - 1], f[m])
    BY <1>4, RegProps
<1>6. Holds(m - 1)[1] = 0
    <2>1. 1 \in 1..d /\ (m - 1) - d + 1 = m - d
        BY <1>1, <1>4
    <2>2. m - d >= 1 => m - d \in 1..p
        BY <1>1, <1>4
    <2> QED BY <2>1, <2>2
<1>7. ASSUME NEW i \in 1..d
      PROVE  Xor(IF i < d THEN Holds(m - 1)[i + 1] ELSE f[m], 0) = Holds(m)[i]
    <2>1. /\ i < d => i + 1 \in 1..d /\ (m - 1) - d + (i + 1) = m - d + i
          /\ i = d \/ i < d
          /\ m - d + d = m /\ m >= 1
        BY <1>1, <1>4, SMTT(30)
    <2>2. ASSUME m - d + i >= 1 PROVE f[m - d + i] \in Bit
        <3>1. m - d + i \in 1..Len(f)
            BY <1>1, <1>4, <2>2
        <3> QED BY <3>1, ElementOfSeq
    <2>3. CASE i < d
        <3>1. Holds(m - 1)[i + 1] = Holds(m)[i]
            BY <2>1, <2>3
        <3>2. Holds(m)[i] \in Bit
            BY <2>2 DEF Bit
        <3> HIDE DEF Holds
        <3> QED BY <2>3, <3>1, <3>2, XorProps
    <2>4. CASE i = d
        <3>1. Holds(m)[i] = f[m] /\ f[m] \in Bit
            BY <2>1, <2>2, <2>4
        <3> HIDE DEF Holds
        <3> QED BY <1>1, <2>4, <3>1, XorProps
    <2> QED BY <2>1, <2>3, <2>4
<1>8. Feed(k, Holds(m - 1), f[m]) = Holds(m)
    <2>1. DOMAIN Holds(m) = 1..d /\ Holds(m) = [i \in 1..d |-> Holds(m)[i]]
        OBVIOUS
    <2> HIDE DEF Holds
    <2> QED BY <1>6, <1>7, <2>1 DEF Feed
<1> QED BY <1>4, <1>5, <1>8

\* The first Deg(k) bits are held as they are.
LEMMA RegFirst ==
    ASSUME NEW k, Key(k), NEW f \in Seq(Bit), Len(f) >= Deg(k)
    PROVE  Reg(k, f)[Deg(k)] = [i \in 1..Deg(k) |-> f[i]]
<1> DEFINE d == Deg(k)
<1>1. Len(f) \in Nat /\ d \in Nat \ {0}
    BY LenProperties, KeyProps
<1>2. PICK p : p = 0
    OBVIOUS
<1>3. p \in 0..Len(f) /\ \A i \in 1..p : f[i] = 0
    BY <1>1, <1>2
<1>4. \A j \in 0..Len(f) : j <= p + d =>
          Reg(k, f)[j] = [i \in 1..d |-> IF j - d + i >= 1 THEN f[j - d + i] ELSE 0]
    BY <1>3, RegShort
<1>5. d \in 0..Len(f) /\ d <= p + d /\ \A i \in 1..d : d - d + i = i /\ i >= 1
    BY <1>1, <1>2
<1>6. Reg(k, f)[d] = [i \in 1..d |-> IF d - d + i >= 1 THEN f[d - d + i] ELSE 0]
    BY <1>4, <1>5
<1> QED BY <1>5, <1>6

-----------------------------------------------------------------------------
(* The reference: powers of x modulo the generator polynomial.             *)

One == [i \in 1..Degree |-> IF i = Degree THEN 1 ELSE 0]

\* ShiftMod is the register with a zero coming in.
LEMMA ShiftFeeds ==
    ASSUME Key(key), NEW r \in Vec(key)
    PROVE  SubSeq(ShiftMod(r), 1, Degree) = Feed(key, r, 0)
<1>1. /\ Degree = Deg(key) /\ Degree \in Nat \ {0}
      /\ \A i \in 1..Degree : key[i + 1] \in Bit
    BY KeyProps DEF Degree, Deg
<1>2. ASSUME NEW i \in 1..Degree
      PROVE  ((IF i < Degree THEN r[i + 1] ELSE 0) + r[1] * key[i + 1]) % 2 =
                 Xor(IF i < Degree THEN r[i + 1] ELSE 0, IF r[1] = 1 THEN key[i + 1] ELSE 0)
    <2> DEFINE a == IF i < Degree THEN r[i + 1] ELSE 0
               b == r[1]
               c == key[i + 1]
    <2>1. 1 \in 1..Degree /\ (i < Degree => i + 1 \in 1..Degree)
        BY <1>1
    <2>2. a \in Bit /\ b \in Bit /\ c \in Bit
        BY <1>1, <2>1 DEF Vec, Bit
    <2> HIDE DEF a, b, c
    <2>3. CASE b = 0
        <3>1. b * c = 0
            BY <2>2, <2>3 DEF Bit
        <3>2. (a + 0) % 2 = Xor(a, 0)
            BY <2>2 DEF Xor, Bit
        <3> QED BY <2>3, <3>1, <3>2 DEF a, b, c
    <2>4. CASE b = 1
        <3>1. b * c = c
            BY <2>2, <2>4 DEF Bit
        <3>2. (a + c) % 2 = Xor(a, c)
            BY <2>2 DEF Xor, Bit
        <3> QED BY <2>4, <3>1, <3>2 DEF a, b, c
    <2> QED BY <2>2, <2>3, <2>4 DEF Bit
<1>3. ShiftMod(r) = Feed(key, r, 0)
    BY <1>1, <1>2 DEF ShiftMod, Feed
<1> DEFINE s == Feed(key, r, 0)
<1>4. s \in [1..Degree -> Bit]
    BY <1>1, FeedType DEF Vec, Bit
<1> HIDE DEF s
<1>5. s \in Seq(Bit) /\ Len(s) = Degree
    BY <1>1, <1>4
<1>6. SubSeq(s, 1, Degree) = s
    BY <1>5, SubSeqFull
<1> QED BY <1>3, <1>6 DEF s

\* x^0, and x^(n + 1) from x^n.
LEMMA PowerModProps ==
    ASSUME Key(key)
    PROVE  /\ PowerMod(0) = One
           /\ \A n \in Nat : /\ PowerMod(n) \in Vec(key)
                             /\ PowerMod(n + 1) = Feed(key, PowerMod(n), 0)
<1> DEFINE step(s) == SubSeq(ShiftMod(s), 1, Degree)
           F(n, g) == g = [j \in 0..n |-> IF j = 0 THEN One ELSE step(g[j - 1])]
           f(n) == CHOOSE g : F(n, g)
<1>1. \A n : PowerMod(n) = f(n)[n]
    BY DEF PowerMod, One
<1> HIDE DEF step
<1>2. \A m \in Nat : \E g : F(m, g)
    <2> DEFINE S == {m \in Nat : ~\E g : F(m, g)}
    <2> SUFFICES ASSUME S # {} PROVE FALSE
        OBVIOUS
    <2>1. PICK m \in S : \A n \in S : m <= n
        BY LeastNumber
    <2>2. m # 0
        <3>1. F(0, [i \in 0..0 |-> One])
            OBVIOUS
        <3> QED BY <3>1
    <2>3. m \in Nat /\ m - 1 \in Nat /\ m - 1 \notin S
        <3>1. m \in Nat
            OBVIOUS
        <3> HIDE DEF S
        <3> QED BY <2>1, <2>2, <3>1
    <2>4. PICK h : F(m - 1, h)
        BY <2>3
    <2> DEFINE g == [i \in 0..m |-> IF i = m THEN step(h[m - 1]) ELSE h[i]]
    <2>5. ASSUME NEW i \in 0..m
          PROVE  g[i] = IF i = 0 THEN One ELSE step(g[i - 1])
        <3>1. CASE i = m
            BY <2>2, <2>3, <3>1
        <3>2. CASE i # m
            <4>1. i \in 0..m - 1 /\ g[i] = h[i]
                BY <2>3, <3>2
            <4>2. h[i] = IF i = 0 THEN One ELSE step(h[i - 1])
                BY <2>4, <4>1
            <4>3. i # 0 => g[i - 1] = h[i - 1]
                BY <2>3, <4>1
            <4> QED BY <4>1, <4>2, <4>3
        <3> QED BY <3>1, <3>2
    <2>6. F(m, g)
        BY <2>5
    <2> QED BY <2>1, <2>6
<1>3. ASSUME NEW n \in Nat PROVE F(n, f(n))
    BY <1>2
<1> HIDE DEF f
<1>4. ASSUME NEW n \in Nat
      PROVE  f(n)[0] = One /\ \A j \in 1..n : f(n)[j] = step(f(n)[j - 1])
    <2>1. 0 \in 0..n /\ \A j \in 1..n : j \in 0..n /\ j # 0
        OBVIOUS
    <2> DEFINE g == f(n)
    <2>2. F(n, g)
        BY <1>3
    <2> HIDE DEF g
    <2>3. g[0] = One /\ \A j \in 1..n : g[j] = step(g[j - 1])
        BY <2>1, <2>2
    <2> QED BY <2>3 DEF g
<1>5. ASSUME NEW n \in Nat PROVE f(n + 1)[n] = f(n)[n]
    <2> DEFINE Bad == {j \in 0..n : f(n + 1)[j] # f(n)[j]}
    <2>1. n + 1 \in Nat
        OBVIOUS
    <2>2. ASSUME Bad # {} PROVE FALSE
        <3>1. PICK m \in Bad : \A i \in Bad : m <= i
            <4>1. Bad \subseteq Nat
                OBVIOUS
            <4> HIDE DEF Bad
            <4> QED BY <2>2, <4>1, LeastNumber
        <3>2. m # 0
            BY <1>4, <2>1
        <3>3. m \in 1..n /\ m \in 1..n + 1 /\ m - 1 \in 0..n /\ m - 1 \notin Bad
            BY <3>1, <3>2
        <3>4. f(n + 1)[m - 1] = f(n)[m - 1]
            BY <3>3
        <3>5. f(n + 1)[m] = step(f(n + 1)[m - 1]) /\ f(n)[m] = step(f(n)[m - 1])
            BY <1>4, <2>1, <3>3
        <3> QED BY <3>4, <3>5
    <2>3. n \in 0..n
        OBVIOUS
    <2> QED BY <2>2, <2>3
<1>6. PowerMod(0) = One
    BY <1>1, <1>4
<1>7. ASSUME NEW n \in Nat PROVE PowerMod(n + 1) = step(PowerMod(n))
    <2>1. n + 1 \in Nat /\ n + 1 \in 1..n + 1 /\ (n + 1) - 1 = n
        OBVIOUS
    <2>2. f(n + 1)[n + 1] = step(f(n + 1)[n])
        BY <1>4, <2>1
    <2> QED BY <1>1, <1>5, <2>2
<1>8. One \in Vec(key)
    BY DEF One, Vec, Bit, Degree, Deg
<1>9. \A n \in Nat : PowerMod(n) \in Vec(key)
    <2> DEFINE Bad == {n \in Nat : PowerMod(n) \notin Vec(key)}
    <2> SUFFICES ASSUME Bad # {} PROVE FALSE
        OBVIOUS
    <2>1. PICK m \in Bad : \A i \in Bad : m <= i
        <3> HIDE DEF PowerMod
        <3>1. Bad \subseteq Nat
            OBVIOUS
        <3> HIDE DEF Bad
        <3> QED BY <3>1, LeastNumber
    <2>2. m # 0 /\ m \in Nat
        BY <1>6, <1>8
    <2>3. m - 1 \in Nat /\ (m - 1) + 1 = m /\ m - 1 \notin Bad
        <3>1. m - 1 \in Nat /\ (m - 1) + 1 = m /\ ~(m <= m - 1)
            BY <2>2
        <3> HIDE DEF Bad
        <3> QED BY <2>1, <3>1
    <2>4. PowerMod(m - 1) \in Vec(key)
        BY <2>3
    <2>5. PowerMod(m) = step(PowerMod(m - 1))
        BY <1>7, <2>3
    <2>6. PowerMod(m) = Feed(key, PowerMod(m - 1), 0)
        BY <2>4, <2>5, ShiftFeeds DEF step
    <2>7. PowerMod(m) \in Vec(key)
        BY <2>4, <2>6, FeedType DEF Bit
    <2> QED BY <2>7
<1>10. ASSUME NEW n \in Nat PROVE PowerMod(n + 1) = Feed(key, PowerMod(n), 0)
    BY <1>7, <1>9, ShiftFeeds DEF step
<1> QED BY <1>6, <1>9, <1>10

\* A frame with a single one: the power that belongs to its position.
Unit(n, t) == [i \in 1..n |-> IF i = t THEN 1 ELSE 0]

LEMMA RegUnit ==
    ASSUME Key(key), NEW n \in Nat, NEW t \in 1..n
    PROVE  /\ Unit(n, t) \in Seq(Bit) /\ Len(Unit(n, t)) = n
           /\ Reg(key, Unit(n, t))[n] = PowerMod(n - t)
<1> DEFINE e == Unit(n, t)
           d == Deg(key)
<1>1. e \in [1..n -> Bit]
    BY DEF Unit, Bit
<1>2. /\ e[t] = 1
      /\ \A i \in 1..n : i # t => e[i] = 0
    BY DEF Unit
<1>3. d \in Nat \ {0} /\ d = Degree
    BY KeyProps DEF Degree, Deg
<1> HIDE DEF e, d
<1>4. e \in Seq(Bit) /\ Len(e) = n
    BY <1>1
<1>5. Reg(key, e)[t] = One
    <2>1. t - 1 \in 0..Len(e) /\ t \in 0..Len(e) /\ t <= (t - 1) + d
        BY <1>3, <1>4
    <2>2. \A i \in 1..t - 1 : e[i] = 0
        BY <1>2
    <2>3. Reg(key, e)[t] = [i \in 1..d |-> IF t - d + i >= 1 THEN e[t - d + i] ELSE 0]
        BY <1>4, <2>1, <2>2, RegShort DEF d
    <2>4. ASSUME NEW i \in 1..d
          PROVE  (IF t - d + i >= 1 THEN e[t - d + i] ELSE 0) = IF i = d THEN 1 ELSE 0
        <3>1. CASE i = d
            BY <1>2, <1>3, <3>1
        <3>2. CASE i # d
            <4>1. t - d + i >= 1 => t - d + i \in 1..n /\ t - d + i # t
                BY <1>3, <3>2
            <4> QED BY <1>2, <3>2, <4>1
        <3> QED BY <3>1, <3>2
    <2> QED BY <1>3, <2>3, <2>4 DEF One
<1> DEFINE Bad == {j \in 0..n - t : Reg(key, e)[t + j] # PowerMod(j)}
<1>6. ASSUME Bad # {} PROVE FALSE
    <2>1. PICK m \in Bad : \A i \in Bad : m <= i
        <3>1. Bad \subseteq Nat
            OBVIOUS
        <3> HIDE DEF Bad
        <3> QED BY <1>6, <3>1, LeastNumber
    <2>2. m # 0
        <3>1. t + 0 = t
            OBVIOUS
        <3> QED BY <1>5, <3>1, PowerModProps
    <2>3. m \in 1..n - t /\ m - 1 \in 0..n - t /\ m - 1 \notin Bad
        BY <2>1, <2>2
    <2>4. /\ t + m \in 1..n /\ (t + m) - 1 = t + (m - 1) /\ t + m # t
          /\ m - 1 \in Nat /\ (m - 1) + 1 = m
        BY <2>3
    <2>5. Reg(key, e)[t + (m - 1)] = PowerMod(m - 1)
        BY <2>3
    <2>6. Reg(key, e)[t + m] = Feed(key, Reg(key, e)[(t + m) - 1], e[t + m])
        BY <1>4, <2>4, RegProps
    <2>7. Reg(key, e)[t + m] = Feed(key, PowerMod(m - 1), 0)
        BY <1>2, <2>4, <2>5, <2>6
    <2>8. PowerMod(m) = Feed(key, PowerMod(m - 1), 0)
        BY <2>4, PowerModProps
    <2> QED BY <2>7, <2>8
<1>7. n - t \in 0..n - t /\ t + (n - t) = n
    OBVIOUS
<1>8. Reg(key, e)[n] = PowerMod(n - t)
    BY <1>6, <1>7
<1> QED BY <1>4, <1>8 DEF e

-----------------------------------------------------------------------------
(* What a toggled bit and the appended remainder do to the register.       *)

\* A sequence of bits by its values.
LEMMA BitSeq ==
    ASSUME NEW n \in Nat, NEW f, f \in [1..n -> Bit]
    PROVE  f \in Seq(Bit) /\ Len(f) = n
OBVIOUS

\* A bit toggled at t adds the power that belongs to its position.
LEMMA RegToggle ==
    ASSUME Key(key), NEW f \in Seq(Bit), NEW t \in 1..Len(f), NEW g \in Seq(Bit),
           Len(g) = Len(f), \A i \in 1..Len(f) : g[i] = IF i = t THEN 1 - f[t] ELSE f[i]
    PROVE  Reg(key, g)[Len(f)] = Add(key, Reg(key, f)[Len(f)], PowerMod(Len(f) - t))
<1> DEFINE n == Len(f)
           e == Unit(n, t)
<1>1. n \in Nat /\ Len(g) = n /\ n \in 0..n
    BY LenProperties
<1>2. e \in Seq(Bit) /\ Len(e) = n /\ Reg(key, e)[n] = PowerMod(n - t)
    BY <1>1, RegUnit
<1>3. ASSUME NEW i \in 1..n PROVE g[i] = Xor(f[i], e[i])
    <2>1. f[i] \in Bit /\ g[i] = IF i = t THEN 1 - f[t] ELSE f[i]
        BY <1>1, ElementOfSeq
    <2>2. e[i] = IF i = t THEN 1 ELSE 0
        BY DEF Unit
    <2> HIDE DEF e
    <2>3. CASE i = t
        BY <2>1, <2>2, <2>3 DEF Xor, Bit
    <2>4. CASE i # t
        BY <2>1, <2>2, <2>4 DEF Xor, Bit
    <2> QED BY <2>3, <2>4
<1> HIDE DEF e
<1>4. Reg(key, g)[n] = Add(key, Reg(key, f)[n], Reg(key, e)[n])
    <2>1. Len(f) = Len(g) /\ Len(e) = Len(g) /\ \A i \in 1..Len(g) : g[i] = Xor(f[i], e[i])
        BY <1>1, <1>2, <1>3
    <2>2. \A j \in 0..Len(g) : Reg(key, g)[j] = Add(key, Reg(key, f)[j], Reg(key, e)[j])
        BY <1>2, <2>1, RegLinear, ZenonT(30)
    <2> QED BY <1>1, <2>2
<1> QED BY <1>2, <1>4

\* The bits of c behind n zeros.
Behind(n, c, d) == [i \in 1..n + d |-> IF i <= n THEN 0 ELSE c[i - n]]

LEMMA RegBehind ==
    ASSUME NEW k, Key(k), NEW n \in Nat, NEW c \in Vec(k)
    PROVE  /\ Behind(n, c, Deg(k)) \in Seq(Bit) /\ Len(Behind(n, c, Deg(k))) = n + Deg(k)
           /\ Reg(k, Behind(n, c, Deg(k)))[n + Deg(k)] = c
<1> DEFINE d == Deg(k)
           e == Behind(n, c, d)
<1>1. d \in Nat \ {0} /\ n + d \in Nat
    BY KeyProps
<1>2. \A i \in 1..d : c[i] \in Bit
    BY DEF Vec
<1>3. DOMAIN e = 1..n + d /\ \A i \in 1..n + d : e[i] = IF i <= n THEN 0 ELSE c[i - n]
    BY DEF Behind
<1>4. c = [i \in 1..d |-> c[i]] /\ e = [i \in 1..n + d |-> e[i]]
    BY DEF Vec, Behind
<1> HIDE DEF d, e
<1>5. ASSUME NEW i \in 1..n + d PROVE e[i] \in Bit
    <2>1. ~(i <= n) => i - n \in 1..d
        BY <1>1
    <2> QED BY <1>2, <1>3, <2>1 DEF Bit
<1>6. e \in [1..n + d -> Bit]
    BY <1>4, <1>5, Zenon
<1>7. e \in Seq(Bit) /\ Len(e) = n + d
    BY <1>1, <1>6, BitSeq
<1>8. n \in 0..Len(e) /\ n + d \in 0..Len(e) /\ n + d <= n + d /\ \A i \in 1..n : i \in 1..n + d /\ i <= n
    BY <1>1, <1>7
<1>9. Reg(k, e)[n + d] =
          [i \in 1..d |-> IF (n + d) - d + i >= 1 THEN e[(n + d) - d + i] ELSE 0]
    BY <1>3, <1>7, <1>8, RegShort DEF d
<1>10. ASSUME NEW i \in 1..d
       PROVE  (IF (n + d) - d + i >= 1 THEN e[(n + d) - d + i] ELSE 0) = c[i]
    <2>1. /\ (n + d) - d + i = n + i /\ n + i \in 1..n + d /\ n + i >= 1
          /\ ~(n + i <= n) /\ (n + i) - n = i
        BY <1>1
    <2>2. e[n + i] = c[i]
        BY <1>3, <2>1
    <2> QED BY <2>1, <2>2
<1>11. Reg(k, e)[n + d] = [i \in 1..d |-> c[i]]
    BY <1>9, <1>10, Zenon
<1> QED BY <1>4, <1>7, <1>11 DEF d, e

\* The bits of a frame followed by the remainder of the frame and Deg(k) zeros
\* are divisible.
LEMMA RegChecksum ==
    ASSUME NEW k, Key(k), NEW n \in Nat, NEW z \in Seq(Bit), NEW w \in Seq(Bit),
           Len(z) = n + Deg(k), Len(w) = n + Deg(k),
           \A i \in 1..n : z[i] = w[i],
           \A i \in 1..Deg(k) : z[n + i] = 0 /\ w[n + i] = Reg(k, z)[Len(z)][i]
    PROVE  Reg(k, w)[Len(w)] = Zero(k)
<1> DEFINE d == Deg(k)
           c == Reg(k, z)[Len(z)]
           e == Behind(n, c, d)
<1>1. d \in Nat \ {0} /\ n + d \in Nat /\ n + d \in 0..n + d
    BY KeyProps
<1>2. c \in Vec(k)
    BY <1>1, RegProps
<1>3. \A i \in 1..d : c[i] \in Bit
    BY <1>2 DEF Vec
<1> HIDE DEF c
<1>4. e \in Seq(Bit) /\ Len(e) = n + d /\ Reg(k, e)[n + d] = c
    BY <1>1, <1>2, RegBehind
<1>5. \A i \in 1..n + d : e[i] = IF i <= n THEN 0 ELSE c[i - n]
    BY DEF Behind
<1> HIDE DEF e
<1>6. ASSUME NEW i \in 1..n + d PROVE w[i] = Xor(z[i], e[i])
    <2>1. CASE i <= n
        <3>1. i \in 1..n /\ i \in 1..Len(z)
            BY <1>1, <2>1
        <3>2. w[i] = z[i] /\ e[i] = 0 /\ z[i] \in Bit
            BY <1>5, <2>1, <3>1, ElementOfSeq
        <3> QED BY <3>2, XorProps
    <2>2. CASE ~(i <= n)
        <3>1. i - n \in 1..d /\ n + (i - n) = i
            BY <1>1, <2>2
        <3>2. w[i] = c[i - n] /\ z[i] = 0 /\ e[i] = c[i - n] /\ c[i - n] \in Bit
            BY <1>3, <1>5, <2>2, <3>1 DEF c
        <3> QED BY <3>2, XorProps
    <2> QED BY <2>1, <2>2
<1>7. Reg(k, w)[n + d] = Add(k, Reg(k, z)[n + d], Reg(k, e)[n + d])
    BY <1>1, <1>4, <1>6, RegLinear
<1>8. Reg(k, w)[Len(w)] = Add(k, c, c)
    BY <1>4, <1>7 DEF c
<1>9. Add(k, c, c) = Zero(k)
    BY DEF Add, Zero, Xor
<1> QED BY <1>8, <1>9

\* The syndrome of no bits, and of one bit more.
LEMMA SyndromeProps ==
    ASSUME Key(key), NEW n \in Nat
    PROVE  /\ Syndrome(n, {}) = Zero(key)
           /\ \A E \in SUBSET (1..n) : \A t \in 1..n : t \notin E =>
                 Syndrome(n, E \cup {t}) = Add(key, Syndrome(n, E), PowerMod(n - t))
<1>1. Degree = Deg(key)
    BY DEF Degree, Deg
<1> DEFINE S(E, i) == {t \in E : PowerMod(n - t)[i] = 1}
<1>2. Syndrome(n, {}) = Zero(key)
    <2>1. \A i : S({}, i) = {}
        OBVIOUS
    <2>2. Cardinality({}) % 2 = 0
        BY FS_EmptySet
    <2> QED BY <1>1, <2>1, <2>2 DEF Syndrome, Zero
<1>3. ASSUME NEW E \in SUBSET (1..n), NEW t \in 1..n, t \notin E
      PROVE  Syndrome(n, E \cup {t}) = Add(key, Syndrome(n, E), PowerMod(n - t))
    <2> DEFINE p == PowerMod(n - t)
    <2>1. n - t \in Nat
        OBVIOUS
    <2>2. p \in Vec(key)
        BY <2>1, PowerModProps
    <2>3. ASSUME NEW i \in 1..Deg(key)
          PROVE  Cardinality(S(E \cup {t}, i)) % 2 = Xor(Cardinality(S(E, i)) % 2, p[i])
        <3>1. IsFiniteSet(S(E, i)) /\ t \notin S(E, i)
            <4>1. IsFiniteSet(1..n)
                BY FS_Interval
            <4>2. S(E, i) \subseteq 1..n /\ t \notin S(E, i)
                BY <1>3
            <4> QED BY <4>1, <4>2, FS_Subset
        <3>2. p[i] \in Bit
            BY <2>2 DEF Vec
        <3>3. S(E \cup {t}, i) = IF p[i] = 1 THEN S(E, i) \cup {t} ELSE S(E, i)
            OBVIOUS
        <3> HIDE DEF S, p
        <3>4. Cardinality(S(E, i)) \in Nat
            BY <3>1, FS_CardinalityType
        <3>5. CASE p[i] = 1
            <4>1. Cardinality(S(E \cup {t}, i)) = Cardinality(S(E, i)) + 1
                BY <3>1, <3>3, <3>5, FS_AddElement
            <4> QED BY <3>4, <3>5, <4>1 DEF Xor
        <3>6. CASE p[i] = 0
            BY <3>3, <3>4, <3>6 DEF Xor
        <3> QED BY <3>2, <3>5, <3>6 DEF Bit
    <2> HIDE DEF p
    <2>4. ASSUME NEW F PROVE Syndrome(n, F) = [i \in 1..Deg(key) |-> Cardinality(S(F, i)) % 2]
        BY <1>1 DEF Syndrome
    <2> HIDE DEF S
    <2> QED BY <2>3, <2>4 DEF Add, p
<1> QED BY <1>2, <1>3

-----------------------------------------------------------------------------
(* The long division of the program, and that it is the register.          *)

LeadingOne(k) == k \in Seq(Bit) /\ Len(k) \in Nat \ {0} /\ k[1] = 1

\* What the loop of Division carries from one round to the next.
Low(temp) == Tail(Subtract(temp))

\* Subtraction clears the first bit.
LEMMA SubtractProps ==
    ASSUME LeadingOne(key), NEW temp \in Seq(Bit), Len(temp) = Len(key)
    PROVE  /\ Subtract(temp) \in Seq(Bit) /\ Len(Subtract(temp)) = Len(key)
           /\ Subtract(temp)[1] = 0
           /\ \A i \in 1..Len(key) :
                 Subtract(temp)[i] = Xor(temp[i], IF temp[1] = 1 THEN key[i] ELSE 0)
           /\ Low(temp) \in Seq(Bit) /\ Len(Low(temp)) = Len(key) - 1
           /\ \A i \in 1..Len(key) - 1 : Low(temp)[i] = Subtract(temp)[i + 1]
<1> DEFINE s == Subtract(temp)
           n == Len(key)
<1>1. /\ n \in Nat \ {0} /\ 1 \in 1..n
      /\ \A i \in 1..n : key[i] \in Bit /\ temp[i] \in Bit
      /\ temp \in [1..n -> Bit] /\ key[1] = 1
    BY ElementOfSeq, SeqDef, LenProperties DEF LeadingOne
<1>2. s \in [1..n -> Bit] /\ \A i \in 1..n : s[i] = Xor(temp[i], IF temp[1] = 1 THEN key[i] ELSE 0)
    <2>1. CASE temp[1] = 1
        <3>1. s = [i \in 1..n |-> IF key[i] = temp[i] THEN 0 ELSE 1]
            BY <1>1, <2>1 DEF Subtract, XOR
        <3>2. \A i \in 1..n : s[i] = Xor(temp[i], key[i])
            BY <3>1 DEF Xor
        <3>3. s \in [1..n -> Bit]
            BY <3>1 DEF Bit
        <3> HIDE DEF s
        <3> QED BY <2>1, <3>2, <3>3
    <2>2. CASE temp[1] = 0
        <3>1. s = temp
            BY <2>2 DEF Subtract
        <3>2. \A i \in 1..n : Xor(temp[i], 0) = temp[i]
            BY <1>1, XorProps
        <3> HIDE DEF s
        <3> QED BY <1>1, <2>2, <3>1, <3>2
    <2> QED BY <1>1, <2>1, <2>2 DEF Bit
<1> HIDE DEF s, n
<1>3. s \in Seq(Bit) /\ Len(s) = n /\ s[1] = 0
    <2>1. s \in Seq(Bit) /\ Len(s) = n
        BY <1>1, <1>2, BitSeq
    <2>2. s[1] = 0
        BY <1>1, <1>2 DEF Xor, Bit, n
    <2> QED BY <2>1, <2>2
<1>4. s # << >>
    BY <1>1, <1>3
<1>5. Tail(s) \in Seq(Bit) /\ Len(Tail(s)) = n - 1 /\ \A i \in 1..n - 1 : Tail(s)[i] = s[i + 1]
    BY <1>3, <1>4, HeadTailProperties
<1> QED BY <1>2, <1>3, <1>5 DEF Low, s, n

\* One round of the loop.
LEMMA BringDownProps ==
    ASSUME LeadingOne(key), NEW temp \in Seq(Bit), Len(temp) = Len(key), NEW b \in Bit
    PROVE  LET next == DropZero(Append(Subtract(temp), b))
           IN  /\ next \in Seq(Bit) /\ Len(next) = Len(key)
               /\ Len(key) > 1 /\ Low(temp) \in Vec(key) => Low(next) = Feed(key, Low(temp), b)
<1> DEFINE s == Subtract(temp)
           a == Append(s, b)
           next == DropZero(a)
           n == Len(key)
<1>1. /\ n \in Nat \ {0} /\ s \in Seq(Bit) /\ Len(s) = n /\ s[1] = 0
      /\ \A i \in 1..n - 1 : Low(temp)[i] = s[i + 1]
    BY SubtractProps DEF LeadingOne
<1> HIDE DEF s
<1>2. /\ a \in Seq(Bit) /\ Len(a) = n + 1 /\ a[n + 1] = b
      /\ \A i \in 1..n : a[i] = s[i]
    BY <1>1, AppendProperties
<1>3. a # << >> /\ a[1] = 0 /\ next = Tail(a)
    BY <1>1, <1>2 DEF DropZero
<1> HIDE DEF a, next
<1>4. next \in Seq(Bit) /\ Len(next) = n /\ \A i \in 1..n : next[i] = a[i + 1]
    BY <1>1, <1>2, <1>3, HeadTailProperties
<1>5. ASSUME n > 1, Low(temp) \in Vec(key) PROVE Low(next) = Feed(key, Low(temp), b)
    <2> DEFINE d == Deg(key)
               low == Low(temp)
               f == Feed(key, low, b)
    <2>1. d = n - 1 /\ d \in Nat \ {0} /\ 1 \in 1..d
        BY <1>1, <1>5 DEF Deg
    <2>2. \A i \in 1..d : low[i] = s[i + 1]
        BY <1>1, <2>1
    <2>3. /\ \A i \in 1..n : Subtract(next)[i] = Xor(next[i], IF next[1] = 1 THEN key[i] ELSE 0)
          /\ Low(next) \in Seq(Bit) /\ Len(Low(next)) = n - 1
          /\ \A i \in 1..n - 1 : Low(next)[i] = Subtract(next)[i + 1]
        BY <1>4, SubtractProps
    <2> HIDE DEF low
    <2>4. next[1] = low[1]
        <3>1. 1 \in 1..n /\ 1 + 1 \in 1..n
            BY <1>5, <2>1
        <3> QED BY <1>2, <1>4, <2>1, <2>2, <3>1
    <2>5. ASSUME NEW i \in 1..d
          PROVE  Low(next)[i] = Xor(IF i < d THEN low[i + 1] ELSE b,
                                    IF low[1] = 1 THEN key[i + 1] ELSE 0)
        <3>1. /\ i \in 1..n - 1 /\ i + 1 \in 1..n
              /\ i < d => i + 1 \in 1..d /\ (i + 1) + 1 \in 1..n
              /\ i = d \/ i < d
            BY <2>1
        <3>2. Low(next)[i] = Xor(next[i + 1], IF low[1] = 1 THEN key[i + 1] ELSE 0)
            BY <2>3, <2>4, <3>1
        <3>3. next[i + 1] = a[(i + 1) + 1]
            BY <1>4, <3>1
        <3>4. next[i + 1] = IF i < d THEN low[i + 1] ELSE b
            <4>1. CASE i < d
                BY <1>2, <2>2, <3>1, <3>3, <4>1
            <4>2. CASE i = d
                <5>1. (i + 1) + 1 = n + 1
                    BY <2>1, <4>2
                <5> QED BY <1>2, <2>1, <3>3, <4>2, <5>1
            <4> QED BY <3>1, <4>1, <4>2
        <3> QED BY <3>2, <3>4
    <2>6. Low(next) = [i \in 1..d |-> Low(next)[i]]
        BY <2>1, <2>3
    <2>7. f = [i \in 1..d |-> Xor(IF i < d THEN low[i + 1] ELSE b,
                                  IF low[1] = 1 THEN key[i + 1] ELSE 0)]
        BY DEF Feed
    <2> HIDE DEF f
    <2>8. Low(next) = f
        BY <2>5, <2>6, <2>7, Zenon
    <2> QED BY <2>8 DEF f, low
<1> QED BY <1>4, <1>5 DEF next, a, s

\* The first bits of the frame under the key.
LEMMA CallDivisionProps ==
    ASSUME LeadingOne(key), NEW frame \in Seq(Bit), Len(key) <= Len(frame)
    PROVE  LET temp == SubSeq(frame, 1, Len(key))
           IN  /\ temp \in Seq(Bit) /\ Len(temp) = Len(key)
               /\ Len(key) > 1 => Low(temp) = Reg(key, frame)[Len(key)]
<1> DEFINE n == Len(key)
           temp == SubSeq(frame, 1, n)
<1>1. n \in Nat \ {0} /\ Len(frame) \in Nat /\ \A i \in 1..n : i \in 1..Len(frame)
    BY LenProperties DEF LeadingOne
<1>2. \A i \in 1..n : frame[i] \in Bit
    BY <1>1, ElementOfSeq
<1>3. temp \in Seq(Bit) /\ Len(temp) = n /\ \A i \in 1..n : temp[i] = frame[i]
    BY <1>1, <1>2, SubSeqProperties
<1> HIDE DEF temp
<1>4. ASSUME n > 1 PROVE Low(temp) = Reg(key, frame)[n]
    <2> DEFINE d == Deg(key)
               r == Reg(key, frame)[n - 1]
               f == Feed(key, r, frame[n])
    <2>1. Key(key) /\ d = n - 1 /\ d \in Nat \ {0} /\ 1 \in 1..d
        <3>1. Key(key)
            BY <1>4 DEF Key, LeadingOne
        <3>2. d = n - 1
            BY DEF Deg
        <3> HIDE DEF d
        <3> QED BY <1>1, <1>4, <3>1, <3>2
    <2>2. n \in 1..Len(frame) /\ n - 1 \in 0..Len(frame) /\ 0 \in 0..Len(frame) /\ n - 1 <= 0 + d
        BY <1>1, <2>1
    <2>3. Reg(key, frame)[n] = f
        BY <2>1, <2>2, RegProps
    <2>4. Reg(key, frame)[d] = [i \in 1..d |-> frame[i]]
        BY <2>1, <2>2, RegFirst
    <2>5. r = [i \in 1..d |-> frame[i]]
        BY <2>1, <2>4
    <2>6. \A i \in 1..d : r[i] = frame[i]
        BY <2>5
    <2>7. /\ \A i \in 1..n : Subtract(temp)[i] = Xor(temp[i], IF temp[1] = 1 THEN key[i] ELSE 0)
          /\ Low(temp) \in Seq(Bit) /\ Len(Low(temp)) = n - 1
          /\ \A i \in 1..n - 1 : Low(temp)[i] = Subtract(temp)[i + 1]
        BY <1>3, SubtractProps
    <2> HIDE DEF r
    <2>8. ASSUME NEW i \in 1..d
          PROVE  Low(temp)[i] = Xor(IF i < d THEN r[i + 1] ELSE frame[n],
                                    IF r[1] = 1 THEN key[i + 1] ELSE 0)
        <3>1. /\ i \in 1..n - 1 /\ i + 1 \in 1..n /\ 1 \in 1..n
              /\ i < d => i + 1 \in 1..d
              /\ i = d \/ i < d
              /\ i = d => i + 1 = n
            BY <2>1
        <3>2. temp[1] = r[1]
            BY <1>3, <2>1, <2>6, <3>1
        <3>3. Low(temp)[i] = Xor(frame[i + 1], IF r[1] = 1 THEN key[i + 1] ELSE 0)
            BY <1>3, <2>7, <3>1, <3>2
        <3>4. frame[i + 1] = IF i < d THEN r[i + 1] ELSE frame[n]
            BY <2>1, <2>6, <3>1
        <3> QED BY <3>3, <3>4
    <2>9. Low(temp) = [i \in 1..d |-> Low(temp)[i]]
        BY <2>1, <2>7
    <2>10. f = [i \in 1..d |-> Xor(IF i < d THEN r[i + 1] ELSE frame[n],
                                   IF r[1] = 1 THEN key[i + 1] ELSE 0)]
        BY DEF Feed
    <2> HIDE DEF f
    <2>11. Low(temp) = f
        BY <2>8, <2>9, <2>10, Zenon
    <2> QED BY <2>3, <2>11
<1> QED BY <1>3, <1>4 DEF temp

\* What Division returns.
LEMMA RemainderProps ==
    ASSUME LeadingOne(key), division.temp \in Seq(Bit), Len(division.temp) = Len(key)
    PROVE  /\ Remainder = Low(division.temp)
           /\ Remainder \in Seq(Bit) /\ Len(Remainder) = Len(key) - 1
BY SubtractProps DEF Remainder, DropZero, Low

\* Error_Detection counts the bits of the remainder that are 1.
LEMMA DetectionProps ==
    ASSUME NEW s \in Seq(Bit)
    PROVE  (Error_Detection(s) # 0) <=> \E i \in 1..Len(s) : s[i] = 1
<1> DEFINE S == {i \in DOMAIN s : s[i] # 0}
<1>1. Len(s) \in Nat /\ DOMAIN s = 1..Len(s) /\ \A i \in 1..Len(s) : s[i] \in Bit
    BY LenProperties, ElementOfSeq
<1>2. IsFiniteSet(1..Len(s)) /\ S \subseteq 1..Len(s)
    BY <1>1, FS_Interval
<1>3. IsFiniteSet(S)
    BY <1>2, FS_Subset
<1>4. Cardinality(S) = 0 <=> S = {}
    BY <1>3, FS_EmptySet
<1>5. S = {} <=> ~\E i \in 1..Len(s) : s[i] = 1
    BY <1>1 DEF Bit
<1> QED BY <1>4, <1>5 DEF Error_Detection

-----------------------------------------------------------------------------
(* Numbers: positions in a block of rows, and padding.                     *)

LEMMA Multiples ==
    ASSUME NEW m \in Nat \ {0}, NEW n \in Nat
    PROVE  /\ n % m = 0 => n = (n \div m) * m /\ n \div m \in Nat /\ (n >= 1 => n \div m >= 1)
           /\ (n * m) % m = 0
           /\ (n \div m) \in Nat /\ (n \div m) * m <= n
OBVIOUS

LEMMA PaddingExists ==
    ASSUME NEW m \in Nat \ {0}, NEW n \in Nat
    PROVE  \E k \in 0..m - 1 : (n + k) % m = 0
<1>1. n = ((n \div m) * m) + (n % m) /\ n % m \in 0..m - 1 /\ n \div m \in Nat
    OBVIOUS
<1>2. CASE n % m = 0
    BY <1>2
<1>3. CASE n % m # 0
    <2>1. n + (m - (n % m)) = ((n \div m) + 1) * m
        BY <1>1
    <2>2. (n + (m - (n % m))) % m = 0
        <3>1. (n \div m) + 1 \in Nat
            BY <1>1
        <3>2. (((n \div m) + 1) * m) % m = 0
            BY <3>1, Multiples
        <3> QED BY <2>1, <3>2
    <2>3. m - (n % m) \in 0..m - 1
        BY <1>1, <1>3
    <2> QED BY <2>2, <2>3
<1> QED BY <1>2, <1>3

\* Bit b of row r of the block is a bit of character (r - 1) * m + (b - 1) \div 8 + 1.
LEMMA CharOfBit ==
    ASSUME NEW m \in Nat \ {0}, NEW q \in Nat, NEW r \in 1..q, NEW b \in 1..m * 8
    PROVE  (r - 1) * m + (b - 1) \div 8 + 1 \in 1..q * m /\ ((b - 1) % 8) + 1 \in 1..8
<1>1. (b - 1) \div 8 \in 0..m - 1 /\ ((b - 1) % 8) + 1 \in 1..8
    OBVIOUS
<1>2. (r - 1) * m >= 0
    OBVIOUS
<1>3. r * m <= q * m /\ (r - 1) * m + m = r * m
    OBVIOUS
<1>4. (r - 1) * m \in Int /\ r * m \in Int /\ q * m \in Int
    OBVIOUS
<1> QED BY <1>1, <1>2, <1>3, <1>4

\* Bit t of the frame is a bit of row (t - 1) % rows + 1, the rows column by column.
LEMMA RowOfBit ==
    ASSUME NEW rows \in Nat \ {0}, NEW n \in Nat, NEW t \in 1..rows * n
    PROVE  ((t - 1) % rows) + 1 \in 1..rows /\ (t - 1) \div rows + 1 \in 1..n
OBVIOUS

LEMMA BitOfRow ==
    ASSUME NEW rows \in Nat \ {0}, NEW n \in Nat, NEW i \in 1..n \div rows, NEW r \in 1..rows
    PROVE  (i - 1) * rows + r \in 1..n
<1> DEFINE q == n \div rows
<1>1. q \in Nat /\ q * rows <= n /\ i \in 1..q
    OBVIOUS
<1> HIDE DEF q
<1>2. i * rows <= q * rows
    BY <1>1
<1>3. (i - 1) * rows >= 0 /\ (i - 1) * rows + rows = i * rows
    BY <1>1
<1>4. (i - 1) * rows \in Int /\ i * rows \in Int /\ q * rows \in Int
    BY <1>1
<1> QED BY <1>1, <1>2, <1>3, <1>4

\* Character i of the string is in row (i - 1) \div m + 1, behind (i - 1) % m others.
LEMMA RowOfChar ==
    ASSUME NEW m \in Nat \ {0}, NEW q \in Nat, NEW i \in 1..q * m
    PROVE  (i - 1) \div m + 1 \in 1..q /\ ((i - 1) % m) * 8 \in 0..m * 8 - 8
<1>1. (i - 1) % m \in 0..m - 1
    OBVIOUS
<1>2. i \in 1..m * q
    OBVIOUS
<1> QED BY <1>1, <1>2, RowOfBit

\* Every rank of a finite set of positions is the rank of one of its members.
LEMMA Ranked ==
    ASSUME NEW w \in Nat, NEW S, S \subseteq 1..w, NEW n \in 1..Cardinality(S)
    PROVE  \E k \in S : Cardinality({j \in S : j <= k}) = n
<1> DEFINE R(x) == {j \in S : j <= x}
           Good == {x \in 0..w : Cardinality(R(x)) >= n}
<1>1. IsFiniteSet(S)
    <2>1. IsFiniteSet(1..w)
        BY FS_Interval
    <2> QED BY <2>1, FS_Subset
<1>2. \A j \in S : j \in Nat /\ 0 < j /\ j <= w
    OBVIOUS
<1>3. ASSUME NEW x PROVE IsFiniteSet(R(x)) /\ Cardinality(R(x)) \in Nat
    BY <1>1, FS_Subset, FS_CardinalityType
<1>4. w \in Good
    <2>1. \A j : j \in R(w) <=> j \in S
        BY <1>2
    <2>2. R(w) = S
        BY <2>1
    <2>3. Cardinality(S) \in Nat
        BY <1>1, FS_CardinalityType
    <2> QED BY <2>2, <2>3
<1>5. PICK m \in Good : \A x \in Good : m <= x
    <2>1. Good \subseteq Nat /\ Good # {}
        BY <1>4
    <2> HIDE DEF Good
    <2> QED BY <2>1, LeastNumber
<1>6. m # 0
    <2>1. \A j \in S : ~(j <= 0)
        BY <1>2
    <2>2. R(0) = {}
        BY <2>1
    <2> QED BY <2>2, FS_EmptySet
<1>7. m \in 1..w /\ m - 1 \in 0..w /\ Cardinality(R(m)) >= n /\ m - 1 \notin Good
    <2>1. m \in 0..w /\ Cardinality(R(m)) >= n
        OBVIOUS
    <2>2. m \in 1..w /\ m - 1 \in 0..w /\ ~(m <= m - 1)
        BY <1>6, <2>1
    <2> HIDE DEF Good
    <2> QED BY <1>5, <2>1, <2>2
<1>8. ~(Cardinality(R(m - 1)) >= n)
    BY <1>7
<1>9. \A j \in S : j <= m <=> j <= m - 1 \/ j = m
    BY <1>2, <1>7
<1>10. m \notin R(m - 1)
    BY <1>7
<1>11. CASE m \in S
    <2>1. R(m) = R(m - 1) \cup {m}
        BY <1>9, <1>11
    <2> HIDE DEF R
    <2>2. Cardinality(R(m)) = Cardinality(R(m - 1)) + 1
        BY <1>3, <1>10, <2>1, FS_AddElement
    <2>3. Cardinality(R(m)) = n
        BY <1>3, <1>7, <1>8, <2>2
    <2> QED BY <1>11, <2>3 DEF R
<1>12. CASE m \notin S
    <2>1. R(m) = R(m - 1)
        BY <1>9, <1>12
    <2> QED BY <1>7, <1>8, <2>1
<1> QED BY <1>11, <1>12

-----------------------------------------------------------------------------
(* The block: what each section of main makes of the rows.                 *)

Row(w) == [1..w -> Bit]
Rows(n, w) == [1..n -> Row(w)]

LEMMA ConvertType ==
    ASSUME NEW c \in 0..255
    PROVE  binary_Convert(c) \in Row(8)
<1>1. ASSUME NEW e \in 0..7 PROVE 2^e \in Nat \ {0}
    <2>1. e = 0 \/ e = 1 \/ e = 2 \/ e = 3 \/ e = 4 \/ e = 5 \/ e = 6 \/ e = 7
        OBVIOUS
    <2>2. LET P == Nat \ {0}
          IN  /\ 2^0 \in P /\ 2^1 \in P /\ 2^2 \in P /\ 2^3 \in P
              /\ 2^4 \in P /\ 2^5 \in P /\ 2^6 \in P /\ 2^7 \in P
        OBVIOUS
    <2> QED BY <2>1, <2>2, Zenon
<1>2. ASSUME NEW b \in 1..8
      PROVE  (IF c > 127 THEN 0 ELSE (c \div 2^(8 - b)) % 2) \in Bit
    <2> DEFINE p == 2^(8 - b)
    <2>1. 8 - b \in 0..7
        OBVIOUS
    <2>2. p \in Nat \ {0}
        BY <1>1, <2>1
    <2> HIDE DEF p
    <2>3. (c \div p) % 2 \in {0, 1}
        BY <2>2
    <2> QED BY <2>3 DEF Bit, p
<1> QED BY <1>2 DEF binary_Convert, Row

\* A sequence by its values.
LEMMA FunSeq ==
    ASSUME NEW T, NEW n \in Nat, NEW f, f \in [1..n -> T]
    PROVE  f \in Seq(T) /\ Len(f) = n
OBVIOUS

\* The padded string fills the rows.
LEMMA PaddedString ==
    ASSUME input.m \in Nat \ {0}, NEW s \in Seq(0..255), s # << >>
    PROVE  LET t == s \o [k \in 1..Padding(Len(s)) |-> Tilde]
           IN  /\ t \in Seq(0..255)
               /\ Len(t) \div input.m \in Nat \ {0} /\ Len(t) = (Len(t) \div input.m) * input.m
<1> DEFINE m == input.m
           p == Padding(Len(s))
           tail == [k \in 1..p |-> Tilde]
           t == s \o tail
<1>1. Len(s) \in Nat \ {0}
    BY LenProperties, EmptySeq
<1>2. p \in 0..m - 1 /\ (Len(s) + p) % m = 0
    <2>1. \E k \in 0..m - 1 : (Len(s) + k) % m = 0
        BY <1>1, PaddingExists
    <2> QED BY <2>1 DEF Padding
<1> HIDE DEF p
<1>3. p \in Nat
    BY <1>2
<1>4. tail \in [1..p -> 0..255]
    BY DEF Tilde
<1> HIDE DEF tail
<1>5. tail \in Seq(0..255) /\ Len(tail) = p
    BY <1>3, <1>4, FunSeq
<1>6. t \in Seq(0..255) /\ Len(t) = Len(s) + p
    BY <1>5, ConcatProperties
<1> HIDE DEF t
<1>7. Len(t) \in Nat /\ Len(t) >= 1 /\ Len(t) % m = 0
    BY <1>1, <1>2, <1>3, <1>6
<1>8. Len(t) = (Len(t) \div m) * m /\ Len(t) \div m \in Nat /\ Len(t) \div m >= 1
    BY <1>7, Multiples
<1>9. Len(t) \div m \in Nat \ {0}
    BY <1>8
<1> QED BY <1>6, <1>8, <1>9 DEF t, tail, p

LEMMA BlockType ==
    ASSUME NEW m \in Nat \ {0}, NEW q \in Nat, NEW t \in Seq(0..255), Len(t) = q * m
    PROVE  [r \in 1..q |-> [b \in 1..m * 8 |->
               binary_Convert(t[(r - 1) * m + (b - 1) \div 8 + 1])[((b - 1) % 8) + 1]]] \in Rows(q, m * 8)
<1>1. ASSUME NEW r \in 1..q, NEW b \in 1..m * 8
      PROVE  binary_Convert(t[(r - 1) * m + (b - 1) \div 8 + 1])[((b - 1) % 8) + 1] \in Bit
    <2> DEFINE i == (r - 1) * m + (b - 1) \div 8 + 1
               j == ((b - 1) % 8) + 1
    <2>1. i \in 1..Len(t) /\ j \in 1..8
        BY CharOfBit
    <2> HIDE DEF i, j
    <2>2. t[i] \in 0..255
        BY <2>1, ElementOfSeq
    <2>3. binary_Convert(t[i]) \in Row(8)
        BY <2>2, ConvertType
    <2>4. binary_Convert(t[i])[j] \in Bit
        BY <2>1, <2>3 DEF Row
    <2> QED BY <2>4 DEF i, j
<1> QED BY <1>1, Zenon DEF Rows, Row

LEMMA ParityType ==
    ASSUME NEW row, IsFiniteSet(DOMAIN row), NEW idx
    PROVE  getParity(row, idx) \in Bit
<1> DEFINE S == {i \in DOMAIN row : (i \div idx) % 2 = 1 /\ row[i] = 1}
<1>1. IsFiniteSet(S)
    BY FS_Subset
<1> HIDE DEF S
<1>2. Cardinality(S) \in Nat
    BY <1>1, FS_CardinalityType
<1>3. Cardinality(S) % 2 \in {0, 1}
    BY <1>2
<1> QED BY <1>3 DEF getParity, Bit, S

\* Check bits in place, and no placeholder left.
LEMMA CheckBitsType ==
    ASSUME input.m \in Nat \ {0}
    PROVE  \E w \in Nat \ {0} : \A row \in Row(input.m * 8) :
               FillCheckBits(InsertCheckBits(row)) \in Row(w)
<1> DEFINE n == input.m * 8
           check == PowersOfTwo \cap 1..n
           below(k) == {c \in check : c < k}
           w == n + Cardinality(check)
<1>1. n \in Nat \ {0} /\ n * 1 = n
    OBVIOUS
<1> HIDE DEF n
<1>2. IsFiniteSet(1..n)
    BY <1>1, FS_Interval
<1>3. IsFiniteSet(check) /\ Cardinality(check) \in Nat
    BY <1>2, FS_Subset, FS_CardinalityType
<1>4. \A c \in check : c \in 1..n
    OBVIOUS
<1> HIDE DEF check
<1>5. w \in Nat \ {0}
    BY <1>1, <1>3
<1>6. ASSUME NEW k \in 1..w PROVE k - Cardinality(below(k)) \in 1..n
    <2>1. below(k) \subseteq check /\ \A c \in below(k) : c \in 1..n /\ c < k
        BY <1>4
    <2> HIDE DEF below
    <2>2. below(k) \subseteq 1..k - 1
        BY <1>1, <1>5, <2>1
    <2>3. Cardinality(1..k - 1) = k - 1 /\ IsFiniteSet(1..k - 1)
        <3>1. k - 1 \in Int /\ 1 \in Int
            BY <1>5
        <3>2. /\ IsFiniteSet(1..k - 1)
              /\ Cardinality(1..k - 1) = IF 1 > k - 1 THEN 0 ELSE (k - 1) - 1 + 1
            BY <3>1, FS_Interval
        <3> QED BY <1>5, <3>2
    <2>4. Cardinality(below(k)) \in Nat /\ Cardinality(below(k)) <= k - 1
        BY <2>2, <2>3, FS_Subset, FS_CardinalityType
    <2>5. CASE k <= n
        BY <1>1, <1>5, <2>4, <2>5
    <2>6. CASE k > n
        <3>1. below(k) = check
            BY <1>1, <1>4, <1>5, <2>6 DEF below
        <3> QED BY <1>1, <1>3, <1>5, <2>4, <3>1
    <2> QED BY <1>1, <1>5, <2>5, <2>6
<1>7. ASSUME NEW row \in Row(n)
      PROVE  FillCheckBits(InsertCheckBits(row)) \in Row(w)
    <2> DEFINE long == InsertCheckBits(row)
               at(k) == k - Cardinality(below(k))
    <2>1. Len(row) = n
        BY <1>1 DEF Row
    <2>2. long = [k \in 1..w |-> IF k \in check THEN -1 ELSE row[at(k)]]
        BY <2>1 DEF InsertCheckBits, n, check
    <2> HIDE DEF long
    <2>3. ASSUME NEW k \in 1..w PROVE long[k] = -1 \/ long[k] \in Bit
        <3>1. at(k) \in 1..n
            BY <1>6
        <3> HIDE DEF at, below
        <3>2. row[at(k)] \in Bit
            BY <3>1 DEF Row
        <3> QED BY <2>2, <3>2
    <2>4. DOMAIN long = 1..w /\ IsFiniteSet(1..w)
        BY <1>5, <2>2, FS_Interval
    <2>5. ASSUME NEW k \in 1..w
          PROVE  (IF long[k] = -1 THEN getParity(long, k) ELSE long[k]) \in Bit
        BY <2>3, <2>4, ParityType
    <2>6. FillCheckBits(long) \in [1..w -> Bit]
        BY <2>4, <2>5 DEF FillCheckBits
    <2> QED BY <2>6 DEF long, Row
<1> QED BY <1>5, <1>7 DEF n

\* The bits of the frame, column by column.
LEMMA SerializeType ==
    ASSUME NEW n \in Nat \ {0}, NEW w \in Nat \ {0}, NEW frame, frame \in Rows(n, w)
    PROVE  /\ Serialize(frame) \in Seq(Bit) /\ Len(Serialize(frame)) >= 1
           /\ Len(Serialize(frame)) \in Nat
<1>1. n \in Nat /\ DOMAIN frame = 1..n /\ 1 \in 1..n /\ \A i \in 1..n : frame[i] \in Row(w)
    BY DEF Rows
<1>2. Len(frame) = n
    <2>1. frame \in Seq(Row(w))
        BY FunSeq DEF Rows
    <2> QED BY FunSeq DEF Rows
<1>3. Len(frame[1]) = w
    BY <1>1, FunSeq DEF Row
<1>4. n * w \in Nat /\ n * w >= 1
    OBVIOUS
<1>5. ASSUME NEW t \in 1..n * w
      PROVE  frame[((t - 1) % n) + 1][(t - 1) \div n + 1] \in Bit
    <2> DEFINE i == ((t - 1) % n) + 1
               j == (t - 1) \div n + 1
    <2>1. i \in 1..n /\ j \in 1..w
        BY RowOfBit
    <2> HIDE DEF i, j
    <2>2. frame[i] \in Row(w)
        BY <1>1, <2>1
    <2>3. frame[i][j] \in Bit
        BY <2>1, <2>2 DEF Row
    <2> QED BY <2>3 DEF i, j
<1>6. Serialize(frame) = [t \in 1..n * w |-> frame[((t - 1) % n) + 1][(t - 1) \div n + 1]]
    BY <1>2, <1>3 DEF Serialize
<1> DEFINE s == Serialize(frame)
<1>7. s \in [1..n * w -> Bit]
    BY <1>5, <1>6, Zenon
<1> HIDE DEF s
<1>8. s \in Seq(Bit) /\ Len(s) = n * w
    BY <1>4, <1>7, FunSeq
<1> QED BY <1>4, <1>8 DEF s

LEMMA DeserializeType ==
    ASSUME NEW n \in Nat \ {0}, NEW bits \in Seq(Bit)
    PROVE  Len(bits) \div n \in Nat /\ Deserialize(bits, n) \in Rows(n, Len(bits) \div n)
<1> DEFINE w == Len(bits) \div n
<1>1. Len(bits) \in Nat /\ w \in Nat
    BY LenProperties, Multiples
<1>2. ASSUME NEW r \in 1..n, NEW i \in 1..w
      PROVE  bits[(i - 1) * n + r] \in Bit
    <2> DEFINE k == (i - 1) * n + r
    <2>1. k \in 1..Len(bits)
        BY <1>1, BitOfRow
    <2> HIDE DEF k
    <2>2. bits[k] \in Bit
        BY <2>1, ElementOfSeq
    <2> QED BY <2>2 DEF k
<1>3. Deserialize(bits, n) = [r \in 1..n |-> [i \in 1..w |-> bits[(i - 1) * n + r]]]
    BY DEF Deserialize
<1> HIDE DEF w
<1>4. ASSUME NEW r \in 1..n
      PROVE  [i \in 1..w |-> bits[(i - 1) * n + r]] \in Row(w)
    BY <1>2, Zenon DEF Row
<1>5. Deserialize(bits, n) \in [1..n -> Row(w)]
    BY <1>3, <1>4, Zenon
<1> QED BY <1>1, <1>5 DEF Rows, w

LEMMA CorrectType ==
    ASSUME NEW w \in Nat, NEW row \in Row(w)
    PROVE  CorrectRow(row) \in Row(w)
<1> DEFINE bin == ErrorPosition(row)
<1> HIDE DEF bin
<1>1. DOMAIN row = 1..w /\ \A i \in 1..w : row[i] \in Bit /\ 1 - row[i] \in Bit
    BY DEF Row, Bit
<1>2. CASE bin \in DOMAIN row
    <2>1. [row EXCEPT ![bin] = 1 - @] \in [1..w -> Bit]
        BY <1>1, <1>2 DEF Row
    <2> QED BY <1>2, <2>1 DEF CorrectRow, Row, bin
<1>3. CASE bin \notin DOMAIN row
    BY <1>3 DEF CorrectRow, bin
<1> QED BY <1>2, <1>3

\* Without the check bits; the new length is the same for all rows.
LEMMA EraseType ==
    ASSUME NEW w \in Nat
    PROVE  \E v \in Nat : \A row \in Row(w) : EraseCheckBits(row) \in Row(v)
<1> DEFINE kept == (1..w) \ PowersOfTwo
           rank(k) == Cardinality({j \in kept : j <= k})
           v == Cardinality(kept)
<1>1. kept \subseteq 1..w
    OBVIOUS
<1>2. v \in Nat
    <2>1. IsFiniteSet(1..w)
        BY FS_Interval
    <2> HIDE DEF kept
    <2> QED BY <1>1, <2>1, FS_Subset, FS_CardinalityType
<1>3. ASSUME NEW row \in Row(w)
      PROVE  EraseCheckBits(row) \in Row(v)
    <2>1. DOMAIN row = 1..w /\ \A i \in 1..w : row[i] \in Bit
        BY DEF Row
    <2>2. EraseCheckBits(row) = [n \in 1..v |-> row[CHOOSE k \in kept : rank(k) = n]]
        BY <2>1 DEF EraseCheckBits
    <2> HIDE DEF kept
    <2>3. ASSUME NEW n \in 1..v PROVE row[CHOOSE k \in kept : rank(k) = n] \in Bit
        <3>1. \E k \in kept : rank(k) = n
            BY <1>1, Ranked, ZenonT(30)
        <3>2. (CHOOSE k \in kept : rank(k) = n) \in kept
            BY <3>1
        <3> QED BY <1>1, <2>1, <3>2
    <2> HIDE DEF v, rank
    <2> QED BY <2>2, <2>3, Zenon DEF Row
<1> QED BY <1>2, <1>3

LEMMA EightBits ==
    ASSUME NEW s, \A i \in 1..8 : s[i] \in 0..1
    PROVE  Code(s) \in 0..255
<1>1. PICK a \in 0..1, b \in 0..1, c \in 0..1, d \in 0..1 :
          a = s[1] /\ b = s[2] /\ c = s[3] /\ d = s[4]
    OBVIOUS
<1>2. PICK e \in 0..1, f \in 0..1, g \in 0..1, h \in 0..1 :
          e = s[5] /\ f = s[6] /\ g = s[7] /\ h = s[8]
    OBVIOUS
<1>3. 128 * a + 64 * b + 32 * c + 16 * d + 8 * e + 4 * f + 2 * g + h \in 0..255
    OBVIOUS
<1> QED BY <1>1, <1>2, <1>3, Zenon DEF Code

\* Eight bits of a row are the code of a character.
LEMMA CodeType ==
    ASSUME NEW row \in Seq(Bit), NEW from \in Nat, from + 8 <= Len(row)
    PROVE  Code(SubSeq(row, from + 1, from + 8)) \in 0..255
<1> DEFINE s == SubSeq(row, from + 1, from + 8)
<1>1. Len(row) \in Nat /\ from + 1 \in Int /\ from + 8 \in Int
    BY LenProperties
<1>2. \A i \in from + 1..from + 8 : i \in 1..Len(row)
    BY <1>1
<1>3. \A i \in from + 1..from + 8 : row[i] \in Bit
    BY <1>2, ElementOfSeq
<1>4. s \in Seq(Bit) /\ Len(s) = 8
    <2>1. from + 1 <= from + 8 /\ (from + 8) - (from + 1) + 1 = 8
        OBVIOUS
    <2>2. s \in Seq(Bit) /\ Len(s) = IF from + 1 <= from + 8 THEN (from + 8) - (from + 1) + 1 ELSE 0
        BY <1>1, <1>3, SubSeqProperties
    <2> QED BY <2>1, <2>2
<1> HIDE DEF s
<1>5. \A i \in 1..8 : s[i] \in 0..1
    <2>1. \A i \in 1..8 : s[i] \in Bit
        BY <1>4, ElementOfSeq
    <2>2. \A x \in Bit : x \in 0..1
        BY DEF Bit
    <2> QED BY <2>1, <2>2, Zenon
<1> QED BY <1>5, EightBits DEF s

\* A row read past its end, up to the bits of m characters.
LEMMA PastType ==
    ASSUME NEW w \in Nat, NEW row, row \in Row(w), NEW n \in Nat, NEW past, past \in [1..n - w -> Bit]
    PROVE  row \o past \in Seq(Bit) /\ n <= Len(row \o past) /\ Len(row \o past) \in Nat
<1>1. row \in Seq(Bit) /\ Len(row) = w
    BY FunSeq DEF Row
<1>2. \E v \in Nat : v >= n - w /\ past \in [1..v -> Bit]
    <2>1. CASE n >= w
        BY <2>1
    <2>2. CASE n < w
        <3>1. 1..n - w = 1..0 /\ 0 >= n - w
            BY <2>2
        <3> QED BY <3>1
    <2> QED BY <2>1, <2>2
<1>3. PICK v \in Nat : v >= n - w /\ past \in [1..v -> Bit]
    BY <1>2
<1>4. past \in Seq(Bit) /\ Len(past) = v
    BY <1>3, FunSeq
<1>5. row \o past \in Seq(Bit) /\ Len(row \o past) = w + v
    BY <1>1, <1>4, ConcatProperties
<1> QED BY <1>3, <1>5

-----------------------------------------------------------------------------
(***************************************************************************)
(* The invariant.  Its parts that speak of the division use constant-level *)
(* operators of the key, which is never changed.                           *)
(***************************************************************************)

\* What Low returns, and what Syndrome returns.
LowOf(k, temp) == [i \in 1..Deg(k) |-> Xor(temp[i + 1], IF temp[1] = 1 THEN k[i + 1] ELSE 0)]
Syn(k, n, toggled) ==
    [i \in 1..Deg(k) |-> Cardinality({t \in toggled : Reg(k, Unit(n, t))[n][i] = 1}) % 2]

LEMMA LowIs ==
    ASSUME LeadingOne(key), NEW temp \in Seq(Bit), Len(temp) = Len(key)
    PROVE  Low(temp) = LowOf(key, temp)
<1>1. /\ \A i \in 1..Len(key) : Subtract(temp)[i] = Xor(temp[i], IF temp[1] = 1 THEN key[i] ELSE 0)
      /\ Low(temp) \in Seq(Bit) /\ Len(Low(temp)) = Len(key) - 1
      /\ \A i \in 1..Len(key) - 1 : Low(temp)[i] = Subtract(temp)[i + 1]
    BY SubtractProps
<1>2. Len(key) \in Nat \ {0} /\ Deg(key) = Len(key) - 1
    BY DEF LeadingOne, Deg
<1>3. ASSUME NEW i \in 1..Deg(key)
      PROVE  Low(temp)[i] = Xor(temp[i + 1], IF temp[1] = 1 THEN key[i + 1] ELSE 0)
    <2>1. i \in 1..Len(key) - 1 /\ i + 1 \in 1..Len(key)
        BY <1>2
    <2> QED BY <1>1, <2>1
<1>4. Low(temp) = [i \in 1..Deg(key) |-> Low(temp)[i]]
    BY <1>1, <1>2
<1> QED BY <1>3, <1>4, Zenon DEF LowOf

LEMMA SynIs ==
    ASSUME Key(key), NEW n \in Nat, NEW E, E \subseteq 1..n
    PROVE  Syndrome(n, E) = Syn(key, n, E)
<1>1. Degree = Deg(key)
    BY DEF Degree, Deg
<1>2. \A t \in E : Reg(key, Unit(n, t))[n] = PowerMod(n - t)
    BY RegUnit
<1>3. ASSUME NEW i PROVE {t \in E : PowerMod(n - t)[i] = 1} = {t \in E : Reg(key, Unit(n, t))[n][i] = 1}
    BY <1>2
<1> QED BY <1>1, <1>3, Zenon DEF Syndrome, Syn

\* The values of the variables.
Typed ==
    /\ input \in Input /\ detected \in BOOLEAN
    /\ data \in Seq(0..255) /\ rec_data \in Seq(0..255)
    /\ serialized \in Seq(Bit) /\ received \in Seq(Bit)
    /\ error_idx \subseteq 1..Len(received) + Len(key)

\* The rows of the sender and of the receiver.
Started == pc \notin {"read", "invalid"}
Rebuilt == pc \in {"correct", "output", "printed"}
Blocked ==
    /\ ~Started => data_frame = << >>
    /\ Started => /\ input.m \in Nat \ {0}
                  /\ col_siz \in Nat \ {0} /\ Len(data) = col_siz * input.m
                  /\ \E w \in Nat \ {0} : data_frame \in Rows(col_siz, w)
    /\ pc = "check_bits" => data_frame \in Rows(col_siz, input.m * 8)
    /\ ~Rebuilt => rec_frame = << >>
    /\ Rebuilt => \E w \in Nat : rec_frame \in Rows(col_siz, w)

\* What has arrived is what the sender has by now, toggled bits included.
OnTheWay == pc \in {"transmit", "detect", "receive"}
Wire ==
    /\ pc \in {"read", "invalid", "check_bits", "serialize", "append"} =>
          received = << >> /\ error_idx = {}
    /\ pc = "append" => Len(serialized) >= 1
    /\ OnTheWay =>
          /\ Len(serialized) >= Len(key) /\ Len(received) <= Len(serialized)
          /\ error_idx \subseteq 1..Len(received)
          /\ \A i \in 1..Len(received) : received[i] = serialized[i]
    /\ pc \in {"detect", "receive"} => received = serialized

\* A call of Division under way.
InDivision == pc \in {"append", "detect"}
Dividing ==
    InDivision =>
        /\ division \in [frame : Seq(Bit), divisor_len : Nat, temp : Seq(Bit)]
        /\ Len(division.temp) = Len(key)
        /\ division.divisor_len \in Len(key)..Len(division.frame)
        /\ pc = "append" => division.frame = serialized \o [i \in 1..Len(key) - 1 |-> 0]
        /\ pc = "detect" => division.frame = received

\* The division is the register, the remainder of the frame sent is what the
\* toggled bits make it, and the verdict is about that remainder.
Divided ==
    Degree > 0 =>
        /\ InDivision =>
              LowOf(key, division.temp) = Reg(key, division.frame)[division.divisor_len]
        /\ OnTheWay =>
              Reg(key, serialized)[Len(serialized)] = Syn(key, Len(serialized), error_idx)
        /\ pc = "receive" =>
              (detected <=> \E i \in 1..Degree : Syn(key, Len(serialized), error_idx)[i] = 1)

CrcInv == Typed /\ Blocked /\ Wire /\ Dividing /\ Divided

LEMMA KeyFacts ==
    ASSUME input \in Input
    PROVE  /\ LeadingOne(key) /\ Degree = Deg(key) /\ Degree \in Nat /\ Len(key) = Degree + 1
           /\ Degree > 0 => Key(key)
           /\ input.data \in Seq(0..255) /\ input.data # << >> /\ input.m \in Int
<1>1. /\ key \in Seq(Bit) /\ key # << >> /\ key[1] = 1
      /\ input.data \in Seq(0..255) /\ input.data # << >> /\ input.m \in Int
    BY InputAssumption DEF key, Bit
<1>2. Len(key) \in Nat \ {0}
    BY <1>1, LenProperties, EmptySeq
<1>3. Degree = Len(key) - 1 /\ Deg(key) = Len(key) - 1
    BY DEF Degree, Deg
<1> QED BY <1>1, <1>2, <1>3 DEF LeadingOne, Key

\* The invariant implies the properties of the runs.
LEMMA InvTypeOK ==
    ASSUME CrcInv
    PROVE  TypeOK
<1>1. Bits = Seq(Bit)
    BY DEF Bits, Bit
<1>2. ASSUME NEW r \in DOMAIN data_frame PROVE data_frame[r] \in Bits
    <2>1. CASE ~Started
        BY <1>2, <2>1 DEF CrcInv, Blocked
    <2>2. CASE Started
        <3>1. PICK w \in Nat \ {0} : data_frame \in Rows(col_siz, w)
            BY <2>2 DEF CrcInv, Blocked
        <3>2. data_frame[r] \in [1..w -> Bit] /\ w \in Nat
            BY <1>2, <3>1 DEF Rows, Row
        <3> QED BY <1>1, <3>2, FunSeq
    <2> QED BY <2>1, <2>2
<1>3. ASSUME NEW r \in DOMAIN rec_frame
      PROVE  rec_frame[r] \in Bits /\ Len(rec_frame[r]) = Len(rec_frame[1])
    <2>1. CASE ~Rebuilt
        BY <1>3, <2>1 DEF CrcInv, Blocked
    <2>2. CASE Rebuilt
        <3>1. PICK w \in Nat : rec_frame \in Rows(col_siz, w)
            BY <2>2 DEF CrcInv, Blocked
        <3>2. Started
            BY <2>2 DEF Rebuilt, Started
        <3>3. col_siz \in Nat \ {0} /\ 1 \in 1..col_siz
            BY <3>2 DEF CrcInv, Blocked
        <3>4. rec_frame[r] \in [1..w -> Bit] /\ rec_frame[1] \in [1..w -> Bit]
            BY <1>3, <3>1, <3>3 DEF Rows, Row
        <3> QED BY <1>1, <3>4, FunSeq
    <2> QED BY <2>1, <2>2
<1> QED BY <1>1, <1>2, <1>3 DEF CrcInv, Typed, TypeOK

LEMMA InvVerdict ==
    ASSUME CrcInv
    PROVE  VerdictExact
<1> SUFFICES ASSUME pc = "receive", Degree > 0
             PROVE  detected <=> \E i \in 1..Degree : Syndrome(Len(serialized), error_idx)[i] = 1
    BY DEF VerdictExact
<1>1. Key(key) /\ Len(serialized) \in Nat
    BY KeyFacts, LenProperties DEF CrcInv, Typed
<1>2. error_idx \subseteq 1..Len(serialized)
    BY DEF CrcInv, Wire, OnTheWay
<1>3. Syndrome(Len(serialized), error_idx) = Syn(key, Len(serialized), error_idx)
    BY <1>1, <1>2, SynIs
<1> QED BY <1>3 DEF CrcInv, Divided

-----------------------------------------------------------------------------
(* Every section of main preserves it.                                     *)

\* What an action needs of the state it starts from.
LEMMA Now ==
    ASSUME CrcInv
    PROVE  /\ LeadingOne(key) /\ Degree = Deg(key) /\ Degree \in Nat /\ Len(key) = Degree + 1
           /\ Degree > 0 => Key(key)
           /\ Len(serialized) \in Nat /\ Len(received) \in Nat
BY KeyFacts, LenProperties DEF CrcInv, Typed

\* The user's input does not change, so the key does not.
LEMMA SameKey ==
    ASSUME input' = input
    PROVE  key' = key /\ Degree' = Degree
BY DEF key, Degree

LEMMA InitInv ==
    ASSUME Init
    PROVE  CrcInv
<1>1. << >> \in Seq(0..255) /\ << >> \in Seq(Bit)
    BY EmptySeq
<1>2. Typed
    BY <1>1 DEF Init, Typed
<1>3. Blocked /\ Wire /\ Dividing /\ Divided
    BY DEF Init, Blocked, Started, Rebuilt, Wire, OnTheWay, Dividing, InDivision, Divided
<1> QED BY <1>2, <1>3 DEF CrcInv

LEMMA InvalidInv ==
    ASSUME CrcInv, InvalidArgument
    PROVE  CrcInv'
<1>1. Typed'
    BY SameKey DEF CrcInv, InvalidArgument, Typed
<1>2. Blocked' /\ Wire' /\ Dividing' /\ Divided'
    BY DEF CrcInv, InvalidArgument, Blocked, Started, Rebuilt, Wire, OnTheWay, Dividing, InDivision, Divided
<1> QED BY <1>1, <1>2 DEF CrcInv

LEMMA MakeBlockInv ==
    ASSUME CrcInv, MakeBlock
    PROVE  CrcInv'
<1> DEFINE m == input.m
           s == input.data
           t == s \o [k \in 1..Padding(Len(s)) |-> Tilde]
           q == Len(t) \div m
<1>1. m \in Nat \ {0} /\ s \in Seq(0..255) /\ s # << >>
    BY KeyFacts DEF CrcInv, Typed, MakeBlock
<1>2. t \in Seq(0..255) /\ q \in Nat \ {0} /\ Len(t) = q * m
    BY <1>1, PaddedString
<1> HIDE DEF t, q
<1>3. /\ pc = "read" /\ pc' = "check_bits" /\ data' = t
      /\ UNCHANGED <<input, serialized, error_idx, received, detected, rec_frame, rec_data, division>>
    BY DEF MakeBlock, t
<1>4. data_frame' = [r \in 1..q |-> [b \in 1..m * 8 |->
               binary_Convert(t[(r - 1) * m + (b - 1) \div 8 + 1])[((b - 1) % 8) + 1]]]
    BY DEF MakeBlock, t, q
<1>5. data_frame' \in Rows(q, m * 8)
    BY <1>1, <1>2, <1>4, BlockType
<1>6. col_siz' = q /\ input' = input
    BY <1>3 DEF col_siz, q
<1>7. Typed'
    BY <1>2, <1>3, SameKey DEF CrcInv, Typed
<1>8. Blocked'
    <2>1. m * 8 \in Nat \ {0}
        BY <1>1
    <2>2. /\ col_siz' \in Nat \ {0} /\ Len(data') = col_siz' * input'.m /\ input'.m = m
          /\ data_frame' \in Rows(col_siz', input'.m * 8)
        BY <1>2, <1>3, <1>5, <1>6
    <2>3. rec_frame' = << >>
        BY <1>3 DEF CrcInv, Blocked, Rebuilt
    <2> HIDE DEF m
    <2> QED BY <1>1, <1>3, <2>1, <2>2, <2>3 DEF Blocked, Started, Rebuilt
<1>9. Wire' /\ Dividing' /\ Divided'
    BY <1>3 DEF CrcInv, Wire, OnTheWay, Dividing, InDivision, Divided
<1> QED BY <1>7, <1>8, <1>9 DEF CrcInv

LEMMA AddCheckBitsInv ==
    ASSUME CrcInv, AddCheckBits
    PROVE  CrcInv'
<1>1. /\ pc = "check_bits" /\ pc' = "serialize"
      /\ data_frame' = [r \in DOMAIN data_frame |-> FillCheckBits(InsertCheckBits(data_frame[r]))]
      /\ UNCHANGED <<input, data, serialized, error_idx, received, detected, rec_frame, rec_data, division>>
    BY DEF AddCheckBits
<1>2. /\ input.m \in Nat \ {0}
      /\ col_siz \in Nat \ {0} /\ Len(data) = col_siz * input.m
      /\ data_frame \in Rows(col_siz, input.m * 8) /\ rec_frame = << >>
    BY <1>1 DEF CrcInv, Blocked, Started, Rebuilt
<1>3. PICK w \in Nat \ {0} : \A row \in Row(input.m * 8) : FillCheckBits(InsertCheckBits(row)) \in Row(w)
    BY <1>2, CheckBitsType
<1>4. DOMAIN data_frame = 1..col_siz /\ \A r \in 1..col_siz : data_frame[r] \in Row(input.m * 8)
    BY <1>2 DEF Rows
<1>5. \A r \in 1..col_siz : FillCheckBits(InsertCheckBits(data_frame[r])) \in Row(w)
    BY <1>3, <1>4
<1>6. data_frame' \in Rows(col_siz, w)
    BY <1>1, <1>4, <1>5, Zenon DEF Rows
<1>7. col_siz' = col_siz
    BY <1>1 DEF col_siz
<1>8. Typed'
    BY <1>1, SameKey DEF CrcInv, Typed
<1>9. Blocked'
    BY <1>1, <1>2, <1>6, <1>7 DEF Blocked, Started, Rebuilt
<1>10. Wire' /\ Dividing' /\ Divided'
    BY <1>1 DEF CrcInv, Wire, OnTheWay, Dividing, InDivision, Divided
<1> QED BY <1>8, <1>9, <1>10 DEF CrcInv

\* The rest of a block that a step leaves alone.
LEMMA BlockedKept ==
    ASSUME CrcInv, UNCHANGED <<input, data, data_frame, rec_frame>>,
           Started, Started', pc' # "check_bits", ~Rebuilt, ~Rebuilt'
    PROVE  Blocked'
<1>1. col_siz' = col_siz
    BY DEF col_siz
<1> QED BY <1>1 DEF CrcInv, Blocked

LEMMA SerializeInv ==
    ASSUME CrcInv, SerializeBlock
    PROVE  CrcInv'
<1> DEFINE n == Len(key)
           zeros == [i \in 1..n - 1 |-> 0]
           frame == serialized' \o zeros
<1>0. division' = [frame |-> frame, divisor_len |-> n, temp |-> SubSeq(frame, 1, n)]
    BY DEF SerializeBlock, CallDivision
<1>1. /\ pc = "serialize" /\ pc' = "append" /\ serialized' = Serialize(data_frame)
      /\ UNCHANGED <<input, data, data_frame, error_idx, received, detected, rec_frame, rec_data>>
    BY DEF SerializeBlock
<1>2. /\ LeadingOne(key) /\ Degree = Deg(key) /\ Degree \in Nat /\ n = Degree + 1
      /\ (Degree > 0 => Key(key)) /\ key' = key /\ Degree' = Degree
    BY <1>1, Now, SameKey
<1>3. PICK w \in Nat \ {0} : col_siz \in Nat \ {0} /\ data_frame \in Rows(col_siz, w)
    BY <1>1 DEF CrcInv, Blocked, Started
<1>4. serialized' \in Seq(Bit) /\ Len(serialized') \in Nat /\ Len(serialized') >= 1
    BY <1>1, <1>3, SerializeType
<1>5. zeros \in Seq(Bit) /\ Len(zeros) = n - 1
    <2>1. n - 1 \in Nat /\ zeros \in [1..n - 1 -> Bit]
        BY <1>2 DEF Bit
    <2> HIDE DEF zeros
    <2> QED BY <2>1, FunSeq
<1> HIDE DEF zeros
<1>6. frame \in Seq(Bit) /\ Len(frame) = Len(serialized') + (n - 1)
    BY <1>4, <1>5, ConcatProperties
<1> HIDE DEF frame, n
<1>7. n \in Nat \ {0} /\ n <= Len(frame) /\ Len(frame) \in Nat /\ n \in n..Len(frame)
    BY <1>2, <1>4, <1>6
<1> DEFINE temp == SubSeq(frame, 1, n)
<1>8. /\ temp \in Seq(Bit) /\ Len(temp) = n
      /\ n > 1 => Low(temp) = Reg(key, frame)[n]
    BY <1>2, <1>6, <1>7, CallDivisionProps DEF n
<1>9. Low(temp) = LowOf(key, temp)
    BY <1>2, <1>8, LowIs DEF n
<1> HIDE DEF temp
<1>10. /\ division'.frame = frame /\ division'.divisor_len = n /\ division'.temp = temp
       /\ division' \in [frame : Seq(Bit), divisor_len : Nat, temp : Seq(Bit)]
    BY <1>0, <1>6, <1>7, <1>8 DEF temp
<1>11. Typed'
    BY <1>1, <1>2, <1>4 DEF CrcInv, Typed
<1>12. Blocked'
    BY <1>1, BlockedKept DEF Started, Rebuilt
<1>13. Wire'
    BY <1>1, <1>4 DEF CrcInv, Wire, OnTheWay
<1>14. Dividing'
    <2>1. frame = serialized' \o [i \in 1..Len(key') - 1 |-> 0]
        BY <1>2 DEF frame, zeros, n
    <2> QED BY <1>1, <1>2, <1>7, <1>8, <1>10, <2>1 DEF Dividing, n
<1>15. Divided'
    <2>1. Degree > 0 => LowOf(key, temp) = Reg(key, frame)[n]
        BY <1>2, <1>8, <1>9
    <2> QED BY <1>1, <1>2, <1>10, <2>1 DEF Divided, InDivision, OnTheWay
<1> QED BY <1>11, <1>12, <1>13, <1>14, <1>15 DEF CrcInv

LEMMA BringDownInv ==
    ASSUME CrcInv, BringDown
    PROVE  CrcInv'
<1> DEFINE frame == division.frame
           j == division.divisor_len
           temp == division.temp
           bit == frame[j + 1]
           next == DropZero(Append(Subtract(temp), bit))
<1>1. /\ InDivision /\ j # Len(frame)
      /\ division' = [division EXCEPT !.divisor_len = j + 1, !.temp = next]
      /\ UNCHANGED <<pc, input, data, data_frame, serialized, error_idx, received,
                     detected, rec_frame, rec_data>>
    BY DEF BringDown, Returning, InDivision
<1>2. /\ LeadingOne(key) /\ Degree = Deg(key) /\ Degree \in Nat /\ Len(key) = Degree + 1
      /\ (Degree > 0 => Key(key)) /\ key' = key /\ Degree' = Degree
    BY <1>1, Now, SameKey
<1>3. /\ division \in [frame : Seq(Bit), divisor_len : Nat, temp : Seq(Bit)]
      /\ Len(temp) = Len(key) /\ j \in Len(key)..Len(frame)
    BY <1>1 DEF CrcInv, Dividing
<1>4. frame \in Seq(Bit) /\ temp \in Seq(Bit) /\ j \in Nat /\ Len(frame) \in Nat
    BY <1>3, LenProperties
<1>5. j + 1 \in Len(key)..Len(frame) /\ j + 1 \in 1..Len(frame) /\ (j + 1) - 1 = j
      /\ j \in 0..Len(frame)
    BY <1>1, <1>2, <1>3, <1>4
<1>6. bit \in Bit
    BY <1>4, <1>5, ElementOfSeq
<1>7. /\ next \in Seq(Bit) /\ Len(next) = Len(key)
      /\ Len(key) > 1 /\ Low(temp) \in Vec(key) => Low(next) = Feed(key, Low(temp), bit)
    BY <1>2, <1>3, <1>4, <1>6, BringDownProps
<1>8. Low(temp) = LowOf(key, temp) /\ Low(next) = LowOf(key, next)
    BY <1>2, <1>3, <1>4, <1>7, LowIs
<1> HIDE DEF next, bit, frame, temp, j
<1>9. /\ division'.frame = frame /\ division'.divisor_len = j + 1 /\ division'.temp = next
      /\ division' \in [frame : Seq(Bit), divisor_len : Nat, temp : Seq(Bit)]
    <2>1. division = [frame |-> frame, divisor_len |-> j, temp |-> temp]
        BY <1>3 DEF frame, temp, j
    <2>2. division' = [frame |-> frame, divisor_len |-> j + 1, temp |-> next]
        BY <1>1, <2>1
    <2> QED BY <1>4, <1>7, <2>2
<1>10. Typed'
    BY <1>1, <1>2 DEF CrcInv, Typed
<1>11. Blocked'
    <2>1. col_siz' = col_siz
        BY <1>1 DEF col_siz
    <2> QED BY <1>1, <2>1 DEF CrcInv, Blocked, Started, Rebuilt
<1>12. Wire'
    BY <1>1, <1>2 DEF CrcInv, Wire, OnTheWay
<1>13. Dividing'
    <2>1. /\ pc = "append" => frame = serialized \o [i \in 1..Len(key) - 1 |-> 0]
          /\ pc = "detect" => frame = received
        BY <1>1 DEF CrcInv, Dividing, frame
    <2> QED BY <1>1, <1>2, <1>5, <1>7, <1>9, <2>1 DEF Dividing, InDivision
<1>14. Divided'
    <2>1. ASSUME Degree > 0 PROVE LowOf(key, next) = Reg(key, frame)[j + 1]
        <3>1. LowOf(key, temp) = Reg(key, frame)[j]
            BY <1>1, <2>1 DEF CrcInv, Divided, frame, temp, j
        <3>2. /\ Reg(key, frame)[j] \in Vec(key)
              /\ Reg(key, frame)[j + 1] = Feed(key, Reg(key, frame)[(j + 1) - 1], bit)
            BY <1>2, <1>4, <1>5, <2>1, RegProps DEF bit
        <3>3. Len(key) > 1 /\ Low(temp) \in Vec(key)
            BY <1>2, <1>8, <2>1, <3>1, <3>2
        <3> QED BY <1>5, <1>7, <1>8, <3>1, <3>2, <3>3
    <2>2. Degree > 0 /\ OnTheWay => Reg(key, serialized)[Len(serialized)] = Syn(key, Len(serialized), error_idx)
        BY DEF CrcInv, Divided
    <2>3. pc # "receive"
        BY <1>1 DEF InDivision
    <2> QED BY <1>1, <1>2, <1>9, <2>1, <2>2, <2>3 DEF Divided, InDivision, OnTheWay
<1> QED BY <1>10, <1>11, <1>12, <1>13, <1>14 DEF CrcInv

LEMMA ArriveInv ==
    ASSUME CrcInv, Arrive
    PROVE  CrcInv'
<1> DEFINE n == Len(key)
           temp == SubSeq(received, 1, n)
<1>1. /\ pc = "transmit" /\ pc' = "detect" /\ Len(received) = Len(serialized)
      /\ division' = [frame |-> received, divisor_len |-> n, temp |-> temp]
      /\ UNCHANGED <<input, data, data_frame, serialized, error_idx, received, detected,
                     rec_frame, rec_data>>
    BY DEF Arrive, CallDivision
<1>2. /\ LeadingOne(key) /\ Degree = Deg(key) /\ Degree \in Nat /\ n = Degree + 1
      /\ (Degree > 0 => Key(key)) /\ key' = key /\ Degree' = Degree
      /\ Len(serialized) \in Nat
    BY <1>1, Now, SameKey
<1>3. /\ serialized \in Seq(Bit) /\ received \in Seq(Bit)
      /\ Len(serialized) >= n /\ \A i \in 1..Len(received) : received[i] = serialized[i]
      /\ error_idx \subseteq 1..Len(received)
    BY <1>1 DEF CrcInv, Typed, Wire, OnTheWay
<1>4. received = serialized
    BY <1>1, <1>3, SeqEqual
<1> HIDE DEF n
<1>5. n <= Len(received) /\ n \in n..Len(received) /\ n \in Nat
    BY <1>1, <1>2, <1>3
<1>6. /\ temp \in Seq(Bit) /\ Len(temp) = n
      /\ n > 1 => Low(temp) = Reg(key, received)[n]
    BY <1>2, <1>3, <1>5, CallDivisionProps DEF n
<1>7. Low(temp) = LowOf(key, temp)
    BY <1>2, <1>6, LowIs DEF n
<1> HIDE DEF temp
<1>8. Typed'
    BY <1>1, <1>2 DEF CrcInv, Typed
<1>9. Blocked'
    BY <1>1, BlockedKept DEF Started, Rebuilt
<1>10. Wire'
    BY <1>1, <1>2, <1>3, <1>4 DEF Wire, OnTheWay, n
<1>11. Dividing'
    <2>1. division' \in [frame : Seq(Bit), divisor_len : Nat, temp : Seq(Bit)]
        BY <1>1, <1>3, <1>5, <1>6
    <2> QED BY <1>1, <1>2, <1>5, <1>6, <2>1 DEF Dividing, InDivision, n
<1>12. Divided'
    <2>1. Degree > 0 => LowOf(key, temp) = Reg(key, received)[n]
        BY <1>2, <1>6, <1>7
    <2>2. Degree > 0 => Reg(key, serialized)[Len(serialized)] = Syn(key, Len(serialized), error_idx)
        BY <1>1 DEF CrcInv, Divided, OnTheWay
    <2> QED BY <1>1, <1>2, <2>1, <2>2 DEF Divided, InDivision, OnTheWay
<1> QED BY <1>8, <1>9, <1>10, <1>11, <1>12 DEF CrcInv

LEMMA AppendInv ==
    ASSUME CrcInv, AppendChecksum
    PROVE  CrcInv'
<1> DEFINE n == Len(serialized)
           d == Len(key) - 1
           frame == division.frame
           rest == Remainder
<1>1. /\ pc = "append" /\ pc' = "transmit" /\ division.divisor_len = Len(frame)
      /\ serialized' = serialized \o rest
      /\ UNCHANGED <<input, data, data_frame, error_idx, received, detected, rec_frame,
                     rec_data, division>>
    BY DEF AppendChecksum, Returning
<1>2. /\ LeadingOne(key) /\ Degree = Deg(key) /\ Degree \in Nat /\ d = Degree /\ Len(key) = d + 1
      /\ (Degree > 0 => Key(key)) /\ key' = key /\ Degree' = Degree
      /\ n \in Nat
    BY <1>1, Now, SameKey
<1>3. /\ frame \in Seq(Bit) /\ division.temp \in Seq(Bit) /\ Len(division.temp) = Len(key)
      /\ frame = serialized \o [i \in 1..d |-> 0]
    BY <1>1 DEF CrcInv, Dividing, InDivision
<1>4. serialized \in Seq(Bit) /\ n >= 1 /\ received = << >> /\ error_idx = {}
    BY <1>1 DEF CrcInv, Typed, Wire
<1>5. /\ rest = Low(division.temp) /\ rest \in Seq(Bit) /\ Len(rest) = d
      /\ Low(division.temp) = LowOf(key, division.temp)
    BY <1>2, <1>3, RemainderProps, LowIs
<1> HIDE DEF rest, d
<1>6. /\ serialized' \in Seq(Bit) /\ Len(serialized') = n + d
      /\ \A i \in 1..n + d : serialized'[i] = IF i <= n THEN serialized[i] ELSE rest[i - n]
    BY <1>1, <1>4, <1>5, ConcatProperties
<1> DEFINE zeros == [i \in 1..d |-> 0]
<1>7. zeros \in Seq(Bit) /\ Len(zeros) = d /\ \A i \in 1..d : zeros[i] = 0
    <2>1. d \in Nat /\ zeros \in [1..d -> Bit] /\ \A i \in 1..d : zeros[i] = 0
        BY <1>2 DEF Bit
    <2> HIDE DEF zeros
    <2> QED BY <2>1, FunSeq
<1>8. frame = serialized \o zeros
    BY <1>3
<1> HIDE DEF zeros, frame
<1>9. /\ Len(frame) = n + d
      /\ \A i \in 1..n + d : frame[i] = IF i <= n THEN serialized[i] ELSE zeros[i - n]
    BY <1>4, <1>7, <1>8, ConcatProperties
<1>10. ASSUME Degree > 0
       PROVE  Reg(key, serialized')[Len(serialized')] = Syn(key, Len(serialized'), {})
    <2>1. rest = Reg(key, frame)[Len(frame)]
        <3>1. LowOf(key, division.temp) = Reg(key, division.frame)[division.divisor_len]
            BY <1>1, <1>10 DEF CrcInv, Divided, InDivision
        <3> QED BY <1>1, <1>5, <3>1 DEF frame
    <2>2. \A i \in 1..n : frame[i] = serialized'[i]
        <3>1. \A i \in 1..n : i \in 1..n + d /\ i <= n
            BY <1>2
        <3> QED BY <1>6, <1>9, <3>1
    <2>3. \A i \in 1..d : frame[n + i] = 0 /\ serialized'[n + i] = rest[i]
        <3>1. \A i \in 1..d : n + i \in 1..n + d /\ ~(n + i <= n) /\ (n + i) - n = i
            BY <1>2
        <3> QED BY <1>6, <1>7, <1>9, <3>1
    <2>4. Reg(key, serialized')[Len(serialized')] = Zero(key)
        <3>1. /\ Key(key) /\ Deg(key) = d /\ Len(serialized') = n + Deg(key) /\ Len(frame) = n + Deg(key)
              /\ \A i \in 1..Deg(key) : frame[n + i] = 0 /\ serialized'[n + i] = Reg(key, frame)[Len(frame)][i]
            BY <1>2, <1>6, <1>9, <1>10, <2>1, <2>3
        <3> QED BY <1>2, <1>3, <1>6, <2>2, <3>1, RegChecksum DEF frame
    <2>5. Len(serialized') \in Nat
        BY <1>2, <1>6
    <2>6. Syn(key, Len(serialized'), {}) = Zero(key)
        BY <1>2, <1>10, <2>5, SynIs, SyndromeProps
    <2> QED BY <2>4, <2>6
<1>11. Typed'
    BY <1>1, <1>2, <1>6 DEF CrcInv, Typed
<1>12. Blocked'
    BY <1>1, BlockedKept DEF Started, Rebuilt
<1>13. Wire'
    <2>1. Len(serialized') >= Len(key) /\ Len(<< >>) = 0 /\ 0 <= Len(serialized')
        BY <1>2, <1>4, <1>6
    <2> QED BY <1>1, <1>2, <1>4, <2>1 DEF Wire, OnTheWay
<1>14. Dividing'
    BY <1>1 DEF Dividing, InDivision
<1>15. Divided'
    BY <1>1, <1>2, <1>4, <1>10 DEF Divided, InDivision, OnTheWay
<1> QED BY <1>11, <1>12, <1>13, <1>14, <1>15 DEF CrcInv

LEMMA TransmitInv ==
    ASSUME CrcInv, NEW toggle \in BOOLEAN, Transmit(toggle)
    PROVE  CrcInv'
<1> DEFINE n == Len(serialized)
           i == Len(received) + 1
           bit == IF toggle THEN 1 - serialized[i] ELSE serialized[i]
           E == IF toggle THEN error_idx \cup {i} ELSE error_idx
<1>1. /\ pc = "transmit" /\ pc' = pc /\ Len(received) < n
      /\ serialized' = [serialized EXCEPT ![i] = bit]
      /\ received' = Append(received, bit) /\ error_idx' = E
      /\ UNCHANGED <<input, data, data_frame, detected, rec_frame, rec_data, division>>
    BY DEF Transmit
<1>2. /\ LeadingOne(key) /\ Degree = Deg(key) /\ Degree \in Nat /\ Len(key) = Degree + 1
      /\ (Degree > 0 => Key(key)) /\ key' = key /\ Degree' = Degree
      /\ n \in Nat /\ Len(received) \in Nat
    BY <1>1, Now, SameKey
<1>3. /\ serialized \in Seq(Bit) /\ received \in Seq(Bit)
      /\ n >= Len(key) /\ \A k \in 1..Len(received) : received[k] = serialized[k]
      /\ error_idx \subseteq 1..Len(received)
    BY <1>1 DEF CrcInv, Typed, Wire, OnTheWay
<1>4. i \in 1..n /\ i \in Nat /\ i \notin 1..Len(received) /\ Len(received) = i - 1
    BY <1>1, <1>2
<1>5. serialized[i] \in Bit /\ bit \in Bit
    <2>1. serialized[i] \in Bit
        BY <1>3, <1>4, ElementOfSeq
    <2> QED BY <2>1 DEF Bit
<1>6. /\ serialized' \in Seq(Bit) /\ Len(serialized') = n
      /\ \A k \in 1..n : serialized'[k] = IF k = i THEN bit ELSE serialized[k]
    <2>1. DOMAIN serialized = 1..n /\ \A k \in 1..n : serialized[k] \in Bit
        BY <1>3, LenProperties, ElementOfSeq
    <2> HIDE DEF bit, n
    <2>2. \A k \in 1..n : serialized'[k] = IF k = i THEN bit ELSE serialized[k]
        BY <1>1, <1>4, <2>1
    <2>3. serialized \in [1..n -> Bit]
        BY <1>3, LenProperties, SeqDef, <2>1 DEF n
    <2>4. serialized' \in [1..n -> Bit]
        BY <1>1, <1>4, <1>5, <2>3
    <2>5. serialized' \in Seq(Bit) /\ Len(serialized') = n
        BY <1>2, <2>4, FunSeq
    <2> QED BY <2>2, <2>5
<1>7. /\ received' \in Seq(Bit) /\ Len(received') = i
      /\ \A k \in 1..i : received'[k] = IF k = i THEN bit ELSE received[k]
    BY <1>1, <1>2, <1>3, <1>4, <1>5, AppendProperties
<1>8. E \subseteq 1..i
    <2>1. 1..Len(received) \subseteq 1..i /\ i \in 1..i
        BY <1>2, <1>4
    <2> HIDE DEF i
    <2> QED BY <1>3, <2>1
<1>9. ASSUME Degree > 0
      PROVE  Reg(key, serialized')[n] = Syn(key, n, E)
    <2>1. Reg(key, serialized)[n] = Syn(key, n, error_idx)
        BY <1>1, <1>9 DEF CrcInv, Divided, OnTheWay
    <2>2. CASE ~toggle
        <3>1. \A k \in 1..n : serialized'[k] = serialized[k]
            BY <1>6, <2>2
        <3>2. serialized' = serialized
            BY <1>3, <1>6, <3>1, SeqEqual
        <3> QED BY <2>1, <2>2, <3>2
    <2>3. CASE toggle
        <3>1. \A k \in 1..n : serialized'[k] = IF k = i THEN 1 - serialized[i] ELSE serialized[k]
            BY <1>6, <2>3
        <3> HIDE DEF i, E, bit
        <3>2. Reg(key, serialized')[n] = Add(key, Reg(key, serialized)[n], PowerMod(n - i))
            BY <1>2, <1>3, <1>4, <1>6, <1>9, <3>1, RegToggle
        <3>3. error_idx \subseteq 1..n /\ i \notin error_idx /\ E = error_idx \cup {i} /\ E \subseteq 1..n
            <4>1. 1..Len(received) \subseteq 1..n
                BY <1>1, <1>2
            <4> QED BY <1>3, <1>4, <2>3, <4>1 DEF E
        <3>4. Syndrome(n, error_idx \cup {i}) = Add(key, Syndrome(n, error_idx), PowerMod(n - i))
            BY <1>2, <1>4, <1>9, <3>3, SyndromeProps
        <3>5. Syn(key, n, error_idx) = Syndrome(n, error_idx) /\ Syn(key, n, E) = Syndrome(n, E)
            BY <1>2, <1>9, <3>3, SynIs
        <3> QED BY <2>1, <3>2, <3>3, <3>4, <3>5
    <2> QED BY <2>2, <2>3
<1> HIDE DEF bit, E, n
<1>10. Typed'
    <2>1. E \subseteq 1..i + Len(key)
        BY <1>2, <1>4, <1>8
    <2> QED BY <1>1, <1>2, <1>6, <1>7, <2>1 DEF CrcInv, Typed
<1>11. Blocked'
    BY <1>1, BlockedKept DEF Started, Rebuilt
<1>12. Wire'
    <2>1. i <= n
        BY <1>4
    <2>2. ASSUME NEW k \in 1..i PROVE received'[k] = serialized'[k]
        <3>1. k \in 1..n /\ (k # i => k \in 1..Len(received))
            BY <1>2, <1>4, <2>1
        <3> QED BY <1>3, <1>6, <1>7, <3>1
    <2> HIDE DEF i
    <2> QED BY <1>1, <1>2, <1>3, <1>6, <1>7, <1>8, <2>1, <2>2 DEF Wire, OnTheWay
<1>13. Dividing'
    BY <1>1 DEF Dividing, InDivision
<1>14. Divided'
    BY <1>1, <1>2, <1>6, <1>9 DEF Divided, InDivision, OnTheWay
<1> QED BY <1>10, <1>11, <1>12, <1>13, <1>14 DEF CrcInv

LEMMA DetectInv ==
    ASSUME CrcInv, Detect
    PROVE  CrcInv'
<1> DEFINE rest == Remainder
<1>1. /\ pc = "detect" /\ pc' = "receive" /\ division.divisor_len = Len(division.frame)
      /\ detected' = (Error_Detection(rest) # 0)
      /\ UNCHANGED <<input, data, data_frame, serialized, error_idx, received, rec_frame,
                     rec_data, division>>
    BY DEF Detect, Returning
<1>2. /\ LeadingOne(key) /\ Degree = Deg(key) /\ Degree \in Nat /\ Len(key) = Degree + 1
      /\ (Degree > 0 => Key(key)) /\ key' = key /\ Degree' = Degree
    BY <1>1, Now, SameKey
<1>3. /\ division.temp \in Seq(Bit) /\ Len(division.temp) = Len(key)
      /\ division.frame = received /\ received = serialized
    BY <1>1 DEF CrcInv, Dividing, InDivision, Wire
<1>4. /\ rest = LowOf(key, division.temp) /\ rest \in Seq(Bit) /\ Len(rest) = Degree
    <2>1. /\ rest = Low(division.temp) /\ rest \in Seq(Bit) /\ Len(rest) = Len(key) - 1
          /\ Low(division.temp) = LowOf(key, division.temp)
        BY <1>2, <1>3, RemainderProps, LowIs
    <2> QED BY <1>2, <2>1
<1> HIDE DEF rest
<1>5. detected' <=> \E i \in 1..Degree : rest[i] = 1
    BY <1>1, <1>4, DetectionProps
<1>6. ASSUME Degree > 0
      PROVE  /\ Reg(key, serialized)[Len(serialized)] = Syn(key, Len(serialized), error_idx)
             /\ rest = Syn(key, Len(serialized), error_idx)
    <2>1. /\ LowOf(key, division.temp) = Reg(key, division.frame)[division.divisor_len]
          /\ Reg(key, serialized)[Len(serialized)] = Syn(key, Len(serialized), error_idx)
        BY <1>1, <1>6 DEF CrcInv, Divided, InDivision, OnTheWay
    <2> QED BY <1>1, <1>3, <1>4, <2>1
<1>7. Typed'
    <2>1. detected' \in BOOLEAN
        BY <1>1
    <2> QED BY <1>1, <1>2, <2>1 DEF CrcInv, Typed
<1>8. Blocked'
    BY <1>1, BlockedKept DEF Started, Rebuilt
<1>9. Wire'
    BY <1>1, <1>2 DEF CrcInv, Wire, OnTheWay
<1>10. Dividing'
    BY <1>1 DEF Dividing, InDivision
<1>11. Divided'
    <2>1. ASSUME Degree > 0
          PROVE  detected' <=> \E i \in 1..Degree : Syn(key, Len(serialized), error_idx)[i] = 1
        BY <1>5, <1>6, <2>1
    <2> QED BY <1>1, <1>2, <1>6, <2>1 DEF Divided, InDivision, OnTheWay
<1> QED BY <1>7, <1>8, <1>9, <1>10, <1>11 DEF CrcInv

LEMMA RemoveInv ==
    ASSUME CrcInv, RemoveChecksum
    PROVE  CrcInv'
<1> DEFINE d == Len(key) - 1
           n == Len(received) - d
<1>1. /\ pc = "receive" /\ pc' = "correct" /\ received' = SubSeq(received, 1, n)
      /\ rec_frame' = Deserialize(received', col_siz)
      /\ UNCHANGED <<input, data, data_frame, serialized, error_idx, detected, rec_data, division>>
    BY DEF RemoveChecksum
<1>2. /\ d \in Nat /\ Len(key) = d + 1 /\ key' = key /\ Len(received) \in Nat
      /\ Len(serialized) >= Len(key) /\ received = serialized /\ received \in Seq(Bit)
      /\ error_idx \subseteq 1..Len(received)
    BY <1>1, Now, SameKey DEF CrcInv, Typed, Wire, OnTheWay
<1> HIDE DEF d
<1>3. n \in Nat /\ n <= Len(received) /\ Len(received) <= n + Len(key)
    BY <1>2
<1>4. \A i \in 1..n : i \in 1..Len(received)
    BY <1>2, <1>3
<1> HIDE DEF n
<1>5. received' \in Seq(Bit) /\ Len(received') = n
    <2>1. \A i \in 1..n : received[i] \in Bit
        BY <1>2, <1>4, ElementOfSeq
    <2> QED BY <1>1, <1>3, <2>1, SubSeqProperties
<1>6. /\ input.m \in Nat \ {0} /\ col_siz \in Nat \ {0} /\ Len(data) = col_siz * input.m
      /\ \E w \in Nat \ {0} : data_frame \in Rows(col_siz, w)
    BY <1>1 DEF CrcInv, Blocked, Started
<1>7. \E w \in Nat : rec_frame' \in Rows(col_siz, w)
    BY <1>1, <1>5, <1>6, DeserializeType
<1>8. col_siz' = col_siz
    BY <1>1 DEF col_siz
<1>9. Typed'
    <2>1. 1..Len(received) \subseteq 1..Len(received') + Len(key')
        BY <1>2, <1>3, <1>5
    <2> QED BY <1>1, <1>2, <1>5, <2>1 DEF CrcInv, Typed
<1>10. Blocked'
    BY <1>1, <1>6, <1>7, <1>8 DEF Blocked, Started, Rebuilt
<1>11. Wire' /\ Dividing' /\ Divided'
    BY <1>1 DEF Wire, OnTheWay, Dividing, InDivision, Divided
<1> QED BY <1>9, <1>10, <1>11 DEF CrcInv

LEMMA CorrectInv ==
    ASSUME CrcInv, Correct
    PROVE  CrcInv'
<1>1. /\ pc = "correct" /\ pc' = "output"
      /\ rec_frame' = [r \in DOMAIN rec_frame |-> EraseCheckBits(CorrectRow(rec_frame[r]))]
      /\ UNCHANGED <<input, data, data_frame, serialized, error_idx, received, detected, rec_data, division>>
    BY DEF Correct
<1>2. /\ input.m \in Nat \ {0} /\ col_siz \in Nat \ {0} /\ Len(data) = col_siz * input.m
      /\ \E w \in Nat \ {0} : data_frame \in Rows(col_siz, w)
      /\ \E w \in Nat : rec_frame \in Rows(col_siz, w)
    BY <1>1 DEF CrcInv, Blocked, Started, Rebuilt
<1>3. PICK w \in Nat : rec_frame \in Rows(col_siz, w)
    BY <1>2
<1>4. PICK v \in Nat : \A row \in Row(w) : EraseCheckBits(row) \in Row(v)
    BY EraseType
<1>5. DOMAIN rec_frame = 1..col_siz /\ \A r \in 1..col_siz : rec_frame[r] \in Row(w)
    BY <1>3 DEF Rows
<1>6. \A r \in 1..col_siz : EraseCheckBits(CorrectRow(rec_frame[r])) \in Row(v)
    BY <1>4, <1>5, CorrectType
<1>7. rec_frame' \in Rows(col_siz, v)
    BY <1>1, <1>5, <1>6, Zenon DEF Rows
<1>8. col_siz' = col_siz
    BY <1>1 DEF col_siz
<1>9. Typed'
    BY <1>1, SameKey DEF CrcInv, Typed
<1>10. Blocked'
    BY <1>1, <1>2, <1>7, <1>8 DEF Blocked, Started, Rebuilt
<1>11. Wire' /\ Dividing' /\ Divided'
    BY <1>1 DEF Wire, OnTheWay, Dividing, InDivision, Divided
<1> QED BY <1>9, <1>10, <1>11 DEF CrcInv

LEMMA OutputInv ==
    ASSUME CrcInv, Output
    PROVE  CrcInv'
<1> DEFINE m == input.m
           n == Len(rec_frame[1])
           row(past, i) == rec_frame[(i - 1) \div m + 1] \o past[(i - 1) \div m + 1]
           from(i) == ((i - 1) % m) * 8
<1>1. /\ pc = "output" /\ pc' = "printed"
      /\ UNCHANGED <<input, data, data_frame, serialized, error_idx, received, detected, rec_frame, division>>
    BY DEF Output
<1>2. PICK past \in [DOMAIN rec_frame -> [1..m * 8 - n -> {0, 1}]] :
          rec_data' = [i \in DOMAIN data |-> Code(SubSeq(row(past, i), from(i) + 1, from(i) + 8))]
    BY Zenon DEF Output
<1>3. /\ m \in Nat \ {0} /\ col_siz \in Nat \ {0} /\ Len(data) = col_siz * m
      /\ \E w \in Nat \ {0} : data_frame \in Rows(col_siz, w)
      /\ \E w \in Nat : rec_frame \in Rows(col_siz, w)
    BY <1>1 DEF CrcInv, Blocked, Started, Rebuilt
<1>4. PICK w \in Nat : rec_frame \in Rows(col_siz, w)
    BY <1>3
<1>5. DOMAIN rec_frame = 1..col_siz /\ \A r \in 1..col_siz : rec_frame[r] \in Row(w)
    BY <1>4 DEF Rows
<1>6. n = w
    <2>1. rec_frame[1] \in [1..w -> Bit]
        BY <1>3, <1>5 DEF Row
    <2> QED BY <2>1, FunSeq
<1>7. DOMAIN data = 1..Len(data) /\ Len(data) \in Nat
    BY LenProperties DEF CrcInv, Typed
<1> HIDE DEF m, n
<1>8. ASSUME NEW i \in 1..Len(data)
      PROVE  Code(SubSeq(row(past, i), from(i) + 1, from(i) + 8)) \in 0..255
    <2> DEFINE r == (i - 1) \div m + 1
               f == from(i)
               x == row(past, i)
    <2>1. r \in 1..col_siz /\ f \in 0..m * 8 - 8 /\ m * 8 \in Nat
        <3>1. i \in 1..col_siz * m /\ col_siz \in Nat
            BY <1>3
        <3>2. (i - 1) \div m + 1 \in 1..col_siz /\ ((i - 1) % m) * 8 \in 0..m * 8 - 8
            BY <1>3, <3>1, RowOfChar
        <3>3. m * 8 \in Nat
            BY <1>3
        <3> QED BY <3>2, <3>3
    <2>2. x = rec_frame[r] \o past[r]
        OBVIOUS
    <2> HIDE DEF r, f, x, row, from
    <2>3. rec_frame[r] \in Row(w) /\ past[r] \in [1..m * 8 - w -> Bit]
        BY <1>2, <1>5, <1>6, <2>1 DEF Bit
    <2>4. x \in Seq(Bit) /\ m * 8 <= Len(x) /\ Len(x) \in Nat
        BY <2>1, <2>2, <2>3, PastType
    <2>5. f \in Nat /\ f + 8 <= Len(x)
        BY <2>1, <2>4
    <2>6. Code(SubSeq(x, f + 1, f + 8)) \in 0..255
        BY <2>4, <2>5, CodeType
    <2> QED BY <2>6 DEF x, f
<1> HIDE DEF row, from
<1>9. rec_data' \in Seq(0..255)
    <2>1. rec_data' \in [1..Len(data) -> 0..255]
        BY <1>2, <1>7, <1>8
    <2> QED BY <1>7, <2>1, FunSeq
<1>10. col_siz' = col_siz
    BY <1>1 DEF col_siz
<1>11. Typed'
    BY <1>1, <1>9, SameKey DEF CrcInv, Typed
<1>12. Blocked'
    BY <1>1, <1>3, <1>10 DEF Blocked, Started, Rebuilt, m
<1>13. Wire' /\ Dividing' /\ Divided'
    BY <1>1 DEF Wire, OnTheWay, Dividing, InDivision, Divided
<1> QED BY <1>11, <1>12, <1>13 DEF CrcInv

LEMMA StutterInv ==
    ASSUME CrcInv, UNCHANGED vars
    PROVE  CrcInv'
<1>1. /\ key' = key /\ Degree' = Degree /\ col_siz' = col_siz
      /\ Started' = Started /\ Rebuilt' = Rebuilt /\ OnTheWay' = OnTheWay /\ InDivision' = InDivision
    BY DEF vars, key, Degree, col_siz, Started, Rebuilt, OnTheWay, InDivision
<1>2. Typed' /\ Blocked'
    BY <1>1 DEF CrcInv, vars, Typed, Blocked
<1>3. Wire' /\ Dividing' /\ Divided'
    BY <1>1 DEF CrcInv, vars, Wire, Dividing, Divided
<1> QED BY <1>2, <1>3 DEF CrcInv

\* The invariant holds for every input, polynomial and number of toggled bits.
THEOREM CrcInvariant == Spec => []CrcInv
<1>1. CrcInv /\ [Next]_vars => CrcInv'
    <2> SUFFICES ASSUME CrcInv, [Next]_vars PROVE CrcInv'
        OBVIOUS
    <2>1. CASE InvalidArgument
        BY <2>1, InvalidInv
    <2>2. CASE MakeBlock
        BY <2>2, MakeBlockInv
    <2>3. CASE AddCheckBits
        BY <2>3, AddCheckBitsInv
    <2>4. CASE SerializeBlock
        BY <2>4, SerializeInv
    <2>5. CASE BringDown
        BY <2>5, BringDownInv
    <2>6. CASE AppendChecksum
        BY <2>6, AppendInv
    <2>7. ASSUME NEW toggle \in BOOLEAN, Transmit(toggle) PROVE CrcInv'
        BY <2>7, TransmitInv
    <2>8. CASE Arrive
        BY <2>8, ArriveInv
    <2>9. CASE Detect
        BY <2>9, DetectInv
    <2>10. CASE RemoveChecksum
        BY <2>10, RemoveInv
    <2>11. CASE Correct
        BY <2>11, CorrectInv
    <2>12. CASE Output
        BY <2>12, OutputInv
    <2>13. CASE UNCHANGED vars
        BY <2>13, StutterInv
    <2> QED BY <2>1, <2>2, <2>3, <2>4, <2>5, <2>6, <2>7, <2>8, <2>9, <2>10, <2>11, <2>12, <2>13 DEF Next
<1> QED BY <1>1, InitInv, PTL DEF Spec

\* Bits stay bits, the rows of the receiver stay of one length and every character
\* printed has a code of eight bits, whatever the input and whatever is toggled.
THEOREM CrcTypes == Spec => []TypeOK
BY CrcInvariant, InvTypeOK, PTL

\* The receiver finds an error if and only if the polynomial of the toggled bits
\* is not a multiple of the generator polynomial (Error_Detection, lines 152-163).
THEOREM VerdictIsExact == Spec => []VerdictExact
BY CrcInvariant, InvVerdict, PTL

-----------------------------------------------------------------------------
(***************************************************************************)
(* Single errors.  The rest of the module is about the check bits: what    *)
(* the parities of a row with at most one toggled bit add up to, where the *)
(* bits of the row are behind the check bits, and what becomes of the      *)
(* characters on their way through the frame.                              *)
(*                                                                         *)
(* The positions at which the program puts and looks for check bits.       *)
(***************************************************************************)
Powers ==
    {1, 2, 4, 8, 16, 32, 64, 128, 256, 512, 1024, 2048, 4096, 8192, 16384, 32768, 65536,
     131072, 262144, 524288, 1048576, 2097152, 4194304, 8388608, 16777216, 33554432,
     67108864, 134217728, 268435456, 536870912, 1073741824}

\* One more than the greatest int.
IntEnd == 2147483648

LEMMA PowersAre == PowersOfTwo = Powers
<1>1. \A e : e \in 0..30 <=> e = 0 \/ e = 1 \/ e = 2 \/ e = 3 \/ e = 4 \/ e = 5 \/ e = 6 \/ e = 7
         \/ e = 8 \/ e = 9 \/ e = 10 \/ e = 11 \/ e = 12 \/ e = 13 \/ e = 14 \/ e = 15
         \/ e = 16 \/ e = 17 \/ e = 18 \/ e = 19 \/ e = 20 \/ e = 21 \/ e = 22 \/ e = 23
         \/ e = 24 \/ e = 25 \/ e = 26 \/ e = 27 \/ e = 28 \/ e = 29 \/ e = 30
    OBVIOUS
<1>2. PowersOfTwo = {2^0, 2^1, 2^2, 2^3, 2^4, 2^5, 2^6, 2^7,
      2^8, 2^9, 2^10, 2^11, 2^12, 2^13, 2^14, 2^15,
      2^16, 2^17, 2^18, 2^19, 2^20, 2^21, 2^22, 2^23,
      2^24, 2^25, 2^26, 2^27, 2^28, 2^29, 2^30}
    BY <1>1, Zenon DEF PowersOfTwo
<1>3. 2^0 = 1 /\ 2^1 = 2 /\ 2^2 = 4 /\ 2^3 = 8
      /\ 2^4 = 16 /\ 2^5 = 32 /\ 2^6 = 64 /\ 2^7 = 128
      /\ 2^8 = 256 /\ 2^9 = 512 /\ 2^10 = 1024 /\ 2^11 = 2048
      /\ 2^12 = 4096 /\ 2^13 = 8192 /\ 2^14 = 16384 /\ 2^15 = 32768
      /\ 2^16 = 65536 /\ 2^17 = 131072 /\ 2^18 = 262144 /\ 2^19 = 524288
      /\ 2^20 = 1048576 /\ 2^21 = 2097152 /\ 2^22 = 4194304 /\ 2^23 = 8388608
      /\ 2^24 = 16777216 /\ 2^25 = 33554432 /\ 2^26 = 67108864 /\ 2^27 = 134217728
      /\ 2^28 = 268435456 /\ 2^29 = 536870912 /\ 2^30 = 1073741824
    OBVIOUS
<1> QED BY <1>2, <1>3, SMTT(60) DEF Powers

\* The powers of two below 2^31, one behind the other.
LEMMA PowersNext ==
    ASSUME NEW q \in Powers
    PROVE  /\ q \in Nat \ {0}
           /\ 2 * q \in Powers \/ 2 * q = IntEnd
           /\ \A k \in Powers : k > q => k >= 2 * q
BY DEF Powers, IntEnd

\* A power of two has one bit.
LEMMA PowersBit ==
    ASSUME NEW j \in Powers, NEW k \in Powers
    PROVE  (j \div k) % 2 = (IF j = k THEN 1 ELSE 0)
BY DEF Powers

\* All of them are ints.
LEMMA PowersNat ==
    /\ 1 \in Powers
    /\ \A q \in Powers : q \in Nat /\ q >= 1 /\ q < IntEnd
    /\ IntEnd \in Nat
BY DEF Powers, IntEnd


-----------------------------------------------------------------------------
(* The position that the parities of a row name.                           *)

Weighted(row, i) == IF i \in PowersOfTwo THEN i * getParity(row, i) ELSE 0
Bins(row) ==
    LET bin[i \in 0..Len(row)] ==
            IF i = 0 THEN 0
            ELSE bin[i - 1] + (IF i \in PowersOfTwo THEN i * getParity(row, i) ELSE 0)
    IN  bin

\* The sums of the loop exist and are what they are meant to be.
LEMMA BinsProps ==
    ASSUME NEW w \in Nat, NEW row \in Row(w)
    PROVE  /\ ErrorPosition(row) = Bins(row)[w] /\ Bins(row)[0] = 0
           /\ \A i \in 1..w : Bins(row)[i] = Bins(row)[i - 1] + Weighted(row, i)
           /\ \A i \in 1..w : Weighted(row, i) \in Nat
           /\ \A i \in 0..w : Bins(row)[i] \in Nat
<1> DEFINE F(m, g) == g = [i \in 0..m |-> IF i = 0 THEN 0 ELSE g[i - 1] + Weighted(row, i)]
           f == CHOOSE g : F(w, g)
<1>1. Len(row) = w /\ DOMAIN row = 1..w
    BY FunSeq DEF Row
<1>2. Bins(row) = f /\ ErrorPosition(row) = f[w]
    BY <1>1 DEF Bins, ErrorPosition, Weighted
<1>3. ASSUME NEW i \in 1..w PROVE Weighted(row, i) \in Nat
    <2>1. getParity(row, i) \in 0..1
        BY <1>1, ParityType, FS_Interval DEF Bit
    <2>2. CASE getParity(row, i) = 0
        BY <2>2 DEF Weighted
    <2>3. CASE getParity(row, i) = 1
        BY <2>3 DEF Weighted
    <2> QED BY <2>1, <2>2, <2>3
<1>4. \A m \in Nat : \E g : F(m, g)
    <2> DEFINE S == {m \in Nat : ~\E g : F(m, g)}
    <2> SUFFICES ASSUME S # {} PROVE FALSE
        OBVIOUS
    <2>1. PICK m \in S : \A n \in S : m <= n
        BY LeastNumber
    <2>2. m # 0
        <3>1. F(0, [i \in 0..0 |-> 0])
            OBVIOUS
        <3> QED BY <3>1
    <2>3. m \in Nat /\ m - 1 \in Nat /\ m - 1 \notin S
        <3>1. m \in Nat
            OBVIOUS
        <3> HIDE DEF S
        <3> QED BY <2>1, <2>2, <3>1
    <2>4. PICK h : F(m - 1, h)
        BY <2>3
    <2> DEFINE g == [i \in 0..m |-> IF i = m THEN h[m - 1] + Weighted(row, m) ELSE h[i]]
    <2>5. ASSUME NEW i \in 0..m
          PROVE  g[i] = IF i = 0 THEN 0 ELSE g[i - 1] + Weighted(row, i)
        <3>1. CASE i = m
            BY <2>2, <2>3, <3>1
        <3>2. CASE i # m
            <4>1. i \in 0..m - 1 /\ g[i] = h[i]
                BY <2>3, <3>2
            <4>2. h[i] = IF i = 0 THEN 0 ELSE h[i - 1] + Weighted(row, i)
                BY <2>4, <4>1
            <4>3. i # 0 => g[i - 1] = h[i - 1]
                BY <2>3, <4>1
            <4> QED BY <4>1, <4>2, <4>3
        <3> QED BY <3>1, <3>2
    <2>6. F(m, g)
        BY <2>5
    <2> QED BY <2>1, <2>6
<1>5. F(w, f)
    BY <1>4
<1> HIDE DEF f
<1>6. f[0] = 0 /\ \A i \in 1..w : f[i] = f[i - 1] + Weighted(row, i)
    <2>1. 0 \in 0..w /\ \A i \in 1..w : i \in 0..w /\ i # 0
        OBVIOUS
    <2> QED BY <1>5, <2>1
<1>7. ASSUME NEW i \in 0..w PROVE f[i] \in Nat
    <2> DEFINE Bad == {j \in 0..w : f[j] \notin Nat}
    <2> SUFFICES ASSUME Bad # {} PROVE FALSE
        OBVIOUS
    <2>1. PICK m \in Bad : \A j \in Bad : m <= j
        <3>1. Bad \subseteq Nat
            OBVIOUS
        <3> HIDE DEF Bad
        <3> QED BY <3>1, LeastNumber
    <2>2. m # 0
        BY <1>6
    <2>3. m \in 1..w /\ m - 1 \in 0..w /\ m - 1 \notin Bad
        BY <2>1, <2>2
    <2>4. f[m - 1] \in Nat
        BY <2>3
    <2>5. f[m] \in Nat
        BY <1>3, <1>6, <2>3, <2>4
    <2> QED BY <2>5
<1> QED BY <1>2, <1>3, <1>6, <1>7

\* One more binary digit.
LEMMA NextDigit ==
    ASSUME NEW e \in Nat, NEW q \in Nat \ {0}
    PROVE  e % (2 * q) = (e % q) + q * ((e \div q) % 2)
<1> DEFINE a == e \div q
           r == e % q
           c == a % 2
           h == a \div 2
<1>1. a \in Nat /\ r \in 0..q - 1 /\ e = q * a + r
    OBVIOUS
<1> HIDE DEF a, r
<1>2. c \in 0..1 /\ h \in Nat /\ a = 2 * h + c
    BY <1>1
<1> HIDE DEF c, h
<1>3. q * a = (2 * q) * h + q * c
    BY <1>2
<1>4. q * c + r \in 0..(2 * q) - 1
    <2>1. CASE c = 0
        BY <1>1, <2>1
    <2>2. CASE c = 1
        BY <1>1, <2>2
    <2> QED BY <1>2, <2>1, <2>2
<1> DEFINE x == q * c + r
           y == 2 * q
<1>5. e = y * h + x /\ x \in 0..y - 1 /\ y \in Nat \ {0}
    <2>1. PICK u \in Int, v \in Int, z \in Int : u = q * a /\ v = (2 * q) * h /\ z = q * c
        BY <1>1, <1>2
    <2>2. e = u + r /\ u = v + z /\ r \in Int
        BY <1>1, <1>3, <2>1
    <2>3. e = v + (z + r)
        BY <2>2
    <2>4. e = y * h + x
        BY <2>1, <2>3
    <2>5. x \in 0..y - 1
        BY <1>4
    <2> QED BY <2>4, <2>5
<1> HIDE DEF x, y
<1>6. e % y = x
    BY <1>2, <1>5
<1> QED BY <1>6 DEF x, y, r, c, a

\* If the parity at each power of two is the digit of e, the sum is e.
LEMMA BinsNumber ==
    ASSUME NEW w \in Nat, w < IntEnd, NEW row \in Row(w), NEW e \in 0..w,
           \A k \in PowersOfTwo \cap 1..w : getParity(row, k) = (e \div k) % 2
    PROVE  ErrorPosition(row) = e
<1> DEFINE Above(n, q) == \/ n = 0 /\ q = 1
                          \/ q \in Powers \cup {IntEnd} /\ n < q /\ q <= 2 * n
           Right(n) == \E q \in Nat \ {0} : Above(n, q) /\ Bins(row)[n] = e % q
           Bad == {n \in 0..w : ~Right(n)}
<1>1. Right(0)
    <2>1. e % 1 = 0 /\ Bins(row)[0] = 0
        BY BinsProps
    <2> QED BY <2>1
<1>2. ASSUME NEW n \in 1..w, Right(n - 1) PROVE Right(n)
    <2>1. PICK q \in Nat \ {0} : Above(n - 1, q) /\ Bins(row)[n - 1] = e % q
        BY <1>2
    <2>2. Bins(row)[n] = (e % q) + Weighted(row, n) /\ q >= n
        BY <2>1, BinsProps
    <2>3. CASE n \notin PowersOfTwo
        <3>1. n # q
            <4>1. 1 \in PowersOfTwo
                BY PowersAre, PowersNat
            <4>2. CASE n - 1 = 0
                BY <2>1, <2>3, <4>1, <4>2
            <4>3. CASE n - 1 # 0
                <5>1. q \in Powers \cup {IntEnd} /\ n # IntEnd
                    BY <2>1, <4>3, PowersNat
                <5> QED BY <2>3, <5>1, PowersAre, PowersNat
            <4> QED BY <4>2, <4>3
        <3>2. Above(n, q)
            <4>1. n # 1
                BY <2>3, PowersAre, PowersNat
            <4> QED BY <2>1, <2>2, <3>1, <4>1, PowersNat
        <3>3. Bins(row)[n] = e % q
            BY <2>2, <2>3 DEF Weighted
        <3> QED BY <3>2, <3>3
    <2>4. CASE n \in PowersOfTwo
        <3>1. n \in Powers
            BY <2>4, PowersAre
        <3>2. n = q
            <4>1. CASE n - 1 = 0
                BY <2>1, <4>1
            <4>2. CASE n - 1 # 0 /\ n < q
                <5>1. q \in Powers \cup {IntEnd} /\ q <= 2 * (n - 1)
                    BY <2>1, <4>2
                <5>2. CASE q \in Powers
                    BY <3>1, <4>2, <5>1, <5>2, PowersNext
                <5>3. CASE q = IntEnd
                    BY <3>1, <5>1, <5>3, PowersNext, PowersNat
                <5> QED BY <5>1, <5>2, <5>3
            <4> QED BY <2>2, <4>1, <4>2
        <3>3. Above(n, 2 * n)
            BY <3>1, PowersNext, PowersNat
        <3>4. Weighted(row, n) = n * ((e \div n) % 2)
            BY <2>4 DEF Weighted
        <3>5. e % (2 * n) = (e % n) + n * ((e \div n) % 2)
            <4>1. e \in Nat /\ n \in Nat \ {0}
                OBVIOUS
            <4> HIDE DEF Above, Right
            <4> QED BY <4>1, NextDigit
        <3>6. Bins(row)[n] = e % (2 * n) /\ 2 * n \in Nat \ {0}
            BY <2>2, <3>2, <3>4, <3>5
        <3> QED BY <3>3, <3>6
    <2> QED BY <2>3, <2>4
<1>3. Bad = {}
    <2> SUFFICES ASSUME Bad # {} PROVE FALSE
        OBVIOUS
    <2>0. Bad \subseteq Nat
        OBVIOUS
    <2>1. \A n \in Bad : n \in 0..w /\ ~Right(n)
        OBVIOUS
    <2>2. \A n \in 0..w : n \notin Bad => Right(n)
        OBVIOUS
    <2> HIDE DEF Bad, Right
    <2>3. PICK m \in Bad : \A j \in Bad : m <= j
        BY <2>0, LeastNumber
    <2>4. m # 0
        BY <1>1, <2>1
    <2>5. m \in 1..w /\ m - 1 \in 0..w /\ m - 1 \notin Bad
        BY <2>1, <2>3, <2>4
    <2> QED BY <1>2, <2>1, <2>2, <2>5
<1>4. Right(w)
    BY <1>3
<1>5. PICK q \in Nat \ {0} : Above(w, q) /\ Bins(row)[w] = e % q
    BY <1>4
<1>6. e < q
    BY <1>5
<1>7. e % q = e
    BY <1>6
<1> QED BY <1>5, <1>7, BinsProps

\* If the parities at the powers below a limit are even, the sum is 0 or not
\* below it.
LEMMA BinsQuiet ==
    ASSUME NEW w \in Nat, NEW row \in Row(w), NEW limit \in Nat,
           \A k \in PowersOfTwo \cap 1..w : k < limit => getParity(row, k) = 0
    PROVE  ErrorPosition(row) = 0 \/ ErrorPosition(row) >= limit
<1> DEFINE Right(n) == Bins(row)[n] = 0 \/ Bins(row)[n] >= limit
           Bad == {n \in 0..w : ~Right(n)}
<1>1. Right(0)
    BY BinsProps
<1>2. ASSUME NEW n \in 1..w, Right(n - 1) PROVE Right(n)
    <2>1. /\ Bins(row)[n] = Bins(row)[n - 1] + Weighted(row, n) /\ Weighted(row, n) \in Nat
          /\ Bins(row)[n - 1] \in Nat
        BY BinsProps
    <2>2. Weighted(row, n) = 0 \/ Weighted(row, n) >= limit
        <3>1. getParity(row, n) \in {0, 1}
            <4>1. IsFiniteSet(DOMAIN row)
                BY FS_Interval DEF Row
            <4> QED BY <4>1, ParityType DEF Bit
        <3>2. CASE getParity(row, n) = 0
            BY <3>2 DEF Weighted
        <3>3. CASE getParity(row, n) = 1
            BY <3>3 DEF Weighted
        <3> QED BY <3>1, <3>2, <3>3
    <2> QED BY <1>2, <2>1, <2>2
<1>3. Bad = {}
    <2> SUFFICES ASSUME Bad # {} PROVE FALSE
        OBVIOUS
    <2>0. Bad \subseteq Nat
        OBVIOUS
    <2>1. \A n \in Bad : n \in 0..w /\ ~Right(n)
        OBVIOUS
    <2>2. \A n \in 0..w : n \notin Bad => Right(n)
        OBVIOUS
    <2> HIDE DEF Bad, Right
    <2>3. PICK m \in Bad : \A j \in Bad : m <= j
        BY <2>0, LeastNumber
    <2>4. m # 0
        BY <1>1, <2>1
    <2>5. m \in 1..w /\ m - 1 \in 0..w /\ m - 1 \notin Bad
        BY <2>1, <2>3, <2>4
    <2> QED BY <1>2, <2>1, <2>2, <2>5
<1> QED BY <1>3, BinsProps


-----------------------------------------------------------------------------
(***************************************************************************)
(* A row of n bits gets its check bits.  These operators are the ones of   *)
(* the program for one n, so that they do not depend on the state.         *)
(***************************************************************************)
Check(n) == PowersOfTwo \cap 1..n
Before(n, k) == {c \in Check(n) : c < k}
At(n, k) == k - Cardinality(Before(n, k))
Width(n) == n + Cardinality(Check(n))
Taken(n) == PowersOfTwo \cap n + 1..Width(n)
Long(n, row) == [k \in 1..Width(n) |-> IF k \in Check(n) THEN -1 ELSE row[At(n, k)]]
Coded(n, row) == FillCheckBits(Long(n, row))

\* A row whose positions are ints.
RowLength(n) == n \in Nat \ {0} /\ n + 31 < IntEnd

LEMMA FewPowers == IsFiniteSet(PowersOfTwo) /\ Cardinality(PowersOfTwo) <= 31
<1> DEFINE f == [e \in 0..30 |-> 2^e]
<1>1. IsFiniteSet(0..30) /\ Cardinality(0..30) = 31
    <2>1. 0 \in Int /\ 30 \in Int
        OBVIOUS
    <2>2. IsFiniteSet(0..30) /\ Cardinality(0..30) = IF 0 > 30 THEN 0 ELSE 30 - 0 + 1
        BY <2>1, FS_Interval
    <2> QED BY <2>2
<1>2. f \in Surjection(0..30, PowersOfTwo)
    <2>1. \A p \in PowersOfTwo : \E e \in 0..30 : f[e] = p
        BY Zenon DEF PowersOfTwo
    <2>2. f \in [0..30 -> PowersOfTwo]
        BY Zenon DEF PowersOfTwo
    <2> QED BY <2>1, <2>2, Zenon DEF Surjection
<1> HIDE DEF f
<1> QED BY <1>1, <1>2, FS_Surjection

LEMMA CheckFacts ==
    ASSUME NEW n, RowLength(n)
    PROVE  /\ n \in Nat \ {0} /\ Check(n) \subseteq 1..n /\ IsFiniteSet(Check(n))
           /\ Cardinality(Check(n)) \in Nat
           /\ Width(n) \in Nat \ {0} /\ Width(n) < IntEnd /\ n <= Width(n)
           /\ Width(n) = n + Cardinality(Check(n))
           /\ \A k \in Nat : Cardinality(Before(n, k)) \in Nat /\ Cardinality(Before(n, k)) <= Cardinality(Check(n))
<1>1. n \in Nat \ {0} /\ n + 31 < IntEnd
    BY DEF RowLength
<1>2. Check(n) \subseteq 1..n /\ Check(n) \subseteq PowersOfTwo
    BY DEF Check
<1>3. IsFiniteSet(Check(n)) /\ Cardinality(Check(n)) \in Nat /\ Cardinality(Check(n)) <= 31
    <2>1. IsFiniteSet(Check(n)) /\ Cardinality(Check(n)) <= Cardinality(PowersOfTwo)
        BY <1>2, FewPowers, FS_Subset
    <2>2. Cardinality(Check(n)) \in Nat /\ Cardinality(PowersOfTwo) \in Nat
        BY <2>1, FewPowers, FS_CardinalityType
    <2> QED BY <2>1, <2>2, FewPowers
<1>4. Width(n) = n + Cardinality(Check(n))
    BY DEF Width
<1>5. ASSUME NEW k \in Nat
      PROVE  Cardinality(Before(n, k)) \in Nat /\ Cardinality(Before(n, k)) <= Cardinality(Check(n))
    <2>1. Before(n, k) \subseteq Check(n)
        BY DEF Before
    <2> QED BY <1>3, <2>1, FS_Subset, FS_CardinalityType
<1> QED BY <1>1, <1>2, <1>3, <1>4, <1>5, PowersNat

\* Every position of the longer row stands for one of the row.
LEMMA AtFacts ==
    ASSUME NEW n, RowLength(n), NEW k \in 1..Width(n)
    PROVE  At(n, k) \in 1..n
<1>1. /\ n \in Nat /\ Check(n) \subseteq 1..n /\ IsFiniteSet(Check(n)) /\ Width(n) \in Nat
      /\ Cardinality(Check(n)) \in Nat /\ Width(n) = n + Cardinality(Check(n))
    BY CheckFacts
<1>2. k \in Nat /\ k >= 1 /\ k - 1 \in Nat /\ k <= Width(n)
    BY <1>1
<1>3. Before(n, k) \subseteq 1..k - 1
    BY <1>1, <1>2 DEF Before
<1>4. Cardinality(1..k - 1) = k - 1 /\ IsFiniteSet(1..k - 1)
    <2>1. k - 1 \in Int /\ 1 \in Int
        BY <1>2
    <2>2. /\ IsFiniteSet(1..k - 1)
          /\ Cardinality(1..k - 1) = IF 1 > k - 1 THEN 0 ELSE (k - 1) - 1 + 1
        BY <2>1, FS_Interval
    <2> QED BY <1>2, <2>2
<1>5. Cardinality(Before(n, k)) \in Nat /\ Cardinality(Before(n, k)) <= k - 1
    BY <1>3, <1>4, FS_Subset, FS_CardinalityType
<1>6. CASE k <= n
    BY <1>1, <1>2, <1>5, <1>6 DEF At
<1>7. CASE k > n
    <2>1. Before(n, k) = Check(n)
        BY <1>1, <1>2, <1>7 DEF Before
    <2> QED BY <1>1, <1>2, <1>5, <1>7, <2>1 DEF At
<1> QED BY <1>1, <1>2, <1>6, <1>7

\* The bits of a coded row.
LEMMA CodedBits ==
    ASSUME NEW n, RowLength(n), NEW row \in Row(n)
    PROVE  /\ Long(n, row) \in [1..Width(n) -> Bit \cup {-1}]
           /\ \A k \in Check(n) : Long(n, row)[k] = -1
           /\ Coded(n, row) \in Row(Width(n))
           /\ \A k \in 1..Width(n) :
                Coded(n, row)[k] = IF k \in Check(n) THEN getParity(Long(n, row), k) ELSE row[At(n, k)]
           /\ \A k \in 1..Width(n) : k \notin Check(n) => Long(n, row)[k] = row[At(n, k)]
<1> DEFINE long == Long(n, row)
           w == Width(n)
<1>1. w \in Nat /\ n <= w /\ n \in Nat /\ Check(n) \subseteq 1..n
    BY CheckFacts
<1>2. ASSUME NEW k \in 1..w PROVE row[At(n, k)] \in Bit
    <2>1. At(n, k) \in 1..n
        BY AtFacts
    <2> QED BY <2>1 DEF Row
<1>3. Check(n) \subseteq 1..w
    BY <1>1
<1>4. /\ DOMAIN long = 1..w
      /\ \A k \in 1..w : long[k] = IF k \in Check(n) THEN -1 ELSE row[At(n, k)]
      /\ long = [k \in 1..w |-> long[k]]
    BY DEF Long
<1> HIDE DEF long, w
<1>5. \A k \in 1..w : long[k] = -1 \/ long[k] \in Bit
    BY <1>2, <1>4
<1>6. long \in [1..w -> Bit \cup {-1}]
    BY <1>4, <1>5
<1>7. ASSUME NEW k \in 1..w
      PROVE  /\ (IF long[k] = -1 THEN getParity(long, k) ELSE long[k]) =
                   IF k \in Check(n) THEN getParity(long, k) ELSE row[At(n, k)]
             /\ (IF long[k] = -1 THEN getParity(long, k) ELSE long[k]) \in Bit
    <2>1. -1 \notin Bit
        BY DEF Bit
    <2>2. getParity(long, k) \in Bit
        <3>1. IsFiniteSet(1..w)
            BY <1>1, FS_Interval
        <3>2. IsFiniteSet(DOMAIN long)
            BY <1>4, <3>1
        <3> QED BY <3>2, ParityType
    <2> QED BY <1>2, <1>4, <2>1, <2>2
<1>8. FillCheckBits(long) = [k \in 1..w |-> IF long[k] = -1 THEN getParity(long, k) ELSE long[k]]
    BY <1>4 DEF FillCheckBits
<1>9. FillCheckBits(long) \in [1..w -> Bit]
    BY <1>7, <1>8
<1> QED BY <1>3, <1>4, <1>6, <1>7, <1>8, <1>9 DEF Coded, Row, long, w

\* The bits a parity counts.
Odd(row, k) == {i \in DOMAIN row : (i \div k) % 2 = 1 /\ row[i] = 1}

\* The parity of a coded row is even at every check bit.
LEMMA CodedEven ==
    ASSUME NEW n, RowLength(n), NEW row \in Row(n), NEW k \in Check(n)
    PROVE  getParity(Coded(n, row), k) = 0
<1> DEFINE long == Long(n, row)
           code == Coded(n, row)
           w == Width(n)
           S == Odd(long, k)
           T == Odd(code, k)
<1>1. w \in Nat /\ n <= w /\ n \in Nat /\ Check(n) \subseteq 1..n /\ k \in 1..w /\ Check(n) \subseteq PowersOfTwo
    <2>1. w \in Nat /\ n <= w /\ n \in Nat /\ Check(n) \subseteq 1..n
        BY CheckFacts
    <2>2. Check(n) \subseteq PowersOfTwo
        BY DEF Check
    <2> HIDE DEF w
    <2>3. k \in 1..n
        BY <2>1
    <2> QED BY <2>1, <2>2, <2>3
<1>2. /\ DOMAIN long = 1..w /\ DOMAIN code = 1..w /\ code[k] \in Bit
      /\ \A i \in Check(n) : long[i] = -1
      /\ code[k] = getParity(long, k)
      /\ \A i \in 1..w : i \notin Check(n) => code[i] = long[i]
    BY <1>1, CodedBits DEF Row
<1> HIDE DEF long, code, w
<1>3. IsFiniteSet(S) /\ Cardinality(S) \in Nat
    <2>1. IsFiniteSet(1..w)
        BY <1>1, FS_Interval
    <2>2. S \subseteq 1..w
        BY <1>2 DEF Odd
    <2> QED BY <2>1, <2>2, FS_Subset, FS_CardinalityType
<1>4. \A i \in Check(n) : (i \div k) % 2 = 1 <=> i = k
    <2>1. \A i \in Check(n) : (i \div k) % 2 = IF i = k THEN 1 ELSE 0
        BY <1>1, PowersAre, PowersBit
    <2> QED BY <2>1
<1>5. k \notin S
    <2>1. long[k] # 1
        BY <1>2
    <2> QED BY <2>1 DEF Odd
<1>6. code[k] = Cardinality(S) % 2
    BY <1>2 DEF getParity, Odd
<1>7. \A i : i \in T <=> i \in S \/ (i = k /\ code[k] = 1)
    <2> SUFFICES ASSUME NEW i PROVE i \in T <=> i \in S \/ (i = k /\ code[k] = 1)
        OBVIOUS
    <2>1. i \in T <=> i \in 1..w /\ (i \div k) % 2 = 1 /\ code[i] = 1
        BY <1>2 DEF Odd
    <2>2. i \in S <=> i \in 1..w /\ (i \div k) % 2 = 1 /\ long[i] = 1
        BY <1>2 DEF Odd
    <2>3. CASE i \in Check(n)
        <3>1. long[i] # 1 /\ ((i \div k) % 2 = 1 <=> i = k) /\ i \in 1..w
            BY <1>1, <1>2, <1>4, <2>3
        <3> QED BY <2>1, <2>2, <3>1
    <2>4. CASE i \notin Check(n)
        <3>1. i # k /\ (i \in 1..w => code[i] = long[i])
            BY <1>2, <2>4
        <3> QED BY <2>1, <2>2, <3>1
    <2> QED BY <2>3, <2>4
<1>8. getParity(code, k) = Cardinality(T) % 2
    BY DEF getParity, Odd
<1> HIDE DEF S, T
<1>9. CASE code[k] = 1
    <2>1. T = S \cup {k}
        BY <1>7, <1>9
    <2>2. Cardinality(T) = Cardinality(S) + 1
        BY <1>3, <1>5, <2>1, FS_AddElement
    <2>3. getParity(code, k) = 0
        BY <1>3, <1>6, <1>8, <1>9, <2>2
    <2> QED BY <2>3 DEF code
<1>10. CASE code[k] = 0
    <2>1. \A i : i \in T <=> i \in S
        BY <1>7, <1>10
    <2>2. T = S
        BY <2>1, Zenon
    <2>3. getParity(code, k) = 0
        BY <1>6, <1>8, <1>10, <2>2
    <2> QED BY <2>3 DEF code
<1> QED BY <1>2, <1>9, <1>10 DEF Bit, code

\* A toggled bit turns the parities that count it.
LEMMA ToggleParity ==
    ASSUME NEW w \in Nat, NEW row \in Row(w), NEW hit \in Row(w), NEW e \in 1..w,
           \A i \in 1..w : hit[i] = IF i = e THEN 1 - row[i] ELSE row[i],
           NEW k \in Nat \ {0}
    PROVE  getParity(hit, k) = IF (e \div k) % 2 = 1 THEN 1 - getParity(row, k) ELSE getParity(row, k)
<1> DEFINE S == Odd(row, k)
           T == Odd(hit, k)
<1>1. /\ DOMAIN row = 1..w /\ DOMAIN hit = 1..w /\ row[e] \in Bit /\ hit[e] = 1 - row[e]
    BY DEF Row
<1>2. /\ IsFiniteSet(S) /\ Cardinality(S) \in Nat /\ IsFiniteSet(T) /\ Cardinality(T) \in Nat
    <2>1. IsFiniteSet(1..w)
        BY FS_Interval
    <2>2. S \subseteq 1..w /\ T \subseteq 1..w
        BY <1>1 DEF Odd
    <2> QED BY <2>1, <2>2, FS_Subset, FS_CardinalityType
<1>3. getParity(row, k) = Cardinality(S) % 2 /\ getParity(hit, k) = Cardinality(T) % 2
    BY DEF getParity, Odd
<1>4. \A i : i # e => (i \in S <=> i \in T)
    BY <1>1 DEF Odd
<1>5. CASE (e \div k) % 2 # 1
    <2>1. e \notin S /\ e \notin T
        BY <1>5 DEF Odd
    <2>2. S = T
        BY <1>4, <2>1
    <2> QED BY <1>3, <1>5, <2>2
<1>6. CASE (e \div k) % 2 = 1 /\ row[e] = 0
    <2>1. e \notin S /\ e \in T
        BY <1>1, <1>6 DEF Odd
    <2>2. T = S \cup {e}
        BY <1>4, <2>1
    <2> HIDE DEF S, T
    <2>3. Cardinality(T) = Cardinality(S) + 1
        BY <1>2, <2>1, <2>2, FS_AddElement
    <2> QED BY <1>2, <1>3, <1>6, <2>3
<1>7. CASE (e \div k) % 2 = 1 /\ row[e] = 1
    <2>1. e \in S /\ e \notin T
        BY <1>1, <1>7 DEF Odd
    <2>2. S = T \cup {e}
        BY <1>4, <2>1
    <2> HIDE DEF S, T
    <2>3. Cardinality(S) = Cardinality(T) + 1
        BY <1>2, <2>1, <2>2, FS_AddElement
    <2> QED BY <1>2, <1>3, <1>7, <2>3
<1> QED BY <1>1, <1>5, <1>6, <1>7 DEF Bit


-----------------------------------------------------------------------------
(* What the receiver makes of a row.                                       *)

\* What CorrectRow does to each bit.
LEMMA Corrected ==
    ASSUME NEW w \in Nat, NEW hit \in Row(w), NEW k \in 1..w
    PROVE  CorrectRow(hit)[k] = IF k = ErrorPosition(hit) THEN 1 - hit[k] ELSE hit[k]
<1> DEFINE bin == ErrorPosition(hit)
<1>1. DOMAIN hit = 1..w
    BY DEF Row
<1> HIDE DEF bin
<1>2. CorrectRow(hit) = IF bin \in 1..w THEN [hit EXCEPT ![bin] = 1 - @] ELSE hit
    BY <1>1 DEF CorrectRow, bin
<1>3. CASE bin \in 1..w
    BY <1>1, <1>2, <1>3 DEF bin
<1>4. CASE bin \notin 1..w
    BY <1>2, <1>4 DEF bin
<1> QED BY <1>3, <1>4

\* A row that was not touched keeps every bit before the first power of two
\* that is not a check bit.
LEMMA UntouchedKept ==
    ASSUME NEW n, RowLength(n), NEW row \in Row(n), NEW k \in 1..Width(n),
           \A p \in Taken(n) : k < p
    PROVE  CorrectRow(Coded(n, row))[k] = Coded(n, row)[k]
<1> DEFINE w == Width(n)
           code == Coded(n, row)
<1>1. w \in Nat /\ n \in Nat /\ code \in Row(w)
    BY CheckFacts, CodedBits
<1>2. ASSUME NEW q \in PowersOfTwo \cap 1..w, q < k + 1 PROVE getParity(code, q) = 0
    <2>1. q \notin Taken(n)
        <3>1. q \in Nat /\ k \in Nat
            BY <1>1
        <3> QED BY <1>2, <3>1
    <2>2. q \in Check(n)
        BY <1>1, <2>1 DEF Taken, Check
    <2> QED BY <2>2, CodedEven
<1> HIDE DEF w, code
<1>3. k \in 1..w /\ k + 1 \in Nat
    BY <1>1 DEF w
<1>4. ErrorPosition(code) = 0 \/ ErrorPosition(code) >= k + 1
    BY <1>1, <1>2, <1>3, BinsQuiet
<1>5. k # ErrorPosition(code)
    <2>1. ErrorPosition(code) \in Nat
        <3>1. w \in 0..w
            BY <1>1
        <3> QED BY <1>1, <3>1, BinsProps
    <2> QED BY <1>3, <1>4, <2>1
<1>6. CorrectRow(code)[k] = code[k]
    BY <1>1, <1>3, <1>5, Corrected
<1> QED BY <1>6 DEF code

\* One toggled bit is found and turned back, if every power of two is a check bit.
LEMMA OneToggledRestored ==
    ASSUME NEW n, RowLength(n), NEW row \in Row(n), Taken(n) = {},
           NEW e \in 1..Width(n), NEW hit \in Row(Width(n)),
           \A i \in 1..Width(n) : hit[i] = IF i = e THEN 1 - Coded(n, row)[i] ELSE Coded(n, row)[i],
           NEW k \in 1..Width(n)
    PROVE  CorrectRow(hit)[k] = Coded(n, row)[k]
<1> DEFINE w == Width(n)
           code == Coded(n, row)
<1>1. w \in Nat /\ w < IntEnd /\ n \in Nat /\ code \in Row(w)
    BY CheckFacts, CodedBits
<1>2. ASSUME NEW q \in PowersOfTwo \cap 1..w PROVE getParity(hit, q) = (e \div q) % 2
    <2>1. q \in Check(n)
        BY <1>1 DEF Taken, Check
    <2>2. getParity(code, q) = 0
        BY <2>1, CodedEven
    <2>3. q \in Nat \ {0}
        BY <1>1
    <2> HIDE DEF w, code
    <2>4. getParity(hit, q) = IF (e \div q) % 2 = 1 THEN 1 - getParity(code, q) ELSE getParity(code, q)
        BY <1>1, <2>3, ToggleParity DEF w, code
    <2>5. e \in Nat /\ (e \div q) % 2 \in {0, 1}
        BY <1>1, <2>3 DEF w
    <2> QED BY <2>2, <2>4, <2>5
<1> HIDE DEF w, code
<1>3. e \in 1..w /\ e \in 0..w /\ hit \in Row(w) /\ k \in 1..w
    BY <1>1 DEF w
<1>4. ErrorPosition(hit) = e
    BY <1>1, <1>2, <1>3, BinsNumber
<1>5. CorrectRow(hit)[k] = IF k = e THEN 1 - hit[k] ELSE hit[k]
    BY <1>1, <1>3, <1>4, Corrected
<1>6. code[k] \in {0, 1} /\ hit[k] = IF k = e THEN 1 - code[k] ELSE code[k]
    <2>1. code[k] \in {0, 1}
        BY <1>1, <1>3 DEF Row, Bit
    <2> QED BY <1>3, <2>1 DEF code
<1>7. CorrectRow(hit)[k] = code[k]
    BY <1>5, <1>6
<1> QED BY <1>7 DEF code

Rank(S, k) == Cardinality({j \in S : j <= k})

LEMMA RankTaken ==
    ASSUME NEW w \in Nat, NEW S, S \subseteq 1..w, NEW n \in 1..Cardinality(S)
    PROVE  \E k \in S : Rank(S, k) = n
<1>1. \E k \in S : Cardinality({j \in S : j <= k}) = n
    BY Ranked, Zenon
<1> QED BY <1>1, Zenon DEF Rank

\* Where the bits of the row stand behind the check bits, as long as only these are powers of two.
LEMMA ErasedBit ==
    ASSUME NEW n, RowLength(n), NEW long, long \in Row(Width(n)), NEW b \in 1..n,
           \A p \in Taken(n) : b + Cardinality(Check(n)) < p
    PROVE  \E k \in 1..Width(n) :
             /\ k \notin Check(n) /\ At(n, k) = b /\ \A p \in Taken(n) : k < p
             /\ EraseCheckBits(long)[b] = long[k] /\ Len(EraseCheckBits(long)) >= b
<1> DEFINE w == Width(n)
           places == (1..w) \ Check(n)
           kept == (1..w) \ PowersOfTwo
           rank(S, k) == Cardinality({j \in S : j <= k})
<1>1. /\ w \in Nat /\ n \in Nat /\ Check(n) \subseteq 1..n /\ IsFiniteSet(Check(n)) /\ n <= w
      /\ Cardinality(Check(n)) \in Nat /\ w = n + Cardinality(Check(n))
    BY CheckFacts
<1> HIDE DEF w
<1>2. IsFiniteSet(1..w) /\ Cardinality(1..w) = w
    <2>1. 1 \in Int /\ w \in Int
        BY <1>1
    <2>2. IsFiniteSet(1..w) /\ Cardinality(1..w) = IF 1 > w THEN 0 ELSE w - 1 + 1
        BY <2>1, FS_Interval
    <2> QED BY <1>1, <2>2
<1>3. Cardinality(places) = n /\ places \subseteq 1..w
    <2>1. Check(n) \subseteq 1..w
        BY <1>1
    <2>2. (1..w) \cap Check(n) = Check(n)
        BY <2>1
    <2>3. Cardinality(places) = Cardinality(1..w) - Cardinality((1..w) \cap Check(n))
        BY <1>2, FS_Difference
    <2>4. Cardinality(places) = w - Cardinality(Check(n))
        BY <1>2, <2>2, <2>3
    <2>5. places \subseteq 1..w
        OBVIOUS
    <2> HIDE DEF places
    <2> QED BY <1>1, <2>4, <2>5
<1>4. ASSUME NEW k \in places PROVE rank(places, k) = At(n, k)
    <2>1. k \in 1..w /\ k \notin Check(n) /\ k \in Nat
        BY <1>1
    <2>2. IsFiniteSet(1..k) /\ Cardinality(1..k) = k
        <3>1. 1 \in Int /\ k \in Int /\ k >= 1
            BY <1>1, <2>1
        <3>2. IsFiniteSet(1..k) /\ Cardinality(1..k) = IF 1 > k THEN 0 ELSE k - 1 + 1
            BY <3>1, FS_Interval
        <3> QED BY <3>1, <3>2
    <2>3. \A i \in 1..k : i \in Check(n) <=> i \in Before(n, k)
        BY <1>1, <2>1 DEF Before
    <2>4. Before(n, k) \subseteq 1..k
        BY <1>1, <2>1 DEF Before
    <2>5. {j \in places : j <= k} = (1..k) \ Before(n, k) /\ (1..k) \cap Before(n, k) = Before(n, k)
        <3>1. \A i : i \in places /\ i <= k <=> i \in 1..k /\ i \notin Before(n, k)
            BY <1>1, <2>1, <2>3
        <3> QED BY <2>4, <3>1
    <2>6. Cardinality((1..k) \ Before(n, k)) = Cardinality(1..k) - Cardinality((1..k) \cap Before(n, k))
        BY <2>2, FS_Difference
    <2> QED BY <2>2, <2>5, <2>6 DEF At
<1>5. PICK k \in places : rank(places, k) = b
    <2>1. b \in 1..Cardinality(places)
        BY <1>3
    <2> HIDE DEF places, rank
    <2>2. w \in Nat /\ places \subseteq 1..w
        BY <1>1, <1>3
    <2> HIDE DEF kept
    <2>3. \E k \in places : Rank(places, k) = b
        BY <2>1, <2>2, RankTaken
    <2> QED BY <2>3 DEF rank, Rank
<1>6. k \in 1..w /\ k \notin Check(n) /\ At(n, k) = b
    BY <1>4, <1>5
<1>7. k = b + Cardinality(Before(n, k)) /\ k <= b + Cardinality(Check(n)) /\ k \in Nat
    <2>1. k \in Nat /\ b \in Nat
        BY <1>1, <1>6
    <2>2. Cardinality(Before(n, k)) \in Nat /\ Cardinality(Before(n, k)) <= Cardinality(Check(n))
        BY <2>1, CheckFacts
    <2> QED BY <1>1, <1>6, <2>1, <2>2 DEF At
<1>8. \A p \in Taken(n) : p \in Nat /\ k < p
    <2>1. \A p \in Taken(n) : p \in Nat
        BY <1>1 DEF Taken, w
    <2> QED BY <1>1, <1>7, <2>1
<1>9. k \in kept
    <2>1. k \notin Taken(n)
        BY <1>7, <1>8
    <2>2. ASSUME k \in PowersOfTwo PROVE FALSE
        BY <1>1, <1>6, <2>1, <2>2 DEF Taken, Check, w
    <2> QED BY <1>6, <2>2
<1>10. {j \in kept : j <= k} = {j \in places : j <= k}
    <2>1. ASSUME NEW i \in 1..w, i <= k PROVE i \in kept <=> i \in places
        <3>1. i \notin Taken(n)
            BY <1>1, <1>7, <1>8, <2>1
        <3>2. i \in PowersOfTwo <=> i \in Check(n)
            BY <1>1, <2>1, <3>1 DEF Taken, Check, w
        <3> QED BY <3>2
    <2> QED BY <2>1
<1>11. rank(kept, k) = b
    BY <1>5, <1>10
<1>12. kept \subseteq 1..w /\ IsFiniteSet(kept) /\ \A i \in kept : i \in Nat
    <2>1. kept \subseteq 1..w /\ \A i \in kept : i \in Nat
        BY <1>1
    <2> HIDE DEF kept
    <2> QED BY <1>2, <2>1, FS_Subset
<1> HIDE DEF kept, places
<1>13. ASSUME NEW x \in kept, rank(kept, x) = b PROVE x = k
    <2> DEFINE R(y) == {j \in kept : j <= y}
    <2>1. \A y : R(y) \subseteq kept /\ IsFiniteSet(R(y))
        BY <1>12, FS_Subset
    <2>2. x \in Nat /\ k \in Nat
        BY <1>9, <1>12
    <2>3. x <= k \/ k <= x
        BY <2>2
    <2>4. CASE x <= k
        <3>1. R(x) \subseteq R(k)
            <4>1. ASSUME NEW i \in kept, i <= x PROVE i <= k
                BY <1>12, <2>2, <2>4, <4>1
            <4> QED BY <4>1
        <3>2. Cardinality(R(x)) = Cardinality(R(k))
            BY <1>11, <1>13
        <3> HIDE DEF R
        <3>3. R(x) = R(k)
            BY <2>1, <3>1, <3>2, FS_Subset
        <3>4. k <= x
            BY <1>9, <2>2, <3>3 DEF R
        <3> QED BY <2>2, <2>4, <3>4
    <2>5. CASE k <= x
        <3>1. R(k) \subseteq R(x)
            <4>1. ASSUME NEW i \in kept, i <= k PROVE i <= x
                BY <1>12, <2>2, <2>5, <4>1
            <4> QED BY <4>1
        <3>2. Cardinality(R(x)) = Cardinality(R(k))
            BY <1>11, <1>13
        <3> HIDE DEF R
        <3>3. R(x) = R(k)
            BY <2>1, <3>1, <3>2, FS_Subset
        <3>4. x <= k
            BY <1>9, <2>2, <3>3 DEF R
        <3> QED BY <2>2, <2>5, <3>4
    <2> QED BY <2>3, <2>4, <2>5
<1>14. (CHOOSE x \in kept : rank(kept, x) = b) = k
    BY <1>9, <1>11, <1>13, Zenon
<1>15. Cardinality(kept) \in Nat /\ b <= Cardinality(kept)
    <2> DEFINE R == {j \in kept : j <= k}
    <2>1. R \subseteq kept /\ Cardinality(R) = b
        BY <1>11
    <2> HIDE DEF R
    <2> QED BY <1>12, <2>1, FS_Subset, FS_CardinalityType
<1>16. DOMAIN long = 1..w
    BY DEF Row, w
<1>17. EraseCheckBits(long) = [i \in 1..Cardinality(kept) |-> long[CHOOSE x \in kept : rank(kept, x) = i]]
    BY <1>16 DEF EraseCheckBits, kept
<1>18. EraseCheckBits(long)[b] = long[k] /\ Len(EraseCheckBits(long)) >= b
    <2>1. b \in 1..Cardinality(kept)
        BY <1>1, <1>15
    <2> HIDE DEF rank
    <2>2. EraseCheckBits(long)[b] = long[k]
        BY <1>14, <1>17, <2>1
    <2>3. Len(EraseCheckBits(long)) = Cardinality(kept)
        BY <1>15, <1>17
    <2> QED BY <1>15, <2>2, <2>3
<1> QED BY <1>6, <1>8, <1>18 DEF w

\* A row as it may arrive: at most one bit toggled, none where data bits are
\* taken for check bits.
Hit(n, row, hit) ==
    /\ hit \in Row(Width(n))
    /\ \/ hit = Coded(n, row)
       \/ /\ Taken(n) = {}
          /\ \E e \in 1..Width(n) : \A i \in 1..Width(n) :
                hit[i] = IF i = e THEN 1 - Coded(n, row)[i] ELSE Coded(n, row)[i]

\* Bit j of a row is before the data bits taken for check bits.
Survives(n, j) == \A p \in Taken(n) : j + Cardinality(Check(n)) < p

\* Such a bit comes back.
LEMMA RowBack ==
    ASSUME NEW n, RowLength(n), NEW row \in Row(n), NEW hit, Hit(n, row, hit),
           NEW j \in 1..n, Survives(n, j)
    PROVE  /\ EraseCheckBits(CorrectRow(hit))[j] = row[j]
           /\ Len(EraseCheckBits(CorrectRow(hit))) >= j
<1> DEFINE w == Width(n)
           fixed == CorrectRow(hit)
<1>0. hit \in Row(w)
    BY DEF Hit
<1>1. w \in Nat /\ fixed \in Row(w)
    BY <1>0, CheckFacts, CorrectType
<1>2. PICK k \in 1..w :
             /\ k \notin Check(n) /\ At(n, k) = j /\ \A p \in Taken(n) : k < p
             /\ EraseCheckBits(fixed)[j] = fixed[k] /\ Len(EraseCheckBits(fixed)) >= j
    <2>1. \A p \in Taken(n) : j + Cardinality(Check(n)) < p
        BY DEF Survives
    <2> HIDE DEF fixed
    <2> QED BY <1>1, <2>1, ErasedBit
<1>3. fixed[k] = Coded(n, row)[k]
    <2>1. CASE hit = Coded(n, row)
        BY <1>2, <2>1, UntouchedKept
    <2>2. CASE /\ Taken(n) = {}
               /\ \E e \in 1..Width(n) : \A i \in 1..Width(n) :
                    hit[i] = IF i = e THEN 1 - Coded(n, row)[i] ELSE Coded(n, row)[i]
        <3>1. PICK e \in 1..Width(n) : \A i \in 1..Width(n) :
                    hit[i] = IF i = e THEN 1 - Coded(n, row)[i] ELSE Coded(n, row)[i]
            BY <2>2
        <3> QED BY <1>0, <2>2, <3>1, OneToggledRestored
    <2> QED BY <2>1, <2>2 DEF Hit
<1>4. Coded(n, row)[k] = row[j]
    BY <1>2, CodedBits
<1> QED BY <1>2, <1>3, <1>4


-----------------------------------------------------------------------------
(* Characters.                                                             *)

\* The eight bits of a character are its code, unless it is above 127.
LEMMA CharCode ==
    ASSUME NEW c \in 0..255, NEW s, \A b \in 1..8 : s[b] = binary_Convert(c)[b]
    PROVE  Code(s) = IF c > 127 THEN 0 ELSE c
<1> DEFINE bit(p) == IF c > 127 THEN 0 ELSE (c \div p) % 2
<1>1. ASSUME NEW b \in 1..8 PROVE s[b] = IF c > 127 THEN 0 ELSE (c \div 2^(8 - b)) % 2
    BY DEF binary_Convert
<1>2. /\ s[1] = bit(2^(8 - 1)) /\ s[2] = bit(2^(8 - 2)) /\ s[3] = bit(2^(8 - 3)) /\ s[4] = bit(2^(8 - 4))
      /\ s[5] = bit(2^(8 - 5)) /\ s[6] = bit(2^(8 - 6)) /\ s[7] = bit(2^(8 - 7)) /\ s[8] = bit(2^(8 - 8))
    <2>1. 1 \in 1..8 /\ 2 \in 1..8 /\ 3 \in 1..8 /\ 4 \in 1..8 /\ 5 \in 1..8 /\ 6 \in 1..8 /\ 7 \in 1..8 /\ 8 \in 1..8
        OBVIOUS
    <2> QED BY <1>1, <2>1, Zenon
<1>3. /\ 2^(8 - 1) = 128 /\ 2^(8 - 2) = 64 /\ 2^(8 - 3) = 32 /\ 2^(8 - 4) = 16
      /\ 2^(8 - 5) = 8 /\ 2^(8 - 6) = 4 /\ 2^(8 - 7) = 2 /\ 2^(8 - 8) = 1
    <2>1. /\ 8 - 1 = 7 /\ 8 - 2 = 6 /\ 8 - 3 = 5 /\ 8 - 4 = 4
          /\ 8 - 5 = 3 /\ 8 - 6 = 2 /\ 8 - 7 = 1 /\ 8 - 8 = 0
        OBVIOUS
    <2>2. /\ 2^7 = 128 /\ 2^6 = 64 /\ 2^5 = 32 /\ 2^4 = 16 /\ 2^3 = 8 /\ 2^2 = 4 /\ 2^1 = 2 /\ 2^0 = 1
        OBVIOUS
    <2> QED BY <2>1, <2>2
<1>4. /\ s[1] = bit(128) /\ s[2] = bit(64) /\ s[3] = bit(32) /\ s[4] = bit(16)
      /\ s[5] = bit(8) /\ s[6] = bit(4) /\ s[7] = bit(2) /\ s[8] = bit(1)
    BY <1>2, <1>3, Zenon
<1>5. CASE c > 127
    BY <1>4, <1>5 DEF Code
<1>6. CASE ~(c > 127)
    <2>1. /\ s[1] = (c \div 128) % 2 /\ s[2] = (c \div 64) % 2 /\ s[3] = (c \div 32) % 2 /\ s[4] = (c \div 16) % 2
          /\ s[5] = (c \div 8) % 2 /\ s[6] = (c \div 4) % 2 /\ s[7] = (c \div 2) % 2 /\ s[8] = (c \div 1) % 2
        BY <1>4, <1>6
    <2>2. 128 * ((c \div 128) % 2) + 64 * ((c \div 64) % 2) + 32 * ((c \div 32) % 2) + 16 * ((c \div 16) % 2)
            + 8 * ((c \div 8) % 2) + 4 * ((c \div 4) % 2) + 2 * ((c \div 2) % 2) + ((c \div 1) % 2) = c
        BY <1>6
    <2>3. Code(s) = c
        BY <2>1, <2>2, Zenon DEF Code
    <2> QED BY <1>6, <2>3
<1> QED BY <1>5, <1>6

\* The bits of row r of the block of the string t, as MakeBlock lays them out.
DataRow(m, t, r) ==
    [b \in 1..m * 8 |-> binary_Convert(t[(r - 1) * m + (b - 1) \div 8 + 1])[((b - 1) % 8) + 1]]

LEMMA DataRowType ==
    ASSUME NEW m \in Nat \ {0}, NEW q \in Nat, NEW t \in Seq(0..255), Len(t) = q * m, NEW r \in 1..q
    PROVE  DataRow(m, t, r) \in Row(m * 8)
<1>1. [k \in 1..q |-> DataRow(m, t, k)] \in Rows(q, m * 8)
    BY BlockType, Zenon DEF DataRow
<1> QED BY <1>1, Zenon DEF Rows

\* Character i is character (i - 1) % m of row (i - 1) \div m + 1.
CharAt(m, q, i, r, f) ==
    /\ m \in Nat \ {0} /\ q \in Nat /\ i \in 1..q * m
    /\ r = (i - 1) \div m + 1 /\ f = ((i - 1) % m) * 8

\* Bit x of a row is bit b of character i.
BitAt(m, i, r, x, b) ==
    x \in 1..m * 8 /\ (r - 1) * m + (x - 1) \div 8 + 1 = i /\ ((x - 1) % 8) + 1 = b

LEMMA BitOfChar ==
    ASSUME NEW m, NEW q, NEW i, NEW r, NEW f, CharAt(m, q, i, r, f), NEW b \in 1..8
    PROVE  r \in 1..q /\ f \in Nat /\ BitAt(m, i, r, f + b, b)
<1>0. m \in Nat \ {0} /\ q \in Nat /\ i \in 1..q * m
    BY DEF CharAt
<1> DEFINE a == (i - 1) \div m
           c == (i - 1) % m
<1>1. i \in Nat /\ i >= 1
    BY <1>0
<1>2. a \in Nat /\ c \in 0..m - 1 /\ i - 1 = a * m + c
    BY <1>0, <1>1
<1>3. a + 1 \in 1..q /\ c * 8 \in 0..m * 8 - 8
    BY <1>0, RowOfChar
<1> HIDE DEF a, c
<1>4. (c * 8 + b - 1) \div 8 = c /\ (c * 8 + b - 1) % 8 = b - 1
    BY <1>0, <1>2
<1>5. ((a + 1) - 1) * m = a * m /\ a * m \in Int
    BY <1>0, <1>2
<1>6. ((a + 1) - 1) * m + (c * 8 + b - 1) \div 8 + 1 = i
    BY <1>1, <1>2, <1>4, <1>5
<1>7. c * 8 + b \in 1..m * 8 /\ c * 8 \in Nat
    BY <1>0, <1>2, <1>3
<1>8. ((c * 8 + b - 1) % 8) + 1 = b
    BY <1>4
<1>9. r = a + 1 /\ f = c * 8
    BY DEF CharAt, a, c
<1>10. BitAt(m, i, a + 1, c * 8 + b, b)
    BY <1>6, <1>7, <1>8 DEF BitAt
<1>11. a + 1 \in 1..q /\ c * 8 \in Nat
    BY <1>3, <1>7
<1> QED BY <1>9, <1>10, <1>11, Zenon

\* Eight bits behind the first f of a row that may be read past its end.
LEMMA EightFrom ==
    ASSUME NEW back \in Seq(Bit), NEW past \in Seq(Bit), NEW f \in Nat, f + 8 <= Len(back), NEW b \in 1..8
    PROVE  SubSeq(back \o past, f + 1, f + 8)[b] = back[f + b]
<1> DEFINE x == back \o past
<1>1. Len(back) \in Nat /\ Len(past) \in Nat
    BY LenProperties
<1>2. /\ x \in Seq(Bit) /\ Len(x) = Len(back) + Len(past)
      /\ \A k \in 1..Len(back) + Len(past) : x[k] = IF k <= Len(back) THEN back[k] ELSE past[k - Len(back)]
    BY ConcatProperties
<1> HIDE DEF x
<1>3. ASSUME NEW k \in 1..Len(back) PROVE x[k] = back[k]
    <2>1. k \in 1..Len(back) + Len(past) /\ k <= Len(back)
        BY <1>1
    <2> QED BY <1>2, <2>1
<1>4. f + 1 \in Int /\ f + 8 \in Int /\ f + 8 <= Len(x) /\ Len(x) \in Nat
    BY <1>1, <1>2
<1>5. ASSUME NEW k \in f + 1..f + 8 PROVE x[k] \in Bit
    <2>1. k \in 1..Len(x)
        BY <1>4
    <2> QED BY <1>2, <2>1, ElementOfSeq
<1>6. \A k \in 1..(f + 8) - (f + 1) + 1 : SubSeq(x, f + 1, f + 8)[k] = x[(f + 1) + k - 1]
    <2> DEFINE c == f + 1
               d == f + 8
    <2>1. c \in Int /\ d \in Int /\ c <= d /\ \A k \in c..d : x[k] \in Bit
        BY <1>4, <1>5
    <2> HIDE DEF c, d
    <2>2. \A k \in 1..d - c + 1 : SubSeq(x, c, d)[k] = x[c + k - 1]
        BY <2>1, SubSeqProperties
    <2> QED BY <2>2 DEF c, d
<1>7. b \in 1..(f + 8) - (f + 1) + 1 /\ (f + 1) + b - 1 = f + b
    OBVIOUS
<1>8. f + b \in 1..Len(back)
    BY <1>1
<1>9. SubSeq(x, f + 1, f + 8)[b] = back[f + b]
    BY <1>3, <1>6, <1>7, <1>8
<1> QED BY <1>9 DEF x

\* The bits of character i in its row.
CharBits(m, i, r, f, t) == \A b \in 1..8 : DataRow(m, t, r)[f + b] = binary_Convert(t[i])[b]

LEMMA DataBit ==
    ASSUME NEW m, NEW q, NEW i, NEW r, NEW f, CharAt(m, q, i, r, f), NEW t
    PROVE  CharBits(m, i, r, f, t)
<1> SUFFICES ASSUME NEW b \in 1..8
             PROVE  DataRow(m, t, r)[f + b] = binary_Convert(t[i])[b]
    BY DEF CharBits
<1> DEFINE at == f + b
<1>0. BitAt(m, i, r, at, b)
    BY BitOfChar, Zenon
<1> HIDE DEF at
<1>1. at \in 1..m * 8 /\ (r - 1) * m + (at - 1) \div 8 + 1 = i /\ ((at - 1) % 8) + 1 = b
    BY <1>0 DEF BitAt
<1>2. DataRow(m, t, r)[at] = binary_Convert(t[(r - 1) * m + (at - 1) \div 8 + 1])[((at - 1) % 8) + 1]
    BY <1>1, Zenon DEF DataRow
<1>3. DataRow(m, t, r)[at] = binary_Convert(t[i])[b]
    BY <1>1, <1>2, Zenon
<1> QED BY <1>3 DEF at

\* The character behind the first f bits of a row is printed as it was typed.
AsTyped(t, i, back, past, f) ==
    Code(SubSeq(back \o past, f + 1, f + 8)) = IF t[i] > 127 THEN 0 ELSE t[i]

\* It is if its bits came back.
SameChar(m, t, r, f, back) ==
    f + 8 <= Len(back) /\ \A b \in 1..8 : back[f + b] = DataRow(m, t, r)[f + b]

LEMMA CharBack ==
    ASSUME NEW m, NEW q, NEW i, NEW r, NEW f, CharAt(m, q, i, r, f),
           NEW t \in Seq(0..255), Len(t) = q * m, NEW back \in Seq(Bit), NEW past \in Seq(Bit),
           SameChar(m, t, r, f, back)
    PROVE  AsTyped(t, i, back, past, f)
<1> DEFINE s == SubSeq(back \o past, f + 1, f + 8)
<1>1. f \in Nat
    <2>1. 8 \in 1..8
        OBVIOUS
    <2> QED BY <2>1, BitOfChar, Zenon
<1>2. \A b \in 1..8 : s[b] = back[f + b] /\ back[f + b] = DataRow(m, t, r)[f + b]
    BY <1>1, EightFrom DEF SameChar
<1> HIDE DEF s
<1>3. \A b \in 1..8 : s[b] = binary_Convert(t[i])[b]
    <2>0. CharBits(m, i, r, f, t)
        BY DataBit, Zenon
    <2>1. \A b \in 1..8 : DataRow(m, t, r)[f + b] = binary_Convert(t[i])[b]
        BY <2>0 DEF CharBits
    <2> QED BY <1>2, <2>1, Zenon
<1>4. t[i] \in 0..255
    <2>1. i \in 1..Len(t)
        BY DEF CharAt
    <2> QED BY <2>1, ElementOfSeq
<1>5. Code(s) = IF t[i] > 127 THEN 0 ELSE t[i]
    BY <1>3, <1>4, CharCode
<1> QED BY <1>5 DEF AsTyped, s

-----------------------------------------------------------------------------
(* The frame, column by column, and the rows put together again.           *)

\* Bit i of row r is bit t of the frame.
Place(q, w, i, r, t) ==
    q \in Nat \ {0} /\ w \in Nat /\ i \in 1..w /\ r \in 1..q /\ t = (i - 1) * q + r

LEMMA PlaceOfBit ==
    ASSUME NEW q, NEW w, NEW i, NEW r, NEW t, Place(q, w, i, r, t)
    PROVE  t \in 1..q * w /\ ((t - 1) % q) + 1 = r /\ (t - 1) \div q + 1 = i
<1>0. q \in Nat \ {0} /\ w \in Nat /\ i \in 1..w /\ r \in 1..q /\ t = (i - 1) * q + r
    BY DEF Place
<1> DEFINE a == i - 1
           u == a * q + (r - 1)
<1>1. a \in Nat /\ r - 1 \in 0..q - 1 /\ a * q \in Nat
    BY <1>0
<1>2. u \in Nat /\ t - 1 = u
    BY <1>0, <1>1
<1>3. u % q = r - 1 /\ u \div q = a
    BY <1>0, <1>1
<1>4. i * q <= w * q /\ i * q = a * q + q /\ q * w = w * q /\ i * q \in Nat /\ w * q \in Nat
    BY <1>0
<1>5. t \in 1..q * w
    BY <1>0, <1>1, <1>4
<1>6. (r - 1) + 1 = r /\ (i - 1) + 1 = i
    BY <1>0
<1> HIDE DEF u
<1> QED BY <1>2, <1>3, <1>5, <1>6

LEMMA BitOfPlace ==
    ASSUME NEW q \in Nat \ {0}, NEW w \in Nat, NEW t \in 1..q * w
    PROVE  t = ((t - 1) \div q) * q + ((t - 1) % q) + 1
OBVIOUS

\* The first n bits are the ones sent, but for the toggled ones.
Damaged(bits, sent, E, n) ==
    \A t \in 1..n : bits[t] = IF t \in E THEN 1 - sent[t] ELSE sent[t]

\* Row r of a receiver of these bits.
Arrived(bits, q, w, r) == [i \in 1..w |-> bits[(i - 1) * q + r]]

\* The toggled bits of row r.
HitsOf(E, q, w, r) == {t \in E : t <= q * w /\ ((t - 1) % q) + 1 = r}

\* A row arrives as it was sent but for its toggled bits.
LEMMA ArrivedRow ==
    ASSUME NEW q \in Nat \ {0}, NEW w \in Nat \ {0}, NEW frame \in Rows(q, w), NEW bits, NEW E,
           Damaged(bits, Serialize(frame), E, q * w),
           NEW r \in 1..q, NEW i \in 1..w
    PROVE  /\ frame[r][i] \in Bit
           /\ (i - 1) * q + r \in 1..q * w
           /\ Arrived(bits, q, w, r)[i] =
                IF (i - 1) * q + r \in E THEN 1 - frame[r][i] ELSE frame[r][i]
<1> DEFINE t == (i - 1) * q + r
<1>0. Place(q, w, i, r, t)
    BY DEF Place
<1> HIDE DEF t
<1>1. t \in 1..q * w /\ ((t - 1) % q) + 1 = r /\ (t - 1) \div q + 1 = i
    BY <1>0, PlaceOfBit
<1>2. frame[r] \in Row(w) /\ 1 \in 1..q /\ frame[1] \in Row(w)
    BY DEF Rows
<1>3. frame[r][i] \in Bit
    BY <1>2 DEF Row
<1>4. Len(frame) = q /\ Len(frame[1]) = w
    BY <1>2, FunSeq DEF Rows, Row
<1>5. Serialize(frame)[t] = frame[((t - 1) % q) + 1][(t - 1) \div q + 1]
    BY <1>1, <1>4 DEF Serialize
<1>6. Serialize(frame)[t] = frame[r][i]
    BY <1>1, <1>5
<1>7. Arrived(bits, q, w, r)[i] = bits[t]
    BY DEF Arrived, t
<1>8. bits[t] = IF t \in E THEN 1 - frame[r][i] ELSE frame[r][i]
    BY <1>1, <1>6 DEF Damaged
<1> QED BY <1>1, <1>3, <1>7, <1>8 DEF t

\* At most one bit of row r is toggled, none where data bits are taken for check bits.
FewHits(E, q, n, r) ==
    Cardinality(HitsOf(E, q, Width(n), r)) <= IF Taken(n) = {} THEN 1 ELSE 0

\* The positions of the toggled bits.
Positions(E) == IsFiniteSet(E) /\ E \subseteq Nat \ {0}

\* A row with few toggled bits is one that RowBack speaks of.
LEMMA ArrivedHit ==
    ASSUME NEW q \in Nat \ {0}, NEW n, RowLength(n), NEW frame \in Rows(q, Width(n)), NEW bits, NEW E,
           Positions(E), Damaged(bits, Serialize(frame), E, q * Width(n)),
           NEW r \in 1..q, NEW row \in Row(n), frame[r] = Coded(n, row), FewHits(E, q, n, r)
    PROVE  Hit(n, row, Arrived(bits, q, Width(n), r))
<1> DEFINE w == Width(n)
           hit == Arrived(bits, q, w, r)
           code == Coded(n, row)
           H == HitsOf(E, q, w, r)
           at(i) == (i - 1) * q + r
<1>1. w \in Nat \ {0} /\ code \in Row(w)
    BY CheckFacts, CodedBits
<1>2. ASSUME NEW i \in 1..w
      PROVE  /\ frame[r][i] \in Bit /\ at(i) \in 1..q * w
             /\ hit[i] = IF at(i) \in E THEN 1 - frame[r][i] ELSE frame[r][i]
    BY <1>1, ArrivedRow
<1> HIDE DEF w
<1>3. ASSUME NEW i \in 1..w
      PROVE  at(i) \in 1..q * w /\ ((at(i) - 1) % q) + 1 = r /\ (at(i) - 1) \div q + 1 = i
    <2>1. Place(q, w, i, r, at(i))
        BY <1>1 DEF Place
    <2> HIDE DEF at
    <2> QED BY <2>1, PlaceOfBit
<1> HIDE DEF at
<1>4. hit = [i \in 1..w |-> hit[i]]
    BY DEF Arrived
<1> HIDE DEF hit
<1>5. hit \in Row(w)
    <2>1. \A i \in 1..w : hit[i] \in Bit
        BY <1>2 DEF Bit
    <2> QED BY <1>4, <2>1 DEF Row
<1>6. code = [i \in 1..w |-> code[i]]
    BY <1>1 DEF Row
<1>7. frame[r] = code
    OBVIOUS
<1> HIDE DEF code
<1>8. \A i \in 1..w : at(i) \in E <=> at(i) \in H
    BY <1>3 DEF HitsOf
<1>9. IsFiniteSet(H) /\ Cardinality(H) \in Nat /\ H \subseteq E
    <2>1. H \subseteq E
        BY DEF HitsOf
    <2> QED BY <2>1, FS_Subset, FS_CardinalityType DEF Positions
<1>10. Cardinality(H) <= IF Taken(n) = {} THEN 1 ELSE 0
    BY DEF FewHits, w
<1>11. CASE H = {}
    <2>1. \A i \in 1..w : hit[i] = code[i]
        BY <1>2, <1>7, <1>8, <1>11
    <2>2. hit = code
        BY <1>4, <1>6, <2>1
    <2> QED BY <1>5, <2>2 DEF Hit, hit, w, code
<1>12. CASE H # {}
    <2>1. Cardinality(H) # 0
        BY <1>9, <1>12, FS_EmptySet
    <2>2. Taken(n) = {} /\ Cardinality(H) = 1
        BY <1>9, <1>10, <2>1
    <2>3. PICK t : H = {t}
        BY <1>9, <2>2, FS_Singleton
    <2>4. t \in Nat \ {0} /\ t <= q * w /\ ((t - 1) % q) + 1 = r
        BY <2>3 DEF HitsOf, Positions
    <2> DEFINE e == (t - 1) \div q + 1
    <2>5. t \in 1..q * w
        BY <2>4
    <2>6. e \in 1..w /\ t = at(e)
        <3>1. ((t - 1) % q) + 1 \in 1..q /\ (t - 1) \div q + 1 \in 1..w
            BY <1>1, <2>5, RowOfBit
        <3>2. t = ((t - 1) \div q) * q + ((t - 1) % q) + 1
            BY <1>1, <2>5, BitOfPlace
        <3>3. (t - 1) \div q \in Int /\ (t - 1) % q = r - 1 /\ ((t - 1) \div q) * q \in Int
            BY <2>4
        <3>4. (e - 1) * q = ((t - 1) \div q) * q
            BY <3>3
        <3> QED BY <3>1, <3>2, <3>3, <3>4 DEF at
    <2> HIDE DEF e
    <2>7. \A i \in 1..w : at(i) \in H <=> i = e
        <3>1. \A i \in 1..w : at(i) = at(e) => i = e
            BY <1>3, <2>6
        <3> QED BY <2>3, <2>6, <3>1
    <2>8. \A i \in 1..w : hit[i] = IF i = e THEN 1 - code[i] ELSE code[i]
        BY <1>2, <1>7, <1>8, <2>7
    <2> QED BY <1>5, <2>2, <2>6, <2>8 DEF Hit, hit, w, code
<1> QED BY <1>11, <1>12


-----------------------------------------------------------------------------
(***************************************************************************)
(* What main knows of the rows, from the block to the printed string.      *)
(***************************************************************************)
Block(m, q, t) == [r \in 1..q |-> DataRow(m, t, r)]
CodedBlock(m, q, t) == [r \in 1..q |-> Coded(m * 8, DataRow(m, t, r))]
ArrivedBlock(bits, q, w) == [r \in 1..q |-> Arrived(bits, q, w, r)]
CorrectedBlock(bits, q, w) == [r \in 1..q |-> EraseCheckBits(CorrectRow(Arrived(bits, q, w, r)))]

\* The bits of a row with its check bits, and of the frame without the checksum.
Wide == Width(input.m * 8)
FrameSize == col_siz * Wide

Sent == pc \in {"transmit", "detect", "receive", "correct", "output", "printed"}

Coding ==
    /\ pc = "check_bits" => data_frame = Block(input.m, col_siz, data)
    /\ Started /\ pc # "check_bits" => data_frame = CodedBlock(input.m, col_siz, data)
    /\ pc = "append" => serialized = Serialize(data_frame)
    /\ Sent => /\ Len(serialized) = FrameSize + (Len(key) - 1)
               /\ Damaged(serialized, Serialize(data_frame), error_idx, FrameSize)
    /\ pc = "correct" => rec_frame = ArrivedBlock(serialized, col_siz, Wide)
    /\ pc = "output" => rec_frame = CorrectedBlock(serialized, col_siz, Wide)
    /\ OneErrorPerRowCorrected

RowInv == CrcInv /\ Coding

\* Rows of characters fit an int.
LEMMA RowsFit ==
    ASSUME input \in Input, input.m \in Nat \ {0}
    PROVE  RowLength(input.m * 8)
<1>1. input.m * 8 + 31 <= 2147483647 /\ input.m * 8 \in Nat \ {0}
    BY SMT, InputAssumption
<1> QED BY <1>1, SMT DEF RowLength, IntEnd

\* The check bits of the program are the ones of Coded.
LEMMA CodedIs ==
    ASSUME NEW row, row \in Row(input.m * 8), RowLength(input.m * 8)
    PROVE  FillCheckBits(InsertCheckBits(row)) = Coded(input.m * 8, row)
<1> DEFINE n == input.m * 8
<1>1. n \in Nat
    BY CheckFacts
<1>2. Len(row) = n
    BY <1>1, FunSeq DEF Row
<1>3. InsertCheckBits(row) =
        [k \in 1..n + Cardinality(PowersOfTwo \cap 1..n) |->
            IF k \in PowersOfTwo \cap 1..n THEN -1
            ELSE row[k - Cardinality({c \in PowersOfTwo \cap 1..n : c < k})]]
    BY <1>2, Zenon DEF InsertCheckBits
<1> HIDE DEF n
<1>4. InsertCheckBits(row) = Long(n, row)
    BY <1>3, Zenon DEF Long, Width, At, Before, Check
<1> QED BY <1>4, Zenon DEF Coded, n

LEMMA CodedBlockType ==
    ASSUME NEW m \in Nat \ {0}, RowLength(m * 8), NEW q \in Nat, NEW t \in Seq(0..255), Len(t) = q * m
    PROVE  /\ CodedBlock(m, q, t) \in Rows(q, Width(m * 8))
           /\ \A r \in 1..q : CodedBlock(m, q, t)[r] = Coded(m * 8, DataRow(m, t, r))
<1>1. ASSUME NEW r \in 1..q PROVE Coded(m * 8, DataRow(m, t, r)) \in Row(Width(m * 8))
    <2>1. DataRow(m, t, r) \in Row(m * 8)
        BY DataRowType
    <2> QED BY <2>1, CodedBits, Zenon
<1> QED BY <1>1, Zenon DEF CodedBlock, Rows

\* The length of the frame.
LEMMA SerializeLength ==
    ASSUME NEW q \in Nat \ {0}, NEW w \in Nat \ {0}, NEW frame, frame \in Rows(q, w)
    PROVE  Len(Serialize(frame)) = q * w
<1>1. q \in Nat /\ 1 \in 1..q /\ frame[1] \in Row(w)
    BY DEF Rows
<1>2. Len(frame) = q /\ Len(frame[1]) = w
    BY <1>1, FunSeq DEF Rows, Row
<1>3. Serialize(frame) = [t \in 1..q * w |-> frame[((t - 1) % q) + 1][(t - 1) \div q + 1]]
    BY <1>2 DEF Serialize
<1>4. q * w \in Nat
    OBVIOUS
<1> QED BY <1>3, <1>4


-----------------------------------------------------------------------------
(* A character of a row with few enough toggled bits is printed as typed.  *)

LEMMA RowOfBlock ==
    ASSUME NEW m \in Nat \ {0}, RowLength(m * 8), NEW q \in Nat \ {0}, NEW t \in Seq(0..255), Len(t) = q * m,
           NEW bits, NEW E, Positions(E),
           Damaged(bits, Serialize(CodedBlock(m, q, t)), E, q * Width(m * 8)),
           NEW r \in 1..q, FewHits(E, q, m * 8, r)
    PROVE  /\ DataRow(m, t, r) \in Row(m * 8)
           /\ Hit(m * 8, DataRow(m, t, r), Arrived(bits, q, Width(m * 8), r))
<1> DEFINE n == m * 8
           frame == CodedBlock(m, q, t)
           row == DataRow(m, t, r)
<1>1. row \in Row(n) /\ frame \in Rows(q, Width(n)) /\ frame[r] = Coded(n, row)
    BY DataRowType, CodedBlockType
<1>2. RowLength(n) /\ Damaged(bits, Serialize(frame), E, q * Width(n)) /\ FewHits(E, q, n, r)
    OBVIOUS
<1> HIDE DEF n, frame, row
<1>3. Hit(n, row, Arrived(bits, q, Width(n), r))
    BY <1>1, <1>2, ArrivedHit
<1> QED BY <1>1, <1>3 DEF n, row

LEMMA CharCorrected ==
    ASSUME NEW m \in Nat \ {0}, RowLength(m * 8), NEW q \in Nat \ {0}, NEW t \in Seq(0..255), Len(t) = q * m,
           NEW bits, NEW E, Positions(E),
           Damaged(bits, Serialize(CodedBlock(m, q, t)), E, q * Width(m * 8)),
           NEW i, NEW r, NEW f, CharAt(m, q, i, r, f),
           FewHits(E, q, m * 8, r), Survives(m * 8, f + 8),
           NEW back \in Seq(Bit), NEW past \in Seq(Bit),
           back = EraseCheckBits(CorrectRow(Arrived(bits, q, Width(m * 8), r)))
    PROVE  AsTyped(t, i, back, past, f)
<1> DEFINE n == m * 8
           row == DataRow(m, t, r)
           hit == Arrived(bits, q, Width(n), r)
<1>1. r \in 1..q /\ f \in Nat /\ \A b \in 1..8 : f + b \in 1..n
    <2>1. ASSUME NEW b \in 1..8 PROVE r \in 1..q /\ f \in Nat /\ BitAt(m, i, r, f + b, b)
        BY BitOfChar, Zenon
    <2>2. 8 \in 1..8
        OBVIOUS
    <2>3. ASSUME NEW b \in 1..8 PROVE f + b \in 1..n
        BY <2>1 DEF BitAt
    <2> QED BY <2>1, <2>2, <2>3
<1>2. row \in Row(n) /\ Hit(n, row, hit) /\ RowLength(n)
    BY <1>1, RowOfBlock
<1>3. ASSUME NEW b \in 1..8 PROVE Survives(n, f + b)
    <2>1. n \in Nat /\ Width(n) \in Nat /\ Cardinality(Check(n)) \in Nat
        BY <1>2, CheckFacts
    <2>2. ASSUME NEW p \in Taken(n) PROVE p \in Nat /\ (f + 8) + Cardinality(Check(n)) < p
        <3>1. p \in n + 1..Width(n)
            BY DEF Taken
        <3>2. (f + 8) + Cardinality(Check(n)) < p
            BY DEF Survives
        <3> HIDE DEF n
        <3> QED BY <2>1, <3>1, <3>2
    <2> HIDE DEF n
    <2>3. ASSUME NEW p \in Taken(n) PROVE (f + b) + Cardinality(Check(n)) < p
        BY <1>1, <2>1, <2>2
    <2> QED BY <2>3 DEF Survives
<1>4. back = EraseCheckBits(CorrectRow(hit))
    OBVIOUS
<1> HIDE DEF n, row, hit
<1>5. ASSUME NEW b \in 1..8 PROVE back[f + b] = row[f + b] /\ Len(back) >= f + b
    <2> DEFINE j == f + b
    <2>1. j \in 1..n /\ Survives(n, j)
        BY <1>1, <1>3
    <2> HIDE DEF j
    <2>2. EraseCheckBits(CorrectRow(hit))[j] = row[j] /\ Len(EraseCheckBits(CorrectRow(hit))) >= j
        BY <1>2, <2>1, RowBack
    <2> QED BY <1>4, <2>2 DEF j
<1>6. f + 8 <= Len(back)
    <2>1. Len(back) >= f + 8
        BY <1>5
    <2> QED BY <1>1, <2>1, LenProperties
<1>7. SameChar(m, t, r, f, back)
    BY <1>5, <1>6 DEF row, SameChar
<1>8. q \in Nat
    OBVIOUS
<1> QED BY <1>7, <1>8, CharBack, Zenon


-----------------------------------------------------------------------------
(* Every section of main preserves Coding.                                 *)

LEMMA Geometry ==
    ASSUME CrcInv, Started
    PROVE  /\ input.m \in Nat \ {0} /\ col_siz \in Nat \ {0}
           /\ data \in Seq(0..255) /\ Len(data) = col_siz * input.m
           /\ RowLength(input.m * 8) /\ Wide \in Nat \ {0} /\ FrameSize \in Nat
           /\ CodedBlock(input.m, col_siz, data) \in Rows(col_siz, Wide)
<1>1. /\ input.m \in Nat \ {0} /\ col_siz \in Nat \ {0} /\ Len(data) = col_siz * input.m
      /\ data \in Seq(0..255) /\ input \in Input
    BY DEF CrcInv, Blocked, Typed
<1>2. RowLength(input.m * 8)
    BY <1>1, RowsFit
<1>3. Wide \in Nat \ {0}
    BY <1>2, CheckFacts DEF Wide
<1>4. FrameSize \in Nat
    BY <1>1, <1>3 DEF FrameSize
<1>5. CodedBlock(input.m, col_siz, data) \in Rows(col_siz, Wide)
    BY <1>1, <1>2, CodedBlockType DEF Wide
<1> QED BY <1>1, <1>2, <1>3, <1>4, <1>5

LEMMA SameSize ==
    ASSUME UNCHANGED <<input, data>>
    PROVE  /\ col_siz' = col_siz /\ Wide' = Wide /\ FrameSize' = FrameSize
           /\ key' = key /\ input' = input /\ data' = data
BY DEF col_siz, Wide, FrameSize, key

LEMMA InitCoding ==
    ASSUME Init
    PROVE  Coding
BY DEF Init, Coding, Started, Sent, OneErrorPerRowCorrected

LEMMA InvalidCoding ==
    ASSUME InvalidArgument
    PROVE  Coding'
BY DEF InvalidArgument, Coding, Started, Sent, OneErrorPerRowCorrected

LEMMA MakeBlockCoding ==
    ASSUME MakeBlock
    PROVE  Coding'
<1>1. /\ pc' = "check_bits" /\ input' = input
      /\ data_frame' = [r \in 1..Len(data') \div input.m |->
            [b \in 1..input.m * 8 |->
               binary_Convert(data'[(r - 1) * input.m + (b - 1) \div 8 + 1])[((b - 1) % 8) + 1]]]
    BY DEF MakeBlock
<1>3. data_frame' = Block(input'.m, col_siz', data')
    BY <1>1, Zenon DEF Block, DataRow, col_siz
<1> QED BY <1>1, <1>3 DEF Coding, Started, Sent, OneErrorPerRowCorrected

LEMMA AddCheckBitsCoding ==
    ASSUME CrcInv, Coding, AddCheckBits
    PROVE  Coding'
<1>1. /\ pc = "check_bits" /\ pc' = "serialize"
      /\ data_frame' = [r \in DOMAIN data_frame |-> FillCheckBits(InsertCheckBits(data_frame[r]))]
      /\ UNCHANGED <<input, data>>
    BY DEF AddCheckBits
<1>2. /\ input.m \in Nat \ {0} /\ col_siz \in Nat \ {0}
      /\ data \in Seq(0..255) /\ Len(data) = col_siz * input.m /\ RowLength(input.m * 8)
    BY <1>1, Geometry DEF Started
<1>3. data_frame = Block(input.m, col_siz, data)
    BY <1>1 DEF Coding
<1>4. DOMAIN data_frame = 1..col_siz /\ \A r \in 1..col_siz : data_frame[r] = DataRow(input.m, data, r)
    BY <1>3, Zenon DEF Block
<1>5. ASSUME NEW r \in 1..col_siz
      PROVE  FillCheckBits(InsertCheckBits(data_frame[r])) = Coded(input.m * 8, DataRow(input.m, data, r))
    <2>1. DataRow(input.m, data, r) \in Row(input.m * 8)
        BY <1>2, DataRowType
    <2> QED BY <1>2, <1>4, <2>1, CodedIs
<1>6. data_frame' = CodedBlock(input.m, col_siz, data)
    BY <1>1, <1>4, <1>5, Zenon DEF CodedBlock
<1> QED BY <1>1, <1>6, SameSize DEF Coding, Started, Sent, OneErrorPerRowCorrected

LEMMA SerializeCoding ==
    ASSUME Coding, SerializeBlock
    PROVE  Coding'
<1>1. /\ pc = "serialize" /\ pc' = "append" /\ serialized' = Serialize(data_frame)
      /\ UNCHANGED <<input, data, data_frame>>
    BY DEF SerializeBlock
<1>2. data_frame = CodedBlock(input.m, col_siz, data)
    BY <1>1 DEF Coding, Started
<1> QED BY <1>1, <1>2, SameSize DEF Coding, Started, Sent, OneErrorPerRowCorrected

\* A step that leaves the rows and the frame alone, before they are rebuilt.
LEMMA FrameKept ==
    ASSUME Coding, UNCHANGED <<input, data, data_frame, serialized, error_idx>>,
           Started, pc # "check_bits", pc' \in {"append", "transmit", "detect", "receive"},
           Sent' = Sent, pc' = "append" <=> pc = "append"
    PROVE  Coding'
<1>1. /\ data_frame = CodedBlock(input.m, col_siz, data)
      /\ pc = "append" => serialized = Serialize(data_frame)
      /\ Sent => /\ Len(serialized) = FrameSize + (Len(key) - 1)
                 /\ Damaged(serialized, Serialize(data_frame), error_idx, FrameSize)
    BY DEF Coding
<1>2. /\ data_frame' = data_frame /\ serialized' = serialized /\ error_idx' = error_idx
      /\ pc' # "check_bits" /\ pc' # "correct" /\ pc' # "output" /\ pc' # "printed"
    OBVIOUS
<1> QED BY <1>1, <1>2, SameSize DEF Coding, OneErrorPerRowCorrected

LEMMA BringDownCoding ==
    ASSUME Coding, BringDown
    PROVE  Coding'
<1>1. pc \in {"append", "detect"} /\ pc' = pc /\ UNCHANGED <<input, data, data_frame, serialized, error_idx>>
    BY DEF BringDown
<1> QED BY <1>1, FrameKept DEF Started, Sent

LEMMA ArriveCoding ==
    ASSUME Coding, Arrive
    PROVE  Coding'
<1>1. /\ pc = "transmit" /\ pc' = "detect"
      /\ UNCHANGED <<input, data, data_frame, serialized, error_idx>>
    BY DEF Arrive
<1> QED BY <1>1, FrameKept DEF Started, Sent

LEMMA DetectCoding ==
    ASSUME Coding, Detect
    PROVE  Coding'
<1>1. /\ pc = "detect" /\ pc' = "receive"
      /\ UNCHANGED <<input, data, data_frame, serialized, error_idx>>
    BY DEF Detect
<1> QED BY <1>1, FrameKept DEF Started, Sent


LEMMA AppendCoding ==
    ASSUME CrcInv, Coding, AppendChecksum
    PROVE  Coding'
<1> DEFINE n == FrameSize
           rest == Remainder
<1>1. /\ pc = "append" /\ pc' = "transmit" /\ serialized' = serialized \o rest
      /\ UNCHANGED <<input, data, data_frame, error_idx>>
    BY DEF AppendChecksum
<1>2. /\ LeadingOne(key) /\ Len(key) \in Nat \ {0}
    BY Now DEF LeadingOne
<1>3. serialized \in Seq(Bit) /\ error_idx = {}
    BY <1>1 DEF CrcInv, Typed, Wire
<1>4. rest \in Seq(Bit) /\ Len(rest) = Len(key) - 1
    <2>1. division.temp \in Seq(Bit) /\ Len(division.temp) = Len(key)
        BY <1>1 DEF CrcInv, Dividing, InDivision
    <2>2. rest = Low(division.temp) /\ rest \in Seq(Bit) /\ Len(rest) = Len(key) - 1
        BY <1>2, <2>1, RemainderProps
    <2> QED BY <2>2
<1> HIDE DEF rest
<1>5. data_frame = CodedBlock(input.m, col_siz, data) /\ serialized = Serialize(data_frame)
    BY <1>1 DEF Coding, Started
<1>6. n \in Nat /\ Len(serialized) = n
    <2>1. /\ col_siz \in Nat \ {0} /\ Wide \in Nat \ {0} /\ FrameSize \in Nat
          /\ CodedBlock(input.m, col_siz, data) \in Rows(col_siz, Wide)
        BY <1>1, Geometry DEF Started
    <2> QED BY <1>5, <2>1, SerializeLength DEF FrameSize
<1> HIDE DEF n
<1> DEFINE d == Len(key) - 1
<1>7. /\ Len(serialized') = n + d
      /\ \A t \in 1..n + d : serialized'[t] = IF t <= n THEN serialized[t] ELSE rest[t - n]
    <2>1. Len(rest) = d
        BY <1>4
    <2> HIDE DEF d
    <2> QED BY <1>1, <1>3, <1>4, <1>6, <2>1, ConcatProperties
<1>8. Damaged(serialized', serialized, {}, n)
    <2>1. \A t \in 1..n : t \in 1..n + d /\ t <= n
        BY <1>2, <1>6
    <2> QED BY <1>7, <2>1 DEF Damaged
<1>9. Damaged(serialized', Serialize(data_frame'), error_idx', FrameSize')
    BY <1>1, <1>3, <1>5, <1>8, SameSize DEF n
<1> QED BY <1>1, <1>5, <1>7, <1>9, SameSize DEF Coding, Started, Sent, OneErrorPerRowCorrected, n

LEMMA TransmitCoding ==
    ASSUME CrcInv, Coding, NEW toggle \in BOOLEAN, Transmit(toggle)
    PROVE  Coding'
<1> DEFINE i == Len(received) + 1
           bit == IF toggle THEN 1 - serialized[i] ELSE serialized[i]
           sent == Serialize(data_frame)
           n == FrameSize
<1>1. /\ pc = "transmit" /\ pc' = "transmit" /\ Len(received) < Len(serialized)
      /\ serialized' = [serialized EXCEPT ![i] = bit]
      /\ error_idx' = IF toggle THEN error_idx \cup {i} ELSE error_idx
      /\ UNCHANGED <<input, data, data_frame>>
    BY DEF Transmit
<1>2. /\ serialized \in Seq(Bit) /\ Len(received) \in Nat /\ Len(serialized) \in Nat
      /\ error_idx \subseteq 1..Len(received)
    BY <1>1, Now DEF CrcInv, Typed, Wire, OnTheWay
<1>3. /\ data_frame = CodedBlock(input.m, col_siz, data)
      /\ Len(serialized) = n + (Len(key) - 1) /\ Damaged(serialized, sent, error_idx, n)
    BY <1>1 DEF Coding, Started, Sent
<1>4. n \in Nat /\ n <= Len(serialized)
    <2>1. n \in Nat
        BY <1>1, Geometry DEF Started
    <2>2. Len(key) \in Nat \ {0}
        BY Now DEF LeadingOne
    <2> HIDE DEF n
    <2> QED BY <1>3, <2>1, <2>2
<1>5. DOMAIN serialized = 1..Len(serialized) /\ i \in 1..Len(serialized) /\ i \notin error_idx
    BY <1>1, <1>2
<1> HIDE DEF i, n, sent
<1>6. \A t \in 1..Len(serialized) : serialized'[t] = IF t = i THEN bit ELSE serialized[t]
    BY <1>1, <1>5
<1>7. Len(serialized') = Len(serialized)
    <2>1. DOMAIN serialized' = 1..Len(serialized)
        BY <1>1, <1>5
    <2>2. serialized' \in Seq(Bit)
        <3>1. CrcInv'
            BY TransmitInv
        <3> QED BY <3>1 DEF CrcInv, Typed
    <2> QED BY <1>2, <2>1, <2>2, LenProperties
<1>8. Damaged(serialized', sent, error_idx', n)
    <2>1. ASSUME NEW t \in 1..n
          PROVE  serialized'[t] = IF t \in error_idx' THEN 1 - sent[t] ELSE sent[t]
        <3>1. t \in 1..Len(serialized) /\ serialized[t] = IF t \in error_idx THEN 1 - sent[t] ELSE sent[t]
            BY <1>2, <1>3, <1>4 DEF Damaged
        <3>2. serialized'[t] = IF t = i THEN bit ELSE serialized[t]
            BY <1>6, <3>1
        <3>3. CASE toggle
            BY <1>1, <1>5, <3>1, <3>2, <3>3
        <3>4. CASE ~toggle
            BY <1>1, <1>5, <3>1, <3>2, <3>4
        <3> QED BY <3>3, <3>4
    <2> QED BY <2>1 DEF Damaged
<1>9. Damaged(serialized', Serialize(data_frame'), error_idx', FrameSize')
    BY <1>1, <1>8, SameSize DEF n, sent
<1> QED BY <1>1, <1>3, <1>7, <1>9, SameSize DEF Coding, Started, Sent, OneErrorPerRowCorrected, n

LEMMA RemoveCoding ==
    ASSUME CrcInv, Coding, RemoveChecksum
    PROVE  Coding'
<1> DEFINE q == col_siz
           w == Wide
           n == FrameSize
           bits == received'
<1>1. /\ pc = "receive" /\ pc' = "correct"
      /\ bits = SubSeq(received, 1, Len(received) - (Len(key) - 1))
      /\ rec_frame' = Deserialize(bits, q)
      /\ UNCHANGED <<input, data, data_frame, serialized, error_idx>>
    BY DEF RemoveChecksum
<1>2. /\ data_frame = CodedBlock(input.m, q, data)
      /\ Len(serialized) = n + (Len(key) - 1) /\ Damaged(serialized, Serialize(data_frame), error_idx, n)
    BY <1>1 DEF Coding, Started, Sent
<1>3. received = serialized /\ serialized \in Seq(Bit) /\ Len(key) \in Nat \ {0}
    BY <1>1, Now DEF CrcInv, Wire, Typed, LeadingOne
<1>4. q \in Nat \ {0} /\ w \in Nat \ {0} /\ n \in Nat /\ n = q * w
    BY <1>1, Geometry DEF Started, FrameSize
<1> HIDE DEF n, q, w
<1>5. Len(received) - (Len(key) - 1) = n /\ n <= Len(serialized) /\ Len(serialized) \in Nat
    BY <1>2, <1>3, <1>4
<1>6. Len(bits) = n /\ \A t \in 1..n : bits[t] = serialized[t]
    <2>1. \A t \in 1..n : t \in 1..Len(serialized) /\ 1 + t - 1 = t
        BY <1>4, <1>5
    <2>2. \A t \in 1..n : serialized[t] \in Bit
        BY <1>3, <2>1, ElementOfSeq
    <2>3. bits = SubSeq(serialized, 1, n)
        BY <1>1, <1>3, <1>5
    <2> HIDE DEF bits
    <2>4. Len(bits) = n
        BY <1>4, <2>2, <2>3, SubSeqProperties
    <2>5. CASE n = 0
        BY <2>4, <2>5
    <2>6. CASE n >= 1
        <3>1. \A t \in 1..(n - 1 + 1) : bits[t] = serialized[1 + t - 1]
            BY <1>4, <2>2, <2>3, <2>6, SubSeqProperties
        <3>2. n - 1 + 1 = n
            BY <1>4
        <3> QED BY <2>1, <2>4, <3>1, <3>2
    <2> QED BY <1>4, <2>5, <2>6
<1>7. n \div q = w
    BY <1>4
<1>8. Deserialize(bits, q) = [r \in 1..q |-> [i \in 1..w |-> bits[(i - 1) * q + r]]]
    BY <1>6, <1>7, Zenon DEF Deserialize
<1>9. ASSUME NEW r \in 1..q, NEW i \in 1..w
      PROVE  bits[(i - 1) * q + r] = serialized[(i - 1) * q + r]
    <2> DEFINE t == (i - 1) * q + r
    <2>1. Place(q, w, i, r, t)
        BY <1>4 DEF Place
    <2> HIDE DEF t
    <2>2. t \in 1..n
        BY <1>4, <2>1, PlaceOfBit
    <2>3. bits[t] = serialized[t]
        BY <1>6, <2>2
    <2> QED BY <2>3 DEF t
<1>10. ASSUME NEW r \in 1..q
       PROVE  [i \in 1..w |-> bits[(i - 1) * q + r]] = Arrived(serialized, q, w, r)
    BY <1>9 DEF Arrived
<1>11. rec_frame' = ArrivedBlock(serialized, q, w)
    BY <1>1, <1>8, <1>10, Zenon DEF ArrivedBlock
<1> QED BY <1>1, <1>2, <1>11, SameSize DEF Coding, Started, Sent, OneErrorPerRowCorrected, n, q, w

LEMMA CorrectCoding ==
    ASSUME CrcInv, Coding, Correct
    PROVE  Coding'
<1>1. /\ pc = "correct" /\ pc' = "output"
      /\ rec_frame' = [r \in DOMAIN rec_frame |-> EraseCheckBits(CorrectRow(rec_frame[r]))]
      /\ UNCHANGED <<input, data, data_frame, serialized, error_idx>>
    BY DEF Correct
<1>2. /\ data_frame = CodedBlock(input.m, col_siz, data)
      /\ Len(serialized) = FrameSize + (Len(key) - 1)
      /\ Damaged(serialized, Serialize(data_frame), error_idx, FrameSize)
      /\ rec_frame = ArrivedBlock(serialized, col_siz, Wide)
    BY <1>1 DEF Coding, Started, Sent
<1>3. /\ DOMAIN rec_frame = 1..col_siz
      /\ \A r \in 1..col_siz : rec_frame[r] = Arrived(serialized, col_siz, Wide, r)
    BY <1>2, Zenon DEF ArrivedBlock
<1>4. rec_frame' = CorrectedBlock(serialized, col_siz, Wide)
    BY <1>1, <1>3, Zenon DEF CorrectedBlock
<1> QED BY <1>1, <1>2, <1>4, SameSize DEF Coding, Started, Sent, OneErrorPerRowCorrected


\* The bits read past the end of a row.
LEMMA PastBits ==
    ASSUME NEW n \in Int, NEW past, past \in [1..n -> Bit]
    PROVE  past \in Seq(Bit)
<1>1. CASE n >= 0
    BY <1>1, FunSeq
<1>2. CASE n < 0
    <2>1. 1..n = 1..0
        BY <1>2
    <2> QED BY <2>1, FunSeq
<1> QED BY <1>1, <1>2

\* The conditions of the property are those of CharCorrected.
LEMMA AsPromised ==
    ASSUME CrcInv, Coding, pc = "output", NEW i \in DOMAIN data, Kept(i),
           Cardinality(RowErrors((i - 1) \div input.m + 1)) <= (IF TakenForCheckBits = {} THEN 1 ELSE 0)
    PROVE  /\ CharAt(input.m, col_siz, i, (i - 1) \div input.m + 1, ((i - 1) % input.m) * 8)
           /\ FewHits(error_idx, col_siz, input.m * 8, (i - 1) \div input.m + 1)
           /\ Survives(input.m * 8, ((i - 1) % input.m) * 8 + 8)
           /\ Positions(error_idx)
<1> DEFINE m == input.m
           q == col_siz
           n == input.m * 8
           r == (i - 1) \div input.m + 1
           f == ((i - 1) % input.m) * 8
<1>1. /\ m \in Nat \ {0} /\ q \in Nat \ {0} /\ data \in Seq(0..255) /\ Len(data) = q * m
      /\ RowLength(n) /\ Wide \in Nat \ {0} /\ FrameSize \in Nat
      /\ CodedBlock(m, q, data) \in Rows(q, Wide)
    BY Geometry DEF Started
<1>2. /\ data_frame = CodedBlock(m, q, data)
      /\ Len(serialized) = FrameSize + (Len(key) - 1)
    BY DEF Coding, Started, Sent
<1>3. Len(key) \in Nat \ {0} /\ Len(received) \in Nat /\ error_idx \subseteq 1..Len(received) + Len(key)
    BY Now DEF LeadingOne, CrcInv, Typed
<1>4. CharAt(m, q, i, r, f)
    <2>1. q \in Nat /\ i \in 1..q * m
        BY <1>1, LenProperties
    <2> QED BY <1>1, <2>1 DEF CharAt
<1>5. Positions(error_idx)
    <2>1. IsFiniteSet(1..Len(received) + Len(key))
        BY <1>3, FS_Interval
    <2>2. IsFiniteSet(error_idx)
        BY <1>3, <2>1, FS_Subset
    <2>3. error_idx \subseteq Nat \ {0}
        BY <1>3
    <2> QED BY <2>2, <2>3 DEF Positions
<1>6. Len(data_frame[1]) = Wide
    <2>1. data_frame[1] \in Row(Wide)
        BY <1>1, <1>2 DEF Rows
    <2> QED BY <1>1, <2>1, FunSeq DEF Row
<1>7. TakenForCheckBits = Taken(n)
    BY <1>6 DEF TakenForCheckBits, Taken, Wide
<1>8. RowErrors(r) = HitsOf(error_idx, q, Wide, r)
    <2>1. Len(serialized) - (Len(key) - 1) = q * Wide
        <3>1. FrameSize = q * Wide
            BY DEF FrameSize
        <3> QED BY <1>1, <1>2, <1>3, <3>1
    <2> QED BY <2>1, Zenon DEF RowErrors, HitsOf
<1>9. FewHits(error_idx, q, n, r)
    <2>1. Cardinality(RowErrors(r)) <= (IF TakenForCheckBits = {} THEN 1 ELSE 0)
        OBVIOUS
    <2> QED BY <1>7, <1>8, <2>1 DEF FewHits, Wide
<1>10. Survives(n, f + 8)
    BY <1>7 DEF Kept, Survives, Check
<1> QED BY <1>4, <1>5, <1>9, <1>10

LEMMA OutputCoding ==
    ASSUME CrcInv, Coding, Output
    PROVE  Coding'
<1> DEFINE m == input.m
           q == col_siz
           w == Wide
           row(i) == (i - 1) \div m + 1
           from(i) == ((i - 1) % m) * 8
<1>1. /\ pc = "output" /\ pc' = "printed"
      /\ UNCHANGED <<input, data, data_frame, serialized, error_idx, received, rec_frame>>
    BY DEF Output
<1>2. PICK past \in [DOMAIN rec_frame -> [1..m * 8 - Len(rec_frame[1]) -> {0, 1}]] :
          rec_data' = [i \in DOMAIN data |->
             Code(SubSeq(rec_frame[row(i)] \o past[row(i)], from(i) + 1, from(i) + 8))]
    BY Zenon DEF Output
<1>3. /\ m \in Nat \ {0} /\ q \in Nat \ {0} /\ data \in Seq(0..255) /\ Len(data) = q * m
      /\ RowLength(m * 8)
    BY <1>1, Geometry DEF Started
<1>4. /\ data_frame = CodedBlock(m, q, data)
      /\ Len(serialized) = FrameSize + (Len(key) - 1)
      /\ Damaged(serialized, Serialize(data_frame), error_idx, FrameSize)
      /\ rec_frame = CorrectedBlock(serialized, q, w)
    BY <1>1 DEF Coding, Started, Sent
<1>5. Damaged(serialized, Serialize(CodedBlock(m, q, data)), error_idx, q * Width(m * 8))
    BY <1>4 DEF FrameSize, Wide
<1>6. ASSUME NEW r \in 1..q
      PROVE  /\ rec_frame[r] \in Seq(Bit) /\ past[r] \in Seq(Bit)
             /\ rec_frame[r] = EraseCheckBits(CorrectRow(Arrived(serialized, q, Width(m * 8), r)))
    <2>1. PICK v \in Nat : rec_frame \in Rows(q, v)
        BY <1>1 DEF CrcInv, Blocked, Rebuilt
    <2>2. DOMAIN rec_frame = 1..q /\ rec_frame[r] \in Row(v) /\ rec_frame[1] \in Row(v)
        BY <1>3, <2>1 DEF Rows
    <2>3. rec_frame[r] \in Seq(Bit) /\ Len(rec_frame[1]) = v
        BY <2>2, FunSeq DEF Row
    <2>4. m * 8 - v \in Int /\ past[r] \in [1..m * 8 - v -> Bit]
        BY <1>2, <1>3, <2>2, <2>3 DEF Bit
    <2>5. past[r] \in Seq(Bit)
        BY <2>4, PastBits
    <2> QED BY <1>4, <2>3, <2>5 DEF CorrectedBlock, Wide
<1>7. ASSUME NEW i \in DOMAIN data, Kept(i),
             Cardinality(RowErrors(row(i))) <= (IF TakenForCheckBits = {} THEN 1 ELSE 0)
      PROVE  rec_data'[i] = IF data[i] > 127 THEN 0 ELSE data[i]
    <2> DEFINE r == row(i)
               f == from(i)
    <2>1. /\ CharAt(m, q, i, r, f) /\ FewHits(error_idx, q, m * 8, r)
          /\ Survives(m * 8, f + 8) /\ Positions(error_idx)
        BY <1>1, <1>7, AsPromised
    <2>2. rec_data'[i] = Code(SubSeq(rec_frame[r] \o past[r], f + 1, f + 8))
        BY <1>2
    <2> HIDE DEF r, f
    <2>3. r \in 1..q
        <3>1. 1 \in 1..8
            OBVIOUS
        <3> QED BY <2>1, <3>1, BitOfChar, Zenon
    <2> HIDE DEF m, q
    <2>4. AsTyped(data, i, rec_frame[r], past[r], f)
        BY <1>3, <1>5, <1>6, <2>1, <2>3, CharCorrected
    <2> QED BY <2>2, <2>4 DEF AsTyped
<1>8. OneErrorPerRowCorrected'
    <2>1. /\ data' = data /\ error_idx' = error_idx /\ serialized' = serialized /\ data_frame' = data_frame
          /\ input' = input /\ col_siz' = col_siz /\ key' = key
        BY <1>1, SameSize
    <2>2. TakenForCheckBits' = TakenForCheckBits
        BY <2>1 DEF TakenForCheckBits
    <2>3. \A i \in DOMAIN data : Kept(i)' = Kept(i) /\ RowErrors(row(i))' = RowErrors(row(i))
        BY <2>1, <2>2 DEF Kept, RowErrors
    <2> QED BY <1>7, <2>1, <2>2, <2>3 DEF OneErrorPerRowCorrected
<1> QED BY <1>1, <1>4, <1>8, SameSize DEF Coding, Started, Sent

LEMMA StutterCoding ==
    ASSUME Coding, UNCHANGED vars
    PROVE  Coding'
<1>1. /\ UNCHANGED <<input, data>> /\ pc' = pc /\ data_frame' = data_frame /\ serialized' = serialized
      /\ error_idx' = error_idx /\ rec_frame' = rec_frame /\ rec_data' = rec_data
    BY DEF vars
<1>2. OneErrorPerRowCorrected'
    BY <1>1, SameSize DEF Coding, OneErrorPerRowCorrected, Kept, RowErrors, TakenForCheckBits
<1> QED BY <1>1, <1>2, SameSize DEF Coding, Started, Sent

\* What main knows of the rows holds for every input, polynomial and number of toggled bits.
THEOREM CodingInvariant == Spec => [](CrcInv /\ Coding)
<1>1. CrcInv /\ Coding /\ [Next]_vars => Coding'
    <2> SUFFICES ASSUME CrcInv, Coding, [Next]_vars PROVE Coding'
        OBVIOUS
    <2>1. CASE InvalidArgument
        BY <2>1, InvalidCoding
    <2>2. CASE MakeBlock
        BY <2>2, MakeBlockCoding
    <2>3. CASE AddCheckBits
        BY <2>3, AddCheckBitsCoding
    <2>4. CASE SerializeBlock
        BY <2>4, SerializeCoding
    <2>5. CASE BringDown
        BY <2>5, BringDownCoding
    <2>6. CASE AppendChecksum
        BY <2>6, AppendCoding
    <2>7. CASE \E toggle \in BOOLEAN : Transmit(toggle)
        BY <2>7, TransmitCoding
    <2>8. CASE Arrive
        BY <2>8, ArriveCoding
    <2>9. CASE Detect
        BY <2>9, DetectCoding
    <2>10. CASE RemoveChecksum
        BY <2>10, RemoveCoding
    <2>11. CASE Correct
        BY <2>11, CorrectCoding
    <2>12. CASE Output
        BY <2>12, OutputCoding
    <2>13. CASE UNCHANGED vars
        BY <2>13, StutterCoding
    <2> QED
        BY <2>1, <2>2, <2>3, <2>4, <2>5, <2>6, <2>7, <2>8, <2>9, <2>10, <2>11, <2>12, <2>13 DEF Next
<1>2. Init => Coding
    BY InitCoding
<1> QED BY <1>1, <1>2, CrcInvariant, PTL DEF Spec

\* Whatever is typed: the characters of a row with at most one bit error are printed as they were typed.
THEOREM SingleErrorsCorrected == Spec => []OneErrorPerRowCorrected
<1>1. Coding => OneErrorPerRowCorrected
    BY DEF Coding
<1> QED BY <1>1, CodingInvariant, PTL
=============================================================================
