---------------------------- MODULE ShelfProofs ----------------------------
(***************************************************************************)
(* Proofs about Keys and Shelf for any radix, any width of keys, any       *)
(* numbers used as keys, any page size and any number of concurrent        *)
(* writes: the conversions of keys and Next, the order of bytes, that      *)
(* Range, Iterate and Empty give what the shelf holds on all three stores, *)
(* and at which edges they fail.                                           *)
(*                                                                         *)
(* The digits of a number and the number they denote are recursive         *)
(* functions; what they compute is shown by induction (module Induction).  *)
(* ShelfInv says of Iterate and Empty that every key of the shelf is at or *)
(* after the cursor or was delivered, and on Redis that every key present  *)
(* all along is still to be scanned, in the page or delivered.  RangeInv   *)
(* says of Range where the cursor of bbolt and Badger and the page of      *)
(* Redis are between the bounds, by the numbers of the keys; it leaves out *)
(* the Ranges of Redis with to before from.                                *)
(***************************************************************************)
EXTENDS Shelf, Induction, SequenceTheorems, FiniteSetTheorems, TLAPS

Str == Seq(Nat)

-----------------------------------------------------------------------------
(* Numbers and their digits. *)

\* Quotient and remainder.
LEMMA DivMod ==
    ASSUME NEW x \in Nat, NEW b \in Nat \ {0}
    PROVE  /\ x \div b \in Nat /\ x % b \in 0..(b - 1)
           /\ (x \div b) * b + (x % b) = x
OBVIOUS

\* Dividing keeps the order.
LEMMA DivMonotone ==
    ASSUME NEW x \in Nat, NEW y \in Nat, NEW b \in Nat \ {0}, x <= y
    PROVE  x \div b <= y \div b
OBVIOUS

\* Of two numbers with the same quotient the smaller has the smaller remainder.
LEMMA DivEqual ==
    ASSUME NEW x \in Nat, NEW y \in Nat, NEW b \in Nat \ {0}, x < y, x \div b = y \div b
    PROVE  x % b < y % b
<1>1. (x \div b) * b + (x % b) = x /\ (y \div b) * b + (y % b) = y
  BY DivMod
<1>2. (x \div b) * b = (y \div b) * b /\ (x \div b) * b \in Nat
  <2>1. x \div b \in Nat
    BY DivMod
  <2>2. \A q \in Nat : q * b \in Nat
    OBVIOUS
  <2> QED  BY <2>1, <2>2
<1>3. x % b \in Nat /\ y % b \in Nat
  BY DivMod
<1> QED  BY <1>1, <1>2, <1>3

\* The recursive function Shifted exists: it divides once per place.
LEMMA ShiftedValues ==
    ASSUME NEW n \in Nat, NEW radix \in Nat \ {0}
    PROVE  /\ Shifted(n, radix) \in [Nat -> Nat]
           /\ Shifted(n, radix)[0] = n
           /\ \A i \in Nat : Shifted(n, radix)[i + 1] = Shifted(n, radix)[i] \div radix
<1> DEFINE h == [i \in Nat |-> [x \in Nat |-> x \div radix]]
           Loop(f) == f = [i \in Nat |-> IF i = 0 THEN n ELSE f[i - 1] \div radix]
           g == CHOOSE f : Loop(f)
<1>1. h \in [Nat -> [Nat -> Nat]]
  OBVIOUS
<1>2. PICK f : Iterates(f, Nat, n, h)
  <2> HIDE DEF h
  <2> QED  BY <1>1, Recursion
<1>3. Loop(f)
  <2>1. ASSUME NEW i \in Nat  PROVE f[i] = IF i = 0 THEN n ELSE f[i - 1] \div radix
    <3>1. CASE i # 0
      <4>1. i - 1 \in Nat /\ (i - 1) + 1 = i
        BY <3>1
      <4>2. f[i] = h[i - 1][f[i - 1]]
        BY <1>2, <4>1 DEF Iterates
      <4>3. f[i - 1] \in Nat
        BY <1>2, <4>1 DEF Iterates
      <4> QED  BY <3>1, <4>1, <4>2, <4>3
    <3> QED  BY <1>2, <3>1 DEF Iterates
  <2>2. f = [i \in Nat |-> f[i]]
    BY <1>2 DEF Iterates
  <2> QED  BY <2>1, <2>2
<1>4. Loop(g)
  <2> HIDE DEF Loop
  <2> QED  BY <1>3
<1>5. Shifted(n, radix) = g
  BY DEF Shifted
<1> HIDE DEF g
<1>6. g[0] = n /\ \A i \in Nat : g[i + 1] = g[i] \div radix
  BY <1>4
<1>7. {i \in Nat : g[i] \in Nat} = Nat
  <2> DEFINE S == {i \in Nat : g[i] \in Nat}
  <2>1. 0 \in S
    BY <1>6
  <2>2. ASSUME NEW i \in Nat, i \in S  PROVE i + 1 \in S
    <3>1. g[i] \div radix \in Nat
      BY <2>2, DivMod
    <3> QED  BY <1>6, <3>1
  <2> QED  BY <2>1, <2>2, SetInduction
<1>8. g \in [Nat -> Nat]
  <2>1. \A i \in Nat : g[i] \in Nat
    BY <1>7
  <2>2. g = [i \in Nat |-> g[i]]
    BY <1>4
  <2> QED  BY <2>1, <2>2
<1> QED  BY <1>5, <1>6, <1>8

\* Digits gives len digits of the radix.
LEMMA DigitsType ==
    ASSUME NEW n \in Nat, NEW radix \in Nat \ {0}, NEW len \in Nat
    PROVE  /\ Digits(n, radix, len) \in Seq(0..(radix - 1))
           /\ Len(Digits(n, radix, len)) = len
<1>1. ASSUME NEW i \in 1..len  PROVE Shifted(n, radix)[len - i] % radix \in 0..(radix - 1)
  <2>1. len - i \in Nat
    OBVIOUS
  <2>2. Shifted(n, radix)[len - i] \in Nat
    BY <2>1, ShiftedValues
  <2> QED  BY <2>2, DivMod
<1> QED  BY <1>1 DEF Digits

ValueLoop(v, ds, radix) ==
    v = [i \in 0..Len(ds) |-> IF i = 0 THEN 0 ELSE v[i - 1] * radix + ds[i]]

\* The recursive function of ValueOf exists.
LEMMA ValueOfLoop ==
    ASSUME NEW ds \in Str, NEW radix \in Nat
    PROVE  \E v \in [0..Len(ds) -> Nat] :
              ValueLoop(v, ds, radix) /\ ValueOf(ds, radix) = v[Len(ds)]
<1> DEFINE N == Len(ds)
           d == [i \in Nat |-> IF i \in 1..N THEN ds[i] ELSE 0]
           h == [i \in Nat |-> [x \in Nat |-> x * radix + d[i + 1]]]
           v == CHOOSE f : ValueLoop(f, ds, radix)
<1>1. N \in Nat /\ d \in [Nat -> Nat]
  BY DEF Str
<1>2. h \in [Nat -> [Nat -> Nat]]
  <2> HIDE DEF d, N
  <2>1. ASSUME NEW i \in Nat, NEW x \in Nat  PROVE x * radix + d[i + 1] \in Nat
    <3>1. x * radix \in Nat /\ d[i + 1] \in Nat
      BY <1>1
    <3> QED  BY <3>1
  <2> QED  BY <2>1
<1>3. PICK f : Iterates(f, Nat, 0, h)
  <2> HIDE DEF h
  <2> QED  BY <1>2, Recursion
<1> DEFINE e == [i \in 0..N |-> f[i]]
<1>4. ValueLoop(e, ds, radix)
  <2>1. ASSUME NEW i \in 0..N  PROVE e[i] = IF i = 0 THEN 0 ELSE e[i - 1] * radix + ds[i]
    <3>1. CASE i # 0
      <4>1. i - 1 \in Nat /\ (i - 1) + 1 = i /\ i \in Nat /\ i \in 1..N /\ i - 1 \in 0..N
        BY <1>1, <3>1
      <4>2. f[i] = h[i - 1][f[i - 1]]
        BY <1>3, <4>1 DEF Iterates
      <4>3. f[i - 1] \in Nat
        BY <1>3, <4>1 DEF Iterates
      <4>4. f[i] = f[i - 1] * radix + ds[i]
        BY <4>1, <4>2, <4>3
      <4> QED  BY <3>1, <4>1, <4>4
    <3> QED  BY <1>1, <1>3, <3>1 DEF Iterates
  <2> QED  BY <2>1 DEF ValueLoop
<1>5. ValueLoop(v, ds, radix)
  <2> HIDE DEF e
  <2> QED  BY <1>4
<1>6. ValueOf(ds, radix) = v[N]
  BY DEF ValueOf, ValueLoop
<1> HIDE DEF v
<1>7. {i \in Nat : i <= N => v[i] \in Nat} = Nat
  <2> DEFINE S == {i \in Nat : i <= N => v[i] \in Nat}
  <2>1. 0 \in S
    BY <1>1, <1>5 DEF ValueLoop
  <2>2. ASSUME NEW i \in Nat, i \in S  PROVE i + 1 \in S
    <3> SUFFICES ASSUME i + 1 <= N  PROVE v[i + 1] \in Nat
      OBVIOUS
    <3>1. i + 1 \in 0..N /\ i + 1 # 0 /\ (i + 1) - 1 = i /\ v[i] \in Nat
      BY <1>1, <2>2
    <3>2. v[i] * radix \in Nat
      BY <3>1
    <3>3. ds[i + 1] \in Nat
      BY <1>1 DEF Str
    <3>4. \A x, y \in Nat : x + y \in Nat
      OBVIOUS
    <3>5. v[i + 1] = v[i] * radix + ds[i + 1]
      BY <1>5, <3>1 DEF ValueLoop
    <3> QED  BY <3>5, <3>2, <3>3, <3>4, Zenon
  <2> QED  BY <2>1, <2>2, SetInduction
<1>8. v \in [0..N -> Nat]
  <2>1. \A i \in 0..N : i \in Nat /\ i <= N
    BY <1>1
  <2>2. \A i \in 0..N : v[i] \in Nat
    BY <1>7, <2>1
  <2>3. v = [i \in 0..N |-> v[i]]
    BY <1>5 DEF ValueLoop
  <2> QED  BY <2>2, <2>3
<1> QED  BY <1>5, <1>6, <1>8

\* Digits denote a natural number.
LEMMA ValueOfNat ==
    ASSUME NEW ds \in Str, NEW radix \in Nat  PROVE ValueOf(ds, radix) \in Nat
<1>1. Len(ds) \in 0..Len(ds)
  BY DEF Str
<1> QED  BY <1>1, ValueOfLoop

\* Digits enough for the number give the number back.
LEMMA ValueOfDigits ==
    ASSUME NEW n \in Nat, NEW radix \in Nat \ {0}, NEW len \in Nat,
           Shifted(n, radix)[len] = 0
    PROVE  ValueOf(Digits(n, radix, len), radix) = n
<1> DEFINE D == Digits(n, radix, len)
           s == Shifted(n, radix)
<1>1. D \in Str /\ Len(D) = len
  <2>1. 0..(radix - 1) \subseteq Nat
    OBVIOUS
  <2> QED  BY <2>1, DigitsType DEF Str
<1>2. PICK v \in [0..len -> Nat] : ValueLoop(v, D, radix) /\ ValueOf(D, radix) = v[len]
  BY <1>1, ValueOfLoop
<1>3. s \in [Nat -> Nat] /\ s[0] = n /\ \A i \in Nat : s[i + 1] = s[i] \div radix
  BY ShiftedValues
<1> DEFINE S == {i \in Nat : i <= len => v[i] = s[len - i]}
<1>4. 0 \in S
  BY <1>1, <1>2 DEF ValueLoop
<1>5. ASSUME NEW i \in Nat, i \in S  PROVE i + 1 \in S
  <2> SUFFICES ASSUME i + 1 <= len  PROVE v[i + 1] = s[len - (i + 1)]
    OBVIOUS
  <2> DEFINE j == len - (i + 1)
  <2>1. /\ i + 1 \in 0..len /\ i + 1 \in 1..len /\ i + 1 # 0 /\ (i + 1) - 1 = i
        /\ j \in Nat /\ len - i = j + 1 /\ v[i] = s[len - i]
    BY <1>5
  <2>2. v[i + 1] = v[i] * radix + D[i + 1]
    BY <1>1, <1>2, <2>1 DEF ValueLoop
  <2>3. D[i + 1] = s[j] % radix
    BY <2>1 DEF Digits
  <2>4. v[i] = s[j] \div radix /\ s[j] \in Nat
    BY <1>3, <2>1
  <2>5. (s[j] \div radix) * radix + (s[j] % radix) = s[j]
    <3>1. \A x \in Nat : (x \div radix) * radix + (x % radix) = x
      OBVIOUS
    <3> QED  BY <2>4, <3>1
  <2> HIDE DEF D, s, j
  <2>6. v[i + 1] = s[j]
    BY <2>2, <2>3, <2>4, <2>5
  <2> QED  BY <2>6 DEF j
<1>6. S = Nat
  BY <1>4, <1>5, SetInduction
<1>7. v[len] = s[len - len]
  BY <1>6
<1> QED  BY <1>2, <1>3, <1>7

LEMMA BaseType == Base \in Nat \ {0, 1} /\ Nibble \in Nat \ {0, 1} /\ Width \in Nat \ {0}
<1>1. \A x \in Nat \ {0, 1} : x * x \in Nat \ {0, 1}
  OBVIOUS
<1> QED  BY <1>1, KeysAssumption DEF Base

\* The recursive function of Limit exists.
LEMMA LimitPower ==
    \E p \in [Nat -> Nat \ {0}] : /\ p[0] = 1 /\ Limit = p[Width]
                                 /\ \A i \in Nat : p[i + 1] = p[i] * Base
<1> DEFINE P == Nat \ {0}
           h == [i \in Nat |-> [x \in P |-> x * Base]]
           Loop(f) == f = [i \in Nat |-> IF i = 0 THEN 1 ELSE f[i - 1] * Base]
           p == CHOOSE f : Loop(f)
<1>1. \A x \in P : x * Base \in P
  <2>1. \A x, b \in P : x * b \in P
    OBVIOUS
  <2> QED  BY <2>1, BaseType
<1>2. h \in [Nat -> [P -> P]] /\ 1 \in P
  BY <1>1
<1>3. PICK f : Iterates(f, P, 1, h)
  <2> HIDE DEF h
  <2> QED  BY <1>2, Recursion
<1>4. Loop(f)
  <2>1. ASSUME NEW i \in Nat  PROVE f[i] = IF i = 0 THEN 1 ELSE f[i - 1] * Base
    <3>1. CASE i # 0
      <4>1. i - 1 \in Nat /\ (i - 1) + 1 = i
        BY <3>1
      <4>2. f[i] = h[i - 1][f[i - 1]] /\ f[i - 1] \in P
        BY <1>3, <4>1 DEF Iterates
      <4>3. f[i] = f[i - 1] * Base
        BY <4>1, <4>2
      <4> QED  BY <3>1, <4>3
    <3> QED  BY <1>3, <3>1 DEF Iterates
  <2>2. f = [i \in Nat |-> f[i]]
    BY <1>3 DEF Iterates
  <2> QED  BY <2>1, <2>2
<1>5. Loop(p)
  <2> HIDE DEF Loop
  <2> QED  BY <1>4
<1>6. Limit = p[Width]
  BY DEF Limit
<1> HIDE DEF p
<1>7. p[0] = 1 /\ \A i \in Nat : p[i + 1] = p[i] * Base
  BY <1>5
<1>8. {i \in Nat : p[i] \in P} = Nat
  <2> DEFINE S == {i \in Nat : p[i] \in P}
  <2>1. 0 \in S
    BY <1>7
  <2>2. ASSUME NEW i \in Nat, i \in S  PROVE i + 1 \in S
    BY <1>1, <1>7, <2>2
  <2> QED  BY <2>1, <2>2, SetInduction
<1>9. p \in [Nat -> P]
  <2>1. \A i \in Nat : p[i] \in P
    BY <1>8
  <2>2. p = [i \in Nat |-> p[i]]
    BY <1>5
  <2> QED  BY <2>1, <2>2
<1> QED  BY <1>6, <1>7, <1>9

LEMMA LimitType == Limit \in Nat \ {0}
BY LimitPower, BaseType

\* A number below Limit has Width bytes.
LEMMA ShiftedOut ==
    ASSUME NEW n \in Nat, n < Limit  PROVE Shifted(n, Base)[Width] = 0
<1>1. PICK p \in [Nat -> Nat \ {0}] : /\ p[0] = 1 /\ Limit = p[Width]
                                     /\ \A i \in Nat : p[i + 1] = p[i] * Base
  BY LimitPower
<1> DEFINE s == Shifted(n, Base)
           S == {i \in Nat : i <= Width => s[i] < p[Width - i]}
<1>2. Base \in Nat \ {0} /\ Width \in Nat
  BY BaseType
<1>3. s \in [Nat -> Nat] /\ s[0] = n /\ \A i \in Nat : s[i + 1] = s[i] \div Base
  BY <1>2, ShiftedValues
<1> HIDE DEF s
<1>4. 0 \in S
  BY <1>1, <1>2, <1>3
<1>5. ASSUME NEW i \in Nat, i \in S  PROVE i + 1 \in S
  <2> SUFFICES ASSUME i + 1 <= Width  PROVE s[i + 1] < p[Width - (i + 1)]
    OBVIOUS
  <2> DEFINE j == Width - (i + 1)
  <2>1. j \in Nat /\ Width - i = j + 1 /\ s[i] < p[Width - i]
    BY <1>2, <1>5
  <2>2. s[i] < p[j] * Base /\ s[i] \in Nat /\ p[j] \in Nat
    BY <1>1, <1>3, <2>1
  <2>3. \A x, y \in Nat : x < y * Base => x \div Base < y
    <3>1. \A x, y \in Nat, b \in Nat \ {0} : x < y * b => x \div b < y
      OBVIOUS
    <3> QED  BY <1>2, <3>1
  <2>4. s[i] \div Base < p[j]
    BY <2>2, <2>3
  <2> QED  BY <1>3, <2>4
<1>6. S = Nat
  BY <1>4, <1>5, SetInduction
<1>7. s[Width] < p[0]
  <2>1. Width - Width = 0
    BY <1>2
  <2> QED  BY <1>2, <1>6, <2>1
<1>8. s[Width] \in Nat
  BY <1>2, <1>3
<1>9. s[Width] = 0
  BY <1>1, <1>7, <1>8
<1> QED  BY <1>9 DEF s

IsLength(n, radix, l) ==
    /\ Shifted(n, radix)[l] = 0 /\ \A m \in 0..(l - 1) : Shifted(n, radix)[m] # 0
    /\ Numeral(n, radix) = Digits(n, radix, l)

\* A numeral has the digits up to the first place where nothing is left.
LEMMA NumeralDigits ==
    ASSUME NEW n \in Nat, NEW radix \in Nat \ {0, 1}
    PROVE  \E l \in Nat : IsLength(n, radix, l)
<1> DEFINE s == Shifted(n, radix)
           S == {i \in Nat : s[i] = 0 \/ s[i] <= n - i}
           Z == {i \in Nat : s[i] = 0}
           Is(l) == s[l] = 0 /\ \A m \in 0..(l - 1) : s[m] # 0
<1>1. radix \in Nat \ {0}
  OBVIOUS
<1>2. s \in [Nat -> Nat] /\ s[0] = n /\ \A i \in Nat : s[i + 1] = s[i] \div radix
  BY <1>1, ShiftedValues
<1>3. Numeral(n, radix) = Digits(n, radix, CHOOSE l \in 0..n : Is(l))
  BY DEF Numeral
<1> HIDE DEF s
<1>4. 0 \in S
  BY <1>2
<1>5. ASSUME NEW i \in Nat, i \in S  PROVE i + 1 \in S
  <2>1. s[i] \in Nat /\ s[i + 1] \in Nat /\ s[i + 1] = s[i] \div radix
    BY <1>2
  <2>2. \A x \in Nat : x \div radix = 0 \/ x \div radix <= x - 1
    OBVIOUS
  <2>3. s[i + 1] = 0 \/ s[i + 1] <= s[i] - 1
    BY <2>1, <2>2
  <2>4. CASE s[i] = 0
    BY <2>1, <2>3, <2>4
  <2>5. CASE s[i] <= n - i
    BY <2>1, <2>3, <2>5
  <2> QED  BY <1>5, <2>4, <2>5
<1>6. S = Nat
  BY <1>4, <1>5, SetInduction
<1>7. n \in Z
  <2>1. s[n] \in Nat /\ (s[n] = 0 \/ s[n] <= n - n)
    BY <1>2, <1>6
  <2> QED  BY <2>1
<1>8. PICK l \in Z : \A m \in Z : l <= m
  <2>1. Z \in SUBSET Nat /\ Z # {}
    BY <1>7
  <2> QED  BY <2>1, LeastNatural
<1>9. l \in 0..n /\ Is(l)
  <2>1. ASSUME NEW m \in 0..(l - 1)  PROVE s[m] # 0
    <3>1. m \in Nat /\ ~(l <= m)
      BY <1>8
    <3> QED  BY <1>8, <3>1
  <2> QED  BY <1>7, <1>8, <2>1
<1> DEFINE len == CHOOSE k \in 0..n : Is(k)
<1>10. len \in 0..n /\ Is(len)
  <2> HIDE DEF Is
  <2> QED  BY <1>9
<1> HIDE DEF len
<1>11. IsLength(n, radix, len)
  BY <1>3, <1>10 DEF len, s, IsLength
<1> QED  BY <1>10, <1>11

\* A numeral denotes its number.
LEMMA NumeralType ==
    ASSUME NEW n \in Nat, NEW radix \in Nat \ {0, 1}
    PROVE  /\ Numeral(n, radix) \in Seq(0..(radix - 1))
           /\ ValueOf(Numeral(n, radix), radix) = n
<1>1. radix \in Nat \ {0}
  OBVIOUS
<1>2. PICK l \in Nat : IsLength(n, radix, l)
  BY NumeralDigits
<1>3. Shifted(n, radix)[l] = 0 /\ Numeral(n, radix) = Digits(n, radix, l)
  BY <1>2 DEF IsLength
<1>4. Numeral(n, radix) \in Seq(0..(radix - 1))
  BY <1>1, <1>3, DigitsType
<1>5. ValueOf(Numeral(n, radix), radix) = n
  BY <1>1, <1>3, ValueOfDigits
<1> QED  BY <1>4, <1>5

-----------------------------------------------------------------------------
(* The conversions of keys. *)

Byte == 0..(Base - 1)

\* The keys of a type.
Key(kd) == CASE kd = "uint32" -> 0..(Limit - 1)
             [] kd = "hash" -> {bs \in Seq(Byte) : Len(bs) = Width}
             [] kd = "bytes" -> Seq(Byte)

LEMMA KeyByKind ==
    /\ Key("uint32") = 0..(Limit - 1)
    /\ Key("hash") = {bs \in Seq(Byte) : Len(bs) = Width}
    /\ Key("bytes") = Seq(Byte)
BY DEF Key

LEMMA ByteSeq == Byte \subseteq Nat /\ Seq(Byte) \subseteq Str
<1>1. Byte \subseteq Nat
  BY BaseType DEF Byte
<1>2. ASSUME NEW s \in Seq(Byte)  PROVE s \in Seq(Nat)
  BY <1>1, SeqMonotonic
<1> QED  BY <1>1, <1>2 DEF Str

\* hex.DecodeString undoes hex.EncodeToString.
LEMMA HexRoundTrip ==
    ASSUME NEW bs \in Seq(Byte)
    PROVE  HexEncode(bs) \in Str /\ HexDecode(HexEncode(bs)) = bs
<1> DEFINE N == Len(bs)
           ds == HexEncode(bs)
<1>1. N \in Nat /\ \A i \in 1..N : bs[i] \in Nat
  BY ByteSeq DEF Str
<1>2. Nibble \in Nat \ {0}
  BY BaseType
<1>3. ASSUME NEW i \in 1..(2 * N)
      PROVE  /\ (i + 1) \div 2 \in 1..N
             /\ bs[(i + 1) \div 2] \div Nibble \in Nat
             /\ bs[(i + 1) \div 2] % Nibble \in Nat
  <2>1. (i + 1) \div 2 \in 1..N
    BY <1>1
  <2>2. \A x \in Nat : x \div Nibble \in Nat /\ x % Nibble \in Nat
    BY <1>2
  <2> QED  BY <1>1, <2>1, <2>2
<1>4. ds \in Str /\ Len(ds) = 2 * N
  BY <1>1, <1>3 DEF HexEncode, Str
<1>5. ASSUME NEW i \in 1..N  PROVE ds[2 * i - 1] * Nibble + ds[2 * i] = bs[i]
  <2>1. /\ 2 * i - 1 \in 1..(2 * N) /\ 2 * i \in 1..(2 * N)
        /\ ((2 * i - 1) + 1) \div 2 = i /\ ((2 * i) + 1) \div 2 = i
        /\ (2 * i - 1) % 2 = 1 /\ (2 * i) % 2 # 1
    BY <1>1
  <2>2. ds[2 * i - 1] = bs[i] \div Nibble /\ ds[2 * i] = bs[i] % Nibble
    BY <2>1 DEF HexEncode
  <2> QED  BY <1>1, <1>2, <2>2, DivMod
<1>6. HexDecode(ds) = [i \in 1..N |-> ds[2 * i - 1] * Nibble + ds[2 * i]]
  <2>1. Len(ds) % 2 # 1 /\ Len(ds) \div 2 = N
    BY <1>1, <1>4
  <2> QED  BY <2>1 DEF HexDecode
<1>7. bs = [i \in 1..N |-> bs[i]]
  OBVIOUS
<1>8. HexDecode(ds) = bs
  <2> HIDE DEF ds, N
  <2> QED  BY <1>5, <1>6, <1>7
<1> QED  BY <1>4, <1>8

(***************************************************************************)
(* A key of any type is what FromBytes makes of its Bytes (src/key.go),    *)
(* which is how bbolt and Badger hand the keys of a shelf to a callback.   *)
(***************************************************************************)
THEOREM BytesRoundTrip ==
    ASSUME NEW kd \in Kind, NEW k \in Key(kd)
    PROVE  Bytes(kd, k) \in Str /\ FromBytes(kd, Bytes(kd, k)) = k
<1>1. CASE kd = "uint32"
  <2>1. k \in Nat /\ k < Limit
    BY <1>1, KeyByKind, LimitType
  <2>2. Base \in Nat \ {0} /\ Width \in Nat
    BY BaseType
  <2>3. Digits(k, Base, Width) \in Seq(Byte) /\ Len(Digits(k, Base, Width)) = Width
    BY <2>1, <2>2, DigitsType DEF Byte
  <2>4. ValueOf(Digits(k, Base, Width), Base) = k
    BY <2>1, <2>2, ShiftedOut, ValueOfDigits
  <2> QED
    BY <1>1, <2>3, <2>4, ByteSeq DEF Bytes, FromBytes, Uint32Bytes, Uint32FromBytes
<1>2. CASE kd = "hash"
  BY <1>2, KeyByKind, ByteSeq DEF Bytes, FromBytes, HashFromBytes
<1>3. CASE kd = "bytes"
  BY <1>3, KeyByKind, ByteSeq DEF Bytes, FromBytes
<1> QED  BY <1>1, <1>2, <1>3 DEF Kind

\* A Uint32Key is what its decimal digits denote.
LEMMA DecimalValue ==
    ASSUME NEW k \in Nat
    PROVE  Uint32String(k) \in Str /\ ValueOf(Uint32String(k), 10) = k
<1>1. 10 \in Nat \ {0, 1} /\ 10 \in Nat \ {0}
  OBVIOUS
<1>2. CASE k # 0
  <2>1. Numeral(k, 10) \in Seq(0..(10 - 1)) /\ ValueOf(Numeral(k, 10), 10) = k
    BY <1>1, NumeralType
  <2>2. 0..(10 - 1) \subseteq Nat
    OBVIOUS
  <2>3. Numeral(k, 10) \in Str
    BY <2>1, <2>2 DEF Str
  <2> QED  BY <1>2, <2>1, <2>3 DEF Uint32String
<1>3. CASE k = 0
  <2>1. <<0>> \in Str /\ Len(<<0>>) = 1 /\ <<0>>[1] = 0
    BY DEF Str
  <2>2. PICK v \in [0..1 -> Nat] : ValueLoop(v, <<0>>, 10) /\ ValueOf(<<0>>, 10) = v[1]
    BY <1>1, <2>1, ValueOfLoop
  <2>3. v[0] = 0 /\ v[1] = v[0] * 10 + 0
    BY <2>1, <2>2 DEF ValueLoop
  <2> QED  BY <1>3, <2>1, <2>2, <2>3 DEF Uint32String
<1> QED  BY <1>2, <1>3

(***************************************************************************)
(* A key of any type is what FromString makes of its String (src/key.go),  *)
(* which is how Redis keeps keys; a Uint32Key with its highest bit set is  *)
(* the only one that is not given back, but an error.                      *)
(***************************************************************************)
THEOREM StringRoundTrip ==
    ASSUME NEW kd \in Kind, NEW k \in Key(kd)
    PROVE  /\ String(kd, k) \in Str
           /\ FromString(kd, String(kd, k))
                = IF kd = "uint32" /\ 2 * k >= Limit THEN Nil ELSE k
<1>1. CASE kd = "uint32"
  <2>1. k \in Nat
    BY <1>1, KeyByKind, LimitType
  <2>2. Uint32String(k) \in Str /\ ValueOf(Uint32String(k), 10) = k
    BY <2>1, DecimalValue
  <2> QED  BY <1>1, <2>2 DEF String, FromString, Uint32FromString
<1>2. CASE kd = "hash"
  <2>1. k \in Seq(Byte) /\ Len(k) = Width
    BY <1>2, KeyByKind
  <2>2. HexEncode(k) \in Str /\ HexDecode(HexEncode(k)) = k
    BY <2>1, HexRoundTrip
  <2> QED  BY <1>2, <2>1, <2>2 DEF String, FromString, HashFromString, HashFromBytes
<1>3. CASE kd = "bytes"
  <2>1. k \in Seq(Byte)
    BY <1>3, KeyByKind
  <2> QED  BY <1>3, <2>1, HexRoundTrip DEF String, FromString, BytesFromString
<1> QED  BY <1>1, <1>2, <1>3 DEF Kind

\* Keys of one type have different strings.
LEMMA StringInjective ==
    ASSUME NEW kd \in Kind, NEW j \in Key(kd), NEW k \in Key(kd), String(kd, j) = String(kd, k)
    PROVE  j = k
<1>1. CASE kd = "uint32"
  <2>1. j \in Nat /\ k \in Nat
    BY <1>1, KeyByKind, LimitType
  <2>2. Uint32String(j) = Uint32String(k)
    BY <1>1 DEF String
  <2> QED  BY <2>1, <2>2, DecimalValue
<1>2. CASE kd # "uint32"
  BY <1>2, StringRoundTrip
<1> QED  BY <1>1, <1>2

\* Next gives a key of the type, or panics.
LEMMA NextKeyType ==
    ASSUME NEW kd \in Kind, NEW k \in Key(kd)
    PROVE  NextKey(kd, k) \in Key(kd) \cup {Nil}
<1>1. CASE kd = "uint32"
  <2>1. (k + 1) % Limit \in 0..(Limit - 1)
    BY <1>1, KeyByKind, LimitType
  <2> QED  BY <1>1, <2>1, KeyByKind DEF NextKey, Uint32Next
<1>2. ASSUME NEW bs \in Str
      PROVE  Numeral(ValueOf(bs, Base) + 1, Base) \in Seq(Byte)
  <2>1. ValueOf(bs, Base) + 1 \in Nat
    BY BaseType, ValueOfNat
  <2> QED  BY <2>1, BaseType, NumeralType DEF Byte
<1>3. CASE kd = "hash"
  <2> DEFINE bs == Numeral(ValueOf(k, Base) + 1, Base)
  <2>1. bs \in Seq(Byte)
    BY <1>2, <1>3, KeyByKind, ByteSeq
  <2>2. CASE Len(bs) < Width
    BY <1>3, <2>2 DEF NextKey, HashNext
  <2>3. CASE ~(Len(bs) < Width)
    <3>1. SubSeq(bs, 1, Width) \in Seq(Byte) /\ Len(SubSeq(bs, 1, Width)) = Width
      <4> HIDE DEF bs
      <4> QED  BY <2>1, <2>3, BaseType, SubSeqProperties
    <3> QED  BY <1>3, <2>3, <3>1, KeyByKind DEF NextKey, HashNext
  <2> QED  BY <2>2, <2>3
<1>4. CASE kd = "bytes"
  BY <1>2, <1>4, KeyByKind, ByteSeq DEF NextKey, BytesNext
<1> QED  BY <1>1, <1>3, <1>4 DEF Kind

-----------------------------------------------------------------------------
(* bytes.Compare is a strict total order. *)

\* a and b agree on their first n bytes, and there a is before b.
BeforeAt(a, b, n) ==
    /\ n <= Len(a) /\ n < Len(b)
    /\ \A i \in 1..n : a[i] = b[i]
    /\ n < Len(a) => a[n + 1] < b[n + 1]

\* Two sequences have the same first n elements when they agree up to n.
LEMMA SubSeqAgree ==
    ASSUME NEW a \in Str, NEW b \in Str, NEW n \in Nat, n <= Len(a), n <= Len(b)
    PROVE  SubSeq(a, 1, n) = SubSeq(b, 1, n) <=> \A i \in 1..n : a[i] = b[i]
<1>1. /\ SubSeq(a, 1, n) = [i \in 1..n |-> a[i]]
      /\ SubSeq(b, 1, n) = [i \in 1..n |-> b[i]]
  BY DEF Str
<1> QED  BY <1>1

\* Before, by the places at which two sequences agree and differ.
LEMMA BeforePointwise ==
    ASSUME NEW a \in Str, NEW b \in Str
    PROVE  Before(a, b) <=> \E n \in Nat : BeforeAt(a, b, n)
<1>1. Len(a) \in Nat /\ Len(b) \in Nat
  BY DEF Str
<1>2. ASSUME Before(a, b)  PROVE \E n \in Nat : BeforeAt(a, b, n)
  <2>1. PICK n \in 0..Len(a) : /\ n < Len(b)
                               /\ SubSeq(a, 1, n) = SubSeq(b, 1, n)
                               /\ n < Len(a) => a[n + 1] < b[n + 1]
    BY <1>2 DEF Before
  <2>2. n \in Nat /\ n <= Len(a) /\ n <= Len(b)
    BY <1>1, <2>1
  <2>3. \A i \in 1..n : a[i] = b[i]
    BY <2>1, <2>2, SubSeqAgree
  <2> QED  BY <2>1, <2>2, <2>3 DEF BeforeAt
<1>3. ASSUME NEW n \in Nat, BeforeAt(a, b, n)  PROVE Before(a, b)
  <2>1. n \in 0..Len(a) /\ n <= Len(a) /\ n <= Len(b) /\ n < Len(b)
    BY <1>1, <1>3 DEF BeforeAt
  <2>2. SubSeq(a, 1, n) = SubSeq(b, 1, n)
    BY <1>3, <2>1, SubSeqAgree DEF BeforeAt
  <2> QED  BY <1>3, <2>1, <2>2 DEF Before, BeforeAt
<1> QED  BY <1>2, <1>3

LEMMA BeforeIrreflexive == ASSUME NEW a \in Str  PROVE ~Before(a, a)
<1> SUFFICES ASSUME NEW n \in Nat, BeforeAt(a, a, n)  PROVE FALSE
  BY BeforePointwise
<1>1. n + 1 \in 1..Len(a) /\ a[n + 1] \in Nat
  BY DEF BeforeAt, Str
<1> QED  BY <1>1 DEF BeforeAt

LEMMA BeforeTransitive ==
    ASSUME NEW a \in Str, NEW b \in Str, NEW c \in Str, Before(a, b), Before(b, c)
    PROVE  Before(a, c)
<1>1. PICK n \in Nat : BeforeAt(a, b, n)
  BY BeforePointwise
<1>2. PICK m \in Nat : BeforeAt(b, c, m)
  BY BeforePointwise
<1>3. /\ Len(a) \in Nat /\ Len(b) \in Nat /\ Len(c) \in Nat
      /\ \A i \in 1..Len(a) : a[i] \in Nat
      /\ \A i \in 1..Len(b) : b[i] \in Nat
      /\ \A i \in 1..Len(c) : c[i] \in Nat
  BY DEF Str
<1>4. CASE n < m
  <2>1. BeforeAt(a, c, n)
    <3>1. n + 1 \in 1..m /\ n + 1 \in 1..Len(b) /\ b[n + 1] = c[n + 1]
      BY <1>1, <1>2, <1>3, <1>4 DEF BeforeAt
    <3>2. \A i \in 1..n : i \in 1..m /\ a[i] = c[i]
      BY <1>1, <1>2, <1>4 DEF BeforeAt
    <3> QED  BY <1>1, <1>2, <1>3, <1>4, <3>1, <3>2 DEF BeforeAt
  <2> QED  BY <2>1, BeforePointwise
<1>5. CASE n = m
  <2>1. BeforeAt(a, c, n)
    <3>1. n + 1 \in 1..Len(b) /\ n + 1 \in 1..Len(c) /\ b[n + 1] < c[n + 1]
      BY <1>1, <1>2, <1>3, <1>5 DEF BeforeAt
    <3>2. n < Len(a) => a[n + 1] < c[n + 1]
      <4> SUFFICES ASSUME n < Len(a)  PROVE a[n + 1] < c[n + 1]
        OBVIOUS
      <4>1. n + 1 \in 1..Len(a) /\ a[n + 1] < b[n + 1]
        BY <1>1, <1>3 DEF BeforeAt
      <4> QED  BY <1>3, <3>1, <4>1
    <3>3. \A i \in 1..n : a[i] = c[i]
      BY <1>1, <1>2, <1>5 DEF BeforeAt
    <3> QED  BY <1>1, <1>2, <1>5, <3>2, <3>3 DEF BeforeAt
  <2> QED  BY <2>1, BeforePointwise
<1>6. CASE m < n
  <2>1. BeforeAt(a, c, m)
    <3>1. m + 1 \in 1..n /\ m < Len(b) /\ a[m + 1] = b[m + 1] /\ b[m + 1] < c[m + 1]
      BY <1>1, <1>2, <1>3, <1>6 DEF BeforeAt
    <3>2. \A i \in 1..m : i \in 1..n /\ a[i] = c[i]
      BY <1>1, <1>2, <1>6 DEF BeforeAt
    <3> QED  BY <1>1, <1>2, <1>3, <1>6, <3>1, <3>2 DEF BeforeAt
  <2> QED  BY <2>1, BeforePointwise
<1> QED  BY <1>4, <1>5, <1>6

LEMMA BeforeTotal ==
    ASSUME NEW a \in Str, NEW b \in Str, a # b  PROVE Before(a, b) \/ Before(b, a)
<1> DEFINE T == {n \in Nat : n < Len(a) /\ n < Len(b) /\ a[n + 1] # b[n + 1]}
<1>1. /\ Len(a) \in Nat /\ Len(b) \in Nat
      /\ \A i \in 1..Len(a) : a[i] \in Nat
      /\ \A i \in 1..Len(b) : b[i] \in Nat
  BY DEF Str
<1>2. CASE T # {}
  <2>1. PICK n \in T : \A m \in T : n <= m
    BY <1>2, LeastNatural
  <2>2. ASSUME NEW i \in 1..n  PROVE a[i] = b[i]
    <3>1. i - 1 \in Nat /\ (i - 1) + 1 = i /\ i - 1 < Len(a) /\ i - 1 < Len(b) /\ ~(n <= i - 1)
      BY <1>1, <2>1
    <3> QED  BY <2>1, <3>1
  <2>3. a[n + 1] \in Nat /\ b[n + 1] \in Nat /\ a[n + 1] # b[n + 1]
    BY <1>1, <2>1
  <2>4. BeforeAt(a, b, n) \/ BeforeAt(b, a, n)
    BY <1>1, <2>1, <2>2, <2>3 DEF BeforeAt
  <2> QED  BY <2>1, <2>4, BeforePointwise
<1>3. CASE T = {}
  <2>1. ASSUME NEW i \in Nat, 1 <= i, i <= Len(a), i <= Len(b)  PROVE a[i] = b[i]
    <3>1. i - 1 \in Nat /\ (i - 1) + 1 = i /\ i - 1 < Len(a) /\ i - 1 < Len(b)
      BY <1>1, <2>1
    <3> QED  BY <1>3, <3>1
  <2>2. CASE Len(a) = Len(b)
    <3>1. \A i \in 1..Len(a) : a[i] = b[i]
      BY <1>1, <2>1, <2>2
    <3>2. a = b
      BY <2>2, <3>1, SeqEqual DEF Str
    <3> QED  BY <3>2
  <2>3. CASE Len(a) < Len(b)
    <3>1. BeforeAt(a, b, Len(a))
      BY <1>1, <2>1, <2>3 DEF BeforeAt
    <3> QED  BY <1>1, <3>1, BeforePointwise
  <2>4. CASE Len(b) < Len(a)
    <3>1. BeforeAt(b, a, Len(b))
      BY <1>1, <2>1, <2>4 DEF BeforeAt
    <3> QED  BY <1>1, <3>1, BeforePointwise
  <2> QED  BY <1>1, <2>2, <2>3, <2>4
<1> QED  BY <1>2, <1>3

\* The strings with a prefix lie together: what is not before the prefix and not
\* after a string that has it, has it too.
LEMMA PrefixConvex ==
    ASSUME NEW p \in Str, NEW k \in Str, NEW m \in Str, IsPrefix(p, k),
           ~Before(m, p), m = k \/ Before(m, k)
    PROVE  IsPrefix(p, m)
<1>1. /\ Len(p) \in Nat /\ Len(k) \in Nat /\ Len(m) \in Nat
      /\ \A i \in 1..Len(p) : p[i] \in Nat
      /\ \A i \in 1..Len(m) : m[i] \in Nat
  BY DEF Str
<1>2. Len(p) <= Len(k) /\ \A i \in 1..Len(p) : p[i] = k[i]
  BY <1>1, SubSeqAgree DEF IsPrefix
<1>3. CASE p = m
  BY <1>1, <1>3 DEF IsPrefix
<1>4. CASE p # m
  <2>1. PICK n \in Nat : BeforeAt(p, m, n)
    BY <1>4, BeforeTotal, BeforePointwise
  <2>2. CASE n = Len(p)
    <3>1. Len(p) <= Len(m) /\ \A i \in 1..Len(p) : p[i] = m[i]
      BY <1>1, <2>1, <2>2 DEF BeforeAt
    <3> QED  BY <1>1, <3>1, SubSeqAgree DEF IsPrefix
  <2>3. CASE n < Len(p)
    <3>1. n + 1 \in 1..Len(p) /\ n < Len(k) /\ k[n + 1] = p[n + 1] /\ p[n + 1] < m[n + 1]
      BY <1>1, <1>2, <2>1, <2>3 DEF BeforeAt
    <3>2. \A i \in 1..n : k[i] = m[i]
      BY <1>1, <1>2, <2>1, <2>3 DEF BeforeAt
    <3>3. BeforeAt(k, m, n)
      BY <1>1, <2>1, <3>1, <3>2 DEF BeforeAt
    <3>4. Before(k, m)
      BY <3>3, BeforePointwise
    <3> QED  BY <3>4, BeforeIrreflexive, BeforeTransitive
  <2> QED  BY <1>1, <2>1, <2>2, <2>3 DEF BeforeAt
<1> QED  BY <1>3, <1>4

\* A finite set of strings that is not empty has a first one.
LEMMA FirstExists ==
    ASSUME NEW T \in SUBSET Str, IsFiniteSet(T), T # {}
    PROVE  \E k \in T : \A m \in T \ {k} : Before(k, m)
<1> DEFINE Has(U) == \E k \in U : \A m \in U \ {k} : Before(k, m)
           S == {n \in Nat : \A U \in SUBSET Str :
                                IsFiniteSet(U) /\ Cardinality(U) = n + 1 => Has(U)}
<1>1. 0 \in S
  <2> SUFFICES ASSUME NEW U \in SUBSET Str, IsFiniteSet(U), Cardinality(U) = 1
               PROVE  Has(U)
    OBVIOUS
  <2>1. PICK x : U = {x}
    BY FS_Singleton
  <2> QED  BY <2>1
<1>2. ASSUME NEW n \in Nat, n \in S  PROVE n + 1 \in S
  <2> SUFFICES ASSUME NEW U \in SUBSET Str, IsFiniteSet(U), Cardinality(U) = (n + 1) + 1
               PROVE  Has(U)
    OBVIOUS
  <2>1. PICK x : x \in U
    BY FS_EmptySet
  <2> DEFINE V == U \ {x}
  <2>2. V \in SUBSET Str /\ IsFiniteSet(V) /\ Cardinality(V) = n + 1
    BY <2>1, FS_RemoveElement
  <2>3. Has(V)
    <3> HIDE DEF V, Has
    <3> QED  BY <1>2, <2>2
  <2>4. PICK k \in V : \A m \in V \ {k} : Before(k, m)
    BY <2>3
  <2>5. x \in Str /\ k \in Str /\ x # k
    BY <2>1, <2>4
  <2>6. CASE Before(k, x)
    <3>1. \A m \in U \ {k} : Before(k, m)
      BY <2>4, <2>6
    <3> QED  BY <2>4, <3>1
  <2>7. CASE Before(x, k)
    <3>1. ASSUME NEW m \in U \ {x}  PROVE Before(x, m)
      <4>1. CASE m = k
        BY <2>7, <4>1
      <4>2. CASE m # k
        <5>1. Before(k, m) /\ m \in Str
          BY <2>4, <3>1, <4>2
        <5> QED  BY <2>5, <2>7, <5>1, BeforeTransitive
      <4> QED  BY <4>1, <4>2
    <3> QED  BY <2>1, <3>1
  <2> QED  BY <2>5, <2>6, <2>7, BeforeTotal
<1>3. S = Nat
  <2> HIDE DEF Has
  <2> QED  BY <1>1, <1>2, SetInduction
<1>4. Cardinality(T) \in Nat /\ Cardinality(T) # 0
  BY FS_CardinalityType, FS_EmptySet
<1>5. Cardinality(T) - 1 \in S /\ (Cardinality(T) - 1) + 1 = Cardinality(T)
  BY <1>3, <1>4
<1>6. Has(T)
  <2> HIDE DEF Has
  <2> QED  BY <1>5
<1> QED  BY <1>6

\* The byte order of numbers of Width bytes is their order.
LEMMA DigitsAscend ==
    ASSUME NEW a \in Nat, NEW b \in Nat, a < b, b < Limit
    PROVE  Before(Digits(a, Base, Width), Digits(b, Base, Width))
<1> DEFINE s == Shifted(a, Base)
           t == Shifted(b, Base)
           D == Digits(a, Base, Width)
           E == Digits(b, Base, Width)
<1>1. Base \in Nat \ {0} /\ Width \in Nat \ {0} /\ Limit \in Nat
  BY BaseType, LimitType
<1>2. /\ s \in [Nat -> Nat] /\ s[0] = a /\ \A i \in Nat : s[i + 1] = s[i] \div Base
      /\ t \in [Nat -> Nat] /\ t[0] = b /\ \A i \in Nat : t[i + 1] = t[i] \div Base
  BY <1>1, ShiftedValues
<1>3. s[Width] = 0 /\ t[Width] = 0
  BY <1>1, ShiftedOut
<1>4. /\ D \in Str /\ Len(D) = Width /\ \A i \in 1..Width : D[i] = s[Width - i] % Base
      /\ E \in Str /\ Len(E) = Width /\ \A i \in 1..Width : E[i] = t[Width - i] % Base
  <2>1. /\ D \in Seq(Byte) /\ Len(D) = Width /\ E \in Seq(Byte) /\ Len(E) = Width
    BY <1>1, DigitsType DEF Byte
  <2> QED  BY <2>1, ByteSeq DEF Digits
<1> HIDE DEF s, t, D, E
<1>5. {i \in Nat : s[i] <= t[i]} = Nat
  <2> DEFINE S == {i \in Nat : s[i] <= t[i]}
  <2>1. 0 \in S
    BY <1>2
  <2>2. ASSUME NEW i \in Nat, i \in S  PROVE i + 1 \in S
    <3>1. s[i] \in Nat /\ t[i] \in Nat /\ s[i] <= t[i]
      BY <1>2, <2>2
    <3>2. s[i] \div Base <= t[i] \div Base
      BY <1>1, <3>1, DivMonotone
    <3> QED  BY <1>2, <3>2
  <2> QED  BY <2>1, <2>2, SetInduction
<1> DEFINE Q == {i \in Nat : s[i] = t[i]}
<1>6. PICK j \in Q : \A i \in Q : j <= i
  <2>1. Width \in Q
    BY <1>1, <1>3
  <2>2. Q \in SUBSET Nat /\ Q # {}
    BY <2>1
  <2> HIDE DEF Q
  <2> QED  BY <2>2, LeastNatural
<1>7. j # 0 /\ j <= Width /\ j \in Nat /\ s[j] = t[j]
  BY <1>1, <1>2, <1>3, <1>6
<1>8. {i \in Nat : s[j + i] = t[j + i]} = Nat
  <2> DEFINE S == {i \in Nat : s[j + i] = t[j + i]}
  <2>1. 0 \in S
    BY <1>7
  <2>2. ASSUME NEW i \in Nat, i \in S  PROVE i + 1 \in S
    <3>1. j + (i + 1) = (j + i) + 1 /\ j + i \in Nat
      BY <1>7
    <3> QED  BY <1>2, <2>2, <3>1
  <2> QED  BY <2>1, <2>2, SetInduction
<1> DEFINE m == j - 1
           n == Width - j
<1>9. m \in Nat /\ m + 1 = j /\ n \in Nat /\ n + 1 \in 1..Width /\ Width - (n + 1) = m
  BY <1>1, <1>7
<1>10. s[m] < t[m]
  <2>1. s[m] # t[m]
    BY <1>6, <1>9
  <2>2. s[m] <= t[m] /\ s[m] \in Nat /\ t[m] \in Nat
    BY <1>2, <1>5, <1>9
  <2> QED  BY <2>1, <2>2
<1>11. s[m] \div Base = t[m] \div Base
  BY <1>2, <1>7, <1>9
<1>12. s[m] % Base < t[m] % Base
  BY <1>1, <1>2, <1>9, <1>10, <1>11, DivEqual
<1>13. D[n + 1] < E[n + 1]
  BY <1>4, <1>9, <1>12
<1>14. ASSUME NEW i \in 1..n  PROVE D[i] = E[i]
  <2>1. i \in 1..Width /\ (Width - i) - j \in Nat /\ j + ((Width - i) - j) = Width - i
    BY <1>1, <1>7
  <2>2. s[Width - i] = t[Width - i]
    BY <1>8, <2>1
  <2> QED  BY <1>4, <2>1, <2>2
<1>15. BeforeAt(D, E, n)
  <2>1. n <= Width /\ n < Width
    BY <1>1, <1>7, <1>9
  <2> HIDE DEF n
  <2> QED  BY <1>4, <1>13, <1>14, <2>1 DEF BeforeAt
<1>16. Before(D, E)
  BY <1>4, <1>9, <1>15, BeforePointwise
<1> QED  BY <1>16 DEF D, E

\* And no other numbers of Width bytes are in byte order.
LEMMA DigitsOrder ==
    ASSUME NEW a \in 0..(Limit - 1), NEW b \in 0..(Limit - 1)
    PROVE  Before(Digits(a, Base, Width), Digits(b, Base, Width)) <=> a < b
<1> DEFINE D == Digits(a, Base, Width)
           E == Digits(b, Base, Width)
<1>1. a \in Nat /\ b \in Nat /\ a < Limit /\ b < Limit
  BY LimitType
<1>2. D \in Str /\ E \in Str
  <2>1. Base \in Nat \ {0} /\ Width \in Nat
    BY BaseType
  <2>2. D \in Seq(Byte) /\ E \in Seq(Byte)
    BY <1>1, <2>1, DigitsType DEF Byte
  <2> QED  BY <2>2, ByteSeq
<1>3. a < b => Before(D, E)
  BY <1>1, DigitsAscend
<1>4. b < a => Before(E, D)
  BY <1>1, DigitsAscend
<1>5. a = b => D = E
  OBVIOUS
<1> HIDE DEF D, E
<1>6. ~(Before(D, E) /\ Before(E, D)) /\ ~Before(D, D)
  BY <1>2, BeforeIrreflexive, BeforeTransitive
<1>7. Before(D, E) <=> a < b
  <2>1. a < b \/ a = b \/ b < a
    BY <1>1
  <2>2. CASE a < b
    BY <1>3, <2>2
  <2>3. CASE a = b
    BY <1>5, <1>6, <2>3
  <2>4. CASE b < a
    <3>1. ~(a < b)
      BY <1>1, <2>4
    <3> QED  BY <1>4, <1>6, <2>4, <3>1
  <2> QED  BY <2>1, <2>2, <2>3, <2>4
<1> QED  BY <1>7 DEF D, E

-----------------------------------------------------------------------------
(* Sequences and sets of entries. *)

LEMMA ToSetEmpty == ToSet(<<>>) = {}
<1>1. DOMAIN <<>> = {}
  OBVIOUS
<1> QED  BY <1>1 DEF ToSet

LEMMA ToSetAppend ==
    ASSUME NEW S, NEW s \in Seq(S), NEW x
    PROVE  ToSet(Append(s, x)) = ToSet(s) \cup {x}
<1> DEFINE N == Len(s)
           T == S \cup {x}
           t == Append(s, x)
<1>1. s \in Seq(T) /\ x \in T
  BY SeqMonotonic
<1>2. /\ N \in Nat /\ DOMAIN s = 1..N /\ DOMAIN t = 1..(N + 1)
      /\ t[N + 1] = x /\ \A i \in 1..N : t[i] = s[i]
  BY <1>1, AppendProperties
<1> HIDE DEF N, t
<1>3. 1..(N + 1) = 1..N \cup {N + 1}
  BY <1>2
<1>4. {t[i] : i \in 1..(N + 1)} = {s[i] : i \in 1..N} \cup {x}
  BY <1>2, <1>3
<1> QED  BY <1>2, <1>4 DEF ToSet, t

LEMMA ToSetTail ==
    ASSUME NEW S, NEW s \in Seq(S), s # <<>>
    PROVE  /\ Head(s) \in S /\ Head(s) = s[1] /\ Tail(s) \in Seq(S)
           /\ Len(Tail(s)) = Len(s) - 1 /\ Len(s) \in Nat \ {0}
           /\ \A i \in 1..(Len(s) - 1) : Tail(s)[i] = s[i + 1]
           /\ ToSet(s) = {Head(s)} \cup ToSet(Tail(s))
<1> DEFINE N == Len(s)
           t == Tail(s)
<1>1. /\ Head(s) \in S /\ Head(s) = s[1] /\ t \in Seq(S)
      /\ Len(t) = N - 1 /\ N \in Nat \ {0}
      /\ \A i \in 1..(N - 1) : t[i] = s[i + 1]
  BY HeadTailProperties, EmptySeq
<1>2. DOMAIN s = 1..N /\ DOMAIN t = 1..(N - 1)
  BY <1>1
<1>3. ToSet(s) \subseteq {s[1]} \cup ToSet(t)
  <2> SUFFICES ASSUME NEW i \in 1..N  PROVE s[i] \in {s[1]} \cup ToSet(t)
    BY <1>2 DEF ToSet
  <2>1. CASE i # 1
    <3>1. i - 1 \in 1..(N - 1) /\ (i - 1) + 1 = i
      BY <1>1, <2>1
    <3> QED  BY <1>1, <1>2, <3>1 DEF ToSet
  <2> QED  BY <2>1
<1>4. {s[1]} \cup ToSet(t) \subseteq ToSet(s)
  <2>1. 1 \in 1..N
    BY <1>1
  <2>2. ASSUME NEW i \in 1..(N - 1)  PROVE t[i] \in ToSet(s)
    <3>1. i + 1 \in 1..N
      BY <1>1
    <3> QED  BY <1>1, <1>2, <3>1 DEF ToSet
  <2> QED  BY <1>2, <2>1, <2>2 DEF ToSet
<1> QED  BY <1>1, <1>3, <1>4

LEMMA ToSetRange ==
    ASSUME NEW S, NEW s \in Seq(S)
    PROVE  ToSet(s) \subseteq S /\ (s = <<>> <=> ToSet(s) = {})
<1>1. ToSet(s) \subseteq S
  <2>1. \A i \in DOMAIN s : s[i] \in S
    OBVIOUS
  <2> QED  BY <2>1 DEF ToSet
<1>2. ASSUME s # <<>>  PROVE ToSet(s) # {}
  <2>1. ToSet(s) = {Head(s)} \cup ToSet(Tail(s))
    BY <1>2, ToSetTail
  <2> QED  BY <2>1
<1> QED  BY <1>1, <1>2, ToSetEmpty

\* SetToSeq lists the elements of a finite set.
LEMMA SetToSeqList ==
    ASSUME NEW S, IsFiniteSet(S)
    PROVE  /\ SetToSeq(S) \in Seq(S) /\ Len(SetToSeq(S)) = Cardinality(S)
           /\ ToSet(SetToSeq(S)) = S
<1> DEFINE N == Cardinality(S)
           f == SetToSeq(S)
<1>1. N \in Nat /\ ExistsBijection(1..N, S)
  BY FS_CardinalityType
<1>2. PICK g : g \in Bijection(1..N, S)
  BY <1>1 DEF ExistsBijection
<1>3. g \in [1..N -> S] /\ IsInjective(g)
  BY <1>2 DEF Bijection, Injection, IsInjective
<1>4. f \in [1..N -> S] /\ IsInjective(f)
  BY <1>3 DEF SetToSeq
<1> HIDE DEF f
<1>5. IsFiniteSet(1..N) /\ Cardinality(1..N) = N
  BY <1>1, FS_Interval
<1>6. f \in Injection(1..N, S)
  BY <1>4 DEF Injection, IsInjective
<1>7. f \in Surjection(1..N, S)
  BY <1>5, <1>6, FS_Injection
<1>8. {f[i] : i \in 1..N} = S
  BY <1>4, <1>7 DEF Surjection
<1>9. f \in Seq(S) /\ Len(f) = N
  BY <1>1, <1>4, SeqDef
<1>10. ToSet(f) = S
  BY <1>4, <1>8 DEF ToSet
<1> QED  BY <1>9, <1>10 DEF f

LEMMA KeyOfType ==
    ASSUME NEW kd \in Kind, NEW n \in 0..(Limit - 1)  PROVE KeyOf(kd, n) \in Key(kd)
<1>1. n \in Nat /\ Base \in Nat \ {0} /\ Width \in Nat
  BY LimitType, BaseType
<1>2. Digits(n, Base, Width) \in Seq(Byte) /\ Len(Digits(n, Base, Width)) = Width
  BY <1>1, DigitsType DEF Byte
<1> QED  BY <1>2, KeyByKind DEF KeyOf, Kind

(***************************************************************************)
(* The bytes of keys are ordered as the numbers they stand for, whatever   *)
(* the type of the keys: the stores, which compare bytes, give Uint32Keys  *)
(* back in ascending order ("Ordering is guaranteed", src/store.go).       *)
(***************************************************************************)
THEOREM KeysInOrder ==
    ASSUME NEW kd \in Kind, NEW m \in 0..(Limit - 1), NEW n \in 0..(Limit - 1)
    PROVE  Before(Bytes(kd, KeyOf(kd, m)), Bytes(kd, KeyOf(kd, n))) <=> m < n
<1>1. ASSUME NEW i \in 0..(Limit - 1)
      PROVE  Bytes(kd, KeyOf(kd, i)) = Digits(i, Base, Width)
  BY DEF Bytes, KeyOf, Uint32Bytes
<1> QED  BY <1>1, DigitsOrder

\* An entry is the name of a shelf and a key.
LEMMA EntryType ==
    ASSUME NEW kd \in Kind, NEW e \in Entry(kd)
    PROVE  e = <<e[1], e[2]>> /\ e[1] \in {This, Other} /\ e[2] \in Key(kd)
<1>1. Number \subseteq 0..(Limit - 1)
  BY ShelfAssumption, LimitType
<1>2. PICK s \in {This, Other}, n \in 0..(Limit - 1) : e = <<s, KeyOf(kd, n)>>
  BY <1>1, ShelfAssumption DEF Entry, Numbers
<1> QED  BY <1>2, KeyOfType

LEMMA KeysOfEntries ==
    ASSUME NEW kd \in Kind, NEW A \in SUBSET Entry(kd), NEW k
    PROVE  /\ k \in KeysOf(A) <=> <<This, k>> \in A
           /\ k \in KeysOf(A) => k \in Key(kd)
BY EntryType DEF KeysOf

LEMMA KeysOfMonotone == ASSUME NEW A, NEW B, A \subseteq B  PROVE KeysOf(A) \subseteq KeysOf(B)
BY DEF KeysOf

\* An image of a finite set is finite and not larger.
LEMMA ImageFinite ==
    ASSUME NEW S, IsFiniteSet(S), NEW f, DOMAIN f = S
    PROVE  IsFiniteSet({f[x] : x \in S}) /\ Cardinality({f[x] : x \in S}) <= Cardinality(S)
<1> DEFINE T == {f[x] : x \in S}
           g == [x \in S |-> f[x]]
<1>1. g \in Surjection(S, T)
  BY DEF Surjection
<1> QED  BY <1>1, FS_Surjection

\* A database has finitely many entries.
LEMMA EntryFinite == ASSUME NEW kd \in Kind  PROVE IsFiniteSet(Entry(kd))
<1> DEFINE I == 0..(Limit - 1)
           f == [n \in I |-> <<This, KeyOf(kd, n)>>]
           g == [n \in I |-> <<Other, KeyOf(kd, n)>>]
           A == {f[n] : n \in I}
           B == {g[n] : n \in I}
<1>1. IsFiniteSet(I)
  BY LimitType, FS_Interval
<1>2. IsFiniteSet(A) /\ IsFiniteSet(B)
  BY <1>1, ImageFinite
<1>3. IsFiniteSet(A \cup B)
  BY <1>2, FS_Union
<1>4. Entry(kd) \subseteq A \cup B
  <2>1. Number \subseteq I /\ OtherNumber \subseteq I
    BY ShelfAssumption, LimitType
  <2> QED  BY <2>1 DEF Entry, Numbers
<1> QED  BY <1>3, <1>4, FS_Subset

-----------------------------------------------------------------------------
(* The inductive invariant. *)

\* What TypeOK says, and what it rests on.
Types ==
    /\ kind \in Kind /\ ctx \in {"live", "done"} /\ writes \in 0..MaxWrites
    /\ pc \in {"idle", "run", "visit"} \cup Outcome
    /\ rest \subseteq always /\ always \subseteq db /\ db \subseteq ever
    /\ ever \subseteq Entry(kind)

\* The page of Redis and its values.
Pages ==
    /\ page \in Seq(Str) /\ values \in Seq(BOOLEAN)
    /\ Len(page) <= PageSize + 1 /\ (pc = "run" => Len(page) <= PageSize)
    /\ Len(values) \in {0, Len(page)}
    /\ pc \in {"idle", "run"} => values = <<>>
    /\ pc = "visit" => Len(values) = Len(page)

\* The call, and that only Redis' database changes under it.
Calls ==
    /\ call.store \in {"none", "bbolt", "badger", "redis"}
    /\ call.op \in {"none", "range", "iterate", "empty"}
    /\ call.store = "none" <=> pc = "idle"
    /\ call.op = "none" <=> pc = "idle"
    /\ call.op # "range" => call.stopAtNil = FALSE
    /\ pc = "visit" => call.store = "redis" /\ call.op \in {"range", "iterate"}
    /\ pc \in {"true", "false"} => call.op = "empty"
    /\ call.store # "redis" => always = db /\ ever = db /\ rest = {}
    /\ pc = "idle" => seen = <<>> /\ page = <<>>
    /\ call.op = "range" /\ call.store = "redis" => curr \in Key(kind)

\* bbolt and Badger: a key of the shelf is at or after the cursor or delivered.
Cursor ==
    call.store \in {"bbolt", "badger"} /\ call.op \in {"iterate", "empty"} =>
        /\ todo \subseteq Stored(call.store)
        /\ call.store = "badger" => \A s \in todo : ~Before(s, This)
        /\ seen \in Seq(KeysOf(db))
        /\ \A k \in KeysOf(db) :
              Located(call.store, Bytes(kind, k)) \in todo \/ k \in ToSet(seen)
        /\ call.op = "empty" => seen = <<>>
        /\ pc = "nil" => KeysOf(db) \subseteq ToSet(seen)
        /\ pc = "true" => KeysOf(db) = {}
        /\ pc = "false" => KeysOf(db) # {}

\* Redis' Iterate: a key that was there all along is to be scanned, in the page
\* or delivered, and MGET found it.
Scanning ==
    call.store = "redis" /\ call.op = "iterate" =>
        /\ seen \in Seq(KeysOf(ever))
        /\ page \in Seq({RedisKey(k) : k \in KeysOf(ever)})
        /\ \A k \in KeysOf(always) :
              \/ <<This, k>> \in rest
              \/ RedisKey(k) \in ToSet(page)
              \/ k \in ToSet(seen)
        /\ pc = "visit" =>
              \A i \in DOMAIN page, k \in KeysOf(always) :
                  page[i] = RedisKey(k) => values[i] = TRUE
        /\ pc = "nil" => KeysOf(always) \subseteq ToSet(seen)

\* Redis' Empty.
ScanningOnce ==
    call.store = "redis" /\ call.op = "empty" =>
        /\ pc = "run" => rest = always
        /\ pc = "true" /\ rest = {} => KeysOf(always) = {}
        /\ pc = "false" => KeysOf(ever) # {}

ShelfInv == Types /\ Pages /\ Calls /\ Cursor /\ Scanning /\ ScanningOnce

-----------------------------------------------------------------------------
(* The cursor of bbolt and of Badger. *)

LEMMA PrefixPointwise ==
    ASSUME NEW p \in Str, NEW s \in Str
    PROVE  IsPrefix(p, s) <=> Len(p) <= Len(s) /\ \A i \in 1..Len(p) : p[i] = s[i]
<1>1. Len(p) \in Nat /\ Len(s) \in Nat
  BY DEF Str
<1> QED  BY <1>1, SubSeqAgree DEF IsPrefix

\* A stored key of Badger: the name can be taken off again.
LEMMA NamedKey ==
    ASSUME NEW p \in Str, NEW b \in Str
    PROVE  /\ p \o b \in Str /\ IsPrefix(p, p \o b) /\ ~Before(p \o b, p)
           /\ SubSeq(p \o b, Len(p) + 1, Len(p \o b)) = b
<1> DEFINE s == p \o b
<1>1. /\ s \in Str /\ Len(s) = Len(p) + Len(b) /\ Len(p) \in Nat /\ Len(b) \in Nat
      /\ \A i \in 1..Len(p) : s[i] = p[i] /\ p[i] \in Nat
      /\ \A i \in 1..Len(b) : s[Len(p) + i] = b[i]
  BY ConcatProperties DEF Str
<1> HIDE DEF s
<1>2. IsPrefix(p, s)
  BY <1>1, PrefixPointwise
<1>3. ~Before(s, p)
  <2> SUFFICES ASSUME NEW n \in Nat, BeforeAt(s, p, n)  PROVE FALSE
    BY <1>1, BeforePointwise
  <2>1. n < Len(p) /\ n < Len(s) /\ n + 1 \in 1..Len(p) /\ s[n + 1] < p[n + 1]
    BY <1>1 DEF BeforeAt
  <2> QED  BY <1>1, <2>1
<1>4. SubSeq(s, Len(p) + 1, Len(s)) = b
  <2> DEFINE t == SubSeq(s, Len(p) + 1, Len(s))
  <2>1. t = [i \in 1..Len(b) |-> s[i + Len(p)]]
    <3>1. t = [i \in 1..(Len(s) - (Len(p) + 1) + 1) |-> s[i + (Len(p) + 1) - 1]]
      BY <1>1 DEF Str
    <3>2. Len(s) - (Len(p) + 1) + 1 = Len(b)
      BY <1>1
    <3>3. \A i \in 1..Len(b) : i + (Len(p) + 1) - 1 = i + Len(p)
      BY <1>1
    <3> HIDE DEF t
    <3> QED  BY <3>1, <3>2, <3>3
  <2>2. b = [i \in 1..Len(b) |-> b[i]]
    BY DEF Str
  <2>3. \A i \in 1..Len(b) : s[i + Len(p)] = b[i]
    <3>1. \A i \in 1..Len(b) : i + Len(p) = Len(p) + i
      BY <1>1
    <3> QED  BY <1>1, <3>1
  <2> QED  BY <2>1, <2>2, <2>3
<1> QED  BY <1>1, <1>2, <1>3, <1>4 DEF s

\* A stored key has the name of its own shelf in front and no other.
LEMMA OwnName ==
    ASSUME NEW b \in Str, IsPrefix(This, Other \o b)  PROVE FALSE
<1> DEFINE s == Other \o b
<1>1. This \in Str /\ Other \in Str
  BY NameAssumption DEF Str
<1>2. /\ s \in Str /\ Len(s) = Len(Other) + Len(b) /\ Len(Other) \in Nat /\ Len(This) \in Nat
      /\ \A i \in 1..Len(Other) : s[i] = Other[i]
  BY <1>1, ConcatProperties DEF Str
<1> HIDE DEF s
<1>3. \A i \in 1..Len(This) : This[i] = s[i]
  BY <1>1, <1>2, PrefixPointwise DEF s
<1>4. CASE Len(This) <= Len(Other)
  <2>1. \A i \in 1..Len(This) : This[i] = Other[i]
    BY <1>2, <1>3, <1>4
  <2> QED  BY <1>1, <1>4, <2>1, PrefixPointwise, NameAssumption
<1>5. CASE Len(Other) <= Len(This)
  <2>1. \A i \in 1..Len(Other) : Other[i] = This[i]
    BY <1>2, <1>3, <1>5
  <2> QED  BY <1>1, <1>5, <2>1, PrefixPointwise, NameAssumption
<1> QED  BY <1>2, <1>4, <1>5

\* The stored keys of the shelf This, and what they are parsed to.
LEMMA StoredKeys ==
    ASSUME Types, NEW store \in {"bbolt", "badger"}
    PROVE  /\ Stored(store) \subseteq Str /\ IsFiniteSet(Stored(store))
           /\ \A k \in KeysOf(db) : Located(store, Bytes(kind, k)) \in Stored(store)
           /\ \A s \in Stored("bbolt") : \E k \in KeysOf(db) : s = Bytes(kind, k)
           /\ \A s \in Stored("badger") :
                 IsPrefix(This, s) => \E k \in KeysOf(db) : s = This \o Bytes(kind, k)
<1>1. kind \in Kind /\ db \subseteq Entry(kind) /\ This \in Str /\ Other \in Str
  BY NameAssumption DEF Types, Str
<1>2. IsFiniteSet(db)
  BY <1>1, EntryFinite, FS_Subset
<1>3. \A e \in db : Bytes(kind, e[2]) \in Str /\ e[1] \in {This, Other} /\ e = <<e[1], e[2]>>
  BY <1>1, EntryType, BytesRoundTrip
<1>4. /\ Stored("bbolt") = {Bytes(kind, k) : k \in KeysOf(db)}
      /\ Stored("badger") = {e[1] \o Bytes(kind, e[2]) : e \in db}
  BY DEF Stored
<1>5. Stored("bbolt") \subseteq Str
  BY <1>3, <1>4 DEF KeysOf
<1>6. Stored("badger") \subseteq Str
  <2>1. \A p, b \in Str : p \o b \in Str
    BY NamedKey
  <2>2. \A e \in db : e[1] \in Str
    BY <1>1, <1>3
  <2> QED  BY <1>3, <1>4, <2>1, <2>2
<1>7. IsFiniteSet(Stored("badger"))
  <2> DEFINE f == [e \in db |-> e[1] \o Bytes(kind, e[2])]
  <2>1. {f[e] : e \in db} = Stored("badger") /\ DOMAIN f = db
    BY <1>4
  <2>2. IsFiniteSet({f[e] : e \in db})
    <3> HIDE DEF f
    <3> QED  BY <1>2, <2>1, ImageFinite
  <2> QED  BY <2>1, <2>2
<1>8. IsFiniteSet(Stored("bbolt"))
  <2> DEFINE f == [e \in db |-> Bytes(kind, e[2])]
  <2>1. Stored("bbolt") \subseteq {f[e] : e \in db} /\ DOMAIN f = db
    BY <1>4 DEF KeysOf
  <2>2. IsFiniteSet({f[e] : e \in db})
    <3> HIDE DEF f
    <3> QED  BY <1>2, <2>1, ImageFinite
  <2> QED  BY <2>1, <2>2, FS_Subset
<1>9. \A k \in KeysOf(db) : Located(store, Bytes(kind, k)) \in Stored(store)
  BY <1>4 DEF Located, KeysOf
<1>10. ASSUME NEW s \in Stored("badger"), IsPrefix(This, s)
       PROVE  \E k \in KeysOf(db) : s = This \o Bytes(kind, k)
  <2>1. PICK e \in db : s = e[1] \o Bytes(kind, e[2])
    BY <1>4
  <2>2. e[1] = This
    BY <1>3, <1>10, <2>1, OwnName
  <2>3. e[2] \in KeysOf(db)
    BY <2>2 DEF KeysOf
  <2> QED  BY <2>1, <2>2, <2>3
<1> QED  BY <1>4, <1>5, <1>6, <1>7, <1>8, <1>9, <1>10

\* A cursor that has keys is at the first of them.
LEMMA CurrentFirst ==
    ASSUME Types, NEW store \in {"bbolt", "badger"}, todo \subseteq Stored(store), todo # {}
    PROVE  /\ Current \in todo /\ Current \in Str
           /\ \A m \in todo : m = Current \/ Before(Current, m)
<1>1. todo \subseteq Str /\ IsFiniteSet(todo)
  BY StoredKeys, FS_Subset
<1>2. \E k \in todo : \A m \in todo \ {k} : Before(k, m)
  BY <1>1, FirstExists
<1>3. Current \in todo /\ \A m \in todo \ {Current} : Before(Current, m)
  BY <1>2 DEF Current
<1> QED  BY <1>1, <1>3

\* Badger's cursor has left the shelf only when none of its keys is ahead.
LEMMA CursorLeft ==
    ASSUME Types, todo \subseteq Stored("badger"), \A s \in todo : ~Before(s, This),
           ~ValidForPrefix, NEW k \in KeysOf(db)
    PROVE  This \o Bytes(kind, k) \notin todo
<1> SUFFICES ASSUME This \o Bytes(kind, k) \in todo  PROVE FALSE
  OBVIOUS
<1>1. This \in Str /\ Bytes(kind, k) \in Str
  <2>1. db \in SUBSET Entry(kind) /\ kind \in Kind
    BY DEF Types
  <2>2. k \in Key(kind)
    BY <2>1, KeysOfEntries
  <2> QED  BY <2>1, <2>2, BytesRoundTrip, NameAssumption DEF Str
<1> DEFINE s == This \o Bytes(kind, k)
<1>2. s \in Str /\ IsPrefix(This, s)
  BY <1>1, NamedKey
<1>3. Current \in todo /\ Current \in Str /\ (s = Current \/ Before(Current, s))
  BY CurrentFirst
<1> HIDE DEF s
<1>4. IsPrefix(This, Current)
  BY <1>1, <1>2, <1>3, PrefixConvex
<1> QED  BY <1>3, <1>4 DEF ValidForPrefix

-----------------------------------------------------------------------------
(* The steps that end a call, and those of bbolt and Badger. *)

LEMMA InitShelf == Init => ShelfInv
<1> SUFFICES ASSUME Init  PROVE ShelfInv
  OBVIOUS
<1>1. Types
  BY ShelfAssumption DEF Init, Types, Outcome
<1>2. Pages
  BY ShelfAssumption DEF Init, Pages, Str
<1>3. Calls /\ Cursor /\ Scanning /\ ScanningOnce
  BY DEF Init, NoCall, Calls, Cursor, Scanning, ScanningOnce
<1> QED  BY <1>1, <1>2, <1>3 DEF ShelfInv

\* What a call must have done to return with this outcome.
Earned(outcome) ==
    /\ outcome \in {"true", "false"} => call.op = "empty" /\ call.store # "redis"
    /\ call.store \in {"bbolt", "badger"} /\ call.op \in {"iterate", "empty"} =>
          /\ outcome = "nil" => KeysOf(db) \subseteq ToSet(seen)
          /\ outcome = "true" => KeysOf(db) = {}
          /\ outcome = "false" => KeysOf(db) # {}
    /\ call.store = "redis" /\ call.op = "iterate" /\ outcome = "nil" =>
          KeysOf(always) \subseteq ToSet(seen)

LEMMA ReturnStep ==
    ASSUME ShelfInv, pc \in {"run", "visit"}, NEW outcome \in Outcome, Earned(outcome),
           Return(outcome)
    PROVE  ShelfInv'
<1> USE DEF Return, callVars, dbVars, cursorVars, redisVars
<1>1. pc' = outcome /\ pc' \notin {"idle", "run", "visit"}
  BY DEF Outcome
<1>2. Types'
  BY DEF ShelfInv, Types, Entry, Numbers
<1>3. Pages'
  BY <1>1 DEF ShelfInv, Pages
<1>4. Calls'
  BY <1>1 DEF ShelfInv, Calls, Earned
<1>5. Cursor'
  BY DEF ShelfInv, Cursor, Earned, Stored, Located
<1>6. Scanning'
  BY <1>1 DEF ShelfInv, Scanning, Earned, RedisKey
<1>7. ScanningOnce'
  BY <1>1 DEF ShelfInv, ScanningOnce, Earned
<1> QED  BY <1>2, <1>3, <1>4, <1>5, <1>6, <1>7 DEF ShelfInv

LEMMA StartStep ==
    ASSUME ShelfInv, NEW store \in {"bbolt", "badger", "redis"},
           NEW op \in {"range", "iterate", "empty"}, NEW from, NEW to, NEW stop,
           op = "range" => from \in Key(kind),
           op # "range" => from = Nil /\ stop = FALSE,
           Start(store, op, from, to, stop)
    PROVE  ShelfInv'
<1> USE DEF Start, dbVars
<1>1. /\ pc = "idle" /\ pc' = "run" /\ always = db /\ ever = db /\ rest = {}
      /\ call'.store = store /\ call'.op = op /\ call'.stopAtNil = stop
      /\ kind' = kind /\ db' = db /\ always' = always /\ ever' = ever /\ seen' = <<>>
      /\ page' = <<>> /\ values' = <<>>
  BY DEF ShelfInv, Calls, Pages
<1>2. Types'
  BY <1>1 DEF ShelfInv, Types, Entry, Numbers
<1>3. Pages'
  BY <1>1, ShelfAssumption DEF ShelfInv, Pages, Str
<1>4. Calls'
  BY <1>1 DEF ShelfInv, Calls
<1>5. Cursor'
  <2> SUFFICES ASSUME store \in {"bbolt", "badger"}, op \in {"iterate", "empty"}
               PROVE  Cursor'
    BY <1>1 DEF Cursor
  <2>1. Types /\ kind \in Kind /\ db \in SUBSET Entry(kind) /\ This \in Str
    BY NameAssumption DEF ShelfInv, Types, Str
  <2>2. todo' = Seek(store, Located(store, <<>>))
    BY <1>1
  <2>3. Stored(store)' = Stored(store)
    BY <1>1 DEF Stored
  <2>4. ASSUME NEW k \in KeysOf(db)  PROVE Located(store, Bytes(kind, k)) \in todo'
    <3>1. Bytes(kind, k) \in Str
      BY <2>1, KeysOfEntries, BytesRoundTrip
    <3>2. Located(store, Bytes(kind, k)) \in Stored(store)
      BY <2>1, StoredKeys
    <3>3. CASE store = "bbolt"
      <4>1. ~Before(Bytes(kind, k), <<>>)
        BY <3>1, EmptySeq DEF Before, Str
      <4> QED  BY <2>2, <3>2, <3>3, <4>1 DEF Seek, Located
    <3>4. CASE store = "badger"
      <4>1. This \o <<>> = This
        BY <2>1, ConcatEmptySeq DEF Str
      <4>2. ~Before(This \o Bytes(kind, k), This)
        BY <2>1, <3>1, NamedKey
      <4> QED  BY <2>2, <3>2, <3>4, <4>1, <4>2 DEF Seek, Located
    <3> QED  BY <3>3, <3>4
  <2>5. ASSUME store = "badger"  PROVE \A s \in todo' : ~Before(s, This)
    <3>1. This \o <<>> = This
      BY <2>1, ConcatEmptySeq DEF Str
    <3> QED  BY <2>2, <2>5, <3>1 DEF Seek, Located
  <2>6. todo' \subseteq Stored(store) /\ <<>> \in Seq(KeysOf(db))
    BY <2>2 DEF Seek
  <2>7. \A k \in KeysOf(db) : Located(store, Bytes(kind, k)) \in todo'
    BY <2>4
  <2> QED  BY <1>1, <2>3, <2>5, <2>6, <2>7 DEF Cursor
<1>6. Scanning'
  <2> SUFFICES ASSUME store = "redis", op = "iterate"  PROVE Scanning'
    BY <1>1 DEF Scanning
  <2>1. rest' = db
    OBVIOUS
  <2>2. \A k \in KeysOf(db) : <<This, k>> \in db
    BY KeysOfEntries DEF ShelfInv, Types
  <2>3. /\ <<>> \in Seq(KeysOf(ever))
        /\ <<>> \in Seq({RedisKey(k) : k \in KeysOf(ever)}')
    OBVIOUS
  <2> QED  BY <1>1, <2>1, <2>2, <2>3 DEF Scanning
<1>7. ScanningOnce'
  BY <1>1 DEF ScanningOnce
<1> QED  BY <1>2, <1>3, <1>4, <1>5, <1>6, <1>7 DEF ShelfInv

\* A key is delivered by bbolt or Badger: the one at the cursor.
LEMMA DeliverStep ==
    ASSUME ShelfInv, pc = "run", call.store \in {"bbolt", "badger"},
           call.op \in {"range", "iterate"}, NEW key, NEW curKey,
           call.op = "iterate" =>
              /\ key \in KeysOf(db)
              /\ \A k \in KeysOf(db) : Located(call.store, Bytes(kind, k)) = Current => k = key,
           Deliver(key, curKey)
    PROVE  ShelfInv'
<1> USE DEF Deliver, callVars, dbVars, redisVars
<1>1. Types'
  BY DEF ShelfInv, Types, Entry, Numbers, Outcome
<1>2. Pages'
  BY DEF ShelfInv, Pages
<1>3. Calls'
  BY DEF ShelfInv, Calls
<1>4. Cursor'
  <2> SUFFICES ASSUME call.op = "iterate"  PROVE Cursor'
    BY DEF Cursor
  <2>1. /\ todo \subseteq Stored(call.store) /\ seen \in Seq(KeysOf(db))
        /\ call.store = "badger" => \A s \in todo : ~Before(s, This)
        /\ \A k \in KeysOf(db) :
              Located(call.store, Bytes(kind, k)) \in todo \/ k \in ToSet(seen)
    BY DEF ShelfInv, Cursor
  <2>2. seen' \in Seq(KeysOf(db)) /\ ToSet(seen') = ToSet(seen) \cup {key}
    BY <2>1, ToSetAppend
  <2>3. \A k \in KeysOf(db) :
           Located(call.store, Bytes(kind, k)) \in todo' \/ k \in ToSet(seen')
    BY <2>1, <2>2
  <2>4. todo' \subseteq todo /\ Stored(call.store)' = Stored(call.store) /\ call' = call
        /\ kind' = kind /\ db' = db
    BY DEF Stored
  <2>5. pc' \notin {"nil", "true", "false"}
    OBVIOUS
  <2> QED  BY <2>1, <2>2, <2>3, <2>4, <2>5 DEF Cursor
<1>5. Scanning' /\ ScanningOnce'
  BY DEF Scanning, ScanningOnce
<1> QED  BY <1>1, <1>2, <1>3, <1>4, <1>5 DEF ShelfInv

\* A turn of the loop: without a search for gaps, the key is delivered.
LEMMA TurnStep ==
    ASSUME ShelfInv, pc = "run", call.store \in {"bbolt", "badger"},
           call.op \in {"range", "iterate"}, NEW key, NEW curKey,
           call.op = "iterate" /\ key # Nil =>
              /\ key \in KeysOf(db)
              /\ \A k \in KeysOf(db) : Located(call.store, Bytes(kind, k)) = Current => k = key,
           Turn(key, curKey)
    PROVE  ShelfInv'
<1>1. CASE Return("panic") \/ Return("err")
  <2>1. Earned("panic") /\ Earned("err") /\ {"panic", "err"} \subseteq Outcome
    BY DEF Earned, Outcome
  <2> QED  BY <1>1, <2>1, ReturnStep
<1>2. CASE call.op = "range" /\ Return("nil")
  <2>1. Earned("nil") /\ "nil" \in Outcome
    BY <1>2 DEF Earned, Outcome
  <2> QED  BY <1>2, <2>1, ReturnStep
<1>3. CASE key # Nil /\ Deliver(key, curKey)
  BY <1>3, DeliverStep
<1>4. call.op = "iterate" => call.stopAtNil = FALSE
  BY DEF ShelfInv, Calls
<1> QED  BY <1>1, <1>2, <1>3, <1>4 DEF Turn

\* bbolt's cursor is at a key of the shelf, and past all of them at the end.
LEMMA BBoltCursor ==
    ASSUME ShelfInv, call.store = "bbolt", call.op \in {"iterate", "empty"}
    PROVE  /\ todo = {} => KeysOf(db) \subseteq ToSet(seen)
           /\ todo # {} => \E k \in KeysOf(db) : Current = Bytes(kind, k)
           /\ \A k \in KeysOf(db) :
                 Bytes(kind, k) = Current => FromBytes(kind, Current) = k
<1>1. /\ Types /\ todo \subseteq Stored("bbolt")
      /\ \A k \in KeysOf(db) : Located("bbolt", Bytes(kind, k)) \in todo \/ k \in ToSet(seen)
  BY DEF ShelfInv, Cursor
<1>2. \A k \in KeysOf(db) : FromBytes(kind, Bytes(kind, k)) = k
  BY <1>1, KeysOfEntries, BytesRoundTrip DEF Types
<1>3. todo # {} => \E k \in KeysOf(db) : Current = Bytes(kind, k)
  BY <1>1, CurrentFirst, StoredKeys
<1> QED  BY <1>1, <1>2, <1>3

LEMMA BBoltSteps ==
    ASSUME ShelfInv, BBoltRange \/ BBoltIterate \/ BBoltEmpty
    PROVE  ShelfInv'
<1>1. ASSUME NEW inside \in BOOLEAN, pc = "run", call.store = "bbolt",
             call.op \in {"range", "iterate"}, BBoltLoop(inside),
             call.op = "iterate" => inside = (todo # {})
      PROVE  ShelfInv'
  <2>1. CASE ~inside /\ Return("nil")
    <3>1. Earned("nil") /\ "nil" \in Outcome
      BY <1>1, <2>1, BBoltCursor DEF Earned, Outcome
    <3> QED  BY <1>1, <2>1, <3>1, ReturnStep
  <2>2. CASE Return("ctx") \/ Return("err")
    <3>1. Earned("ctx") /\ Earned("err") /\ {"ctx", "err"} \subseteq Outcome
      BY <1>1 DEF Earned, Outcome
    <3> QED  BY <1>1, <2>2, <3>1, ReturnStep
  <2>3. CASE inside /\ Turn(FromBytes(kind, Current), FromBytes(kind, Current))
    <3>1. ASSUME call.op = "iterate"
          PROVE  /\ FromBytes(kind, Current) \in KeysOf(db)
                 /\ \A k \in KeysOf(db) : Located(call.store, Bytes(kind, k)) = Current
                                            => k = FromBytes(kind, Current)
      BY <1>1, <2>3, <3>1, BBoltCursor DEF Located
    <3> QED  BY <1>1, <2>3, <3>1, TurnStep
  <2> QED  BY <1>1, <2>1, <2>2, <2>3 DEF BBoltLoop
<1>2. CASE BBoltRange
  <2> DEFINE inside == todo # {} /\ Before(Current, Bytes(kind, call.to))
  <2>1. inside \in BOOLEAN
    OBVIOUS
  <2>2. pc = "run" /\ call.store = "bbolt" /\ call.op = "range" /\ BBoltLoop(inside)
    BY <1>2 DEF BBoltRange, Running
  <2> HIDE DEF inside
  <2> QED  BY <1>1, <2>1, <2>2
<1>3. CASE BBoltIterate
  <2> DEFINE inside == todo # {}
  <2>1. inside \in BOOLEAN
    OBVIOUS
  <2>2. pc = "run" /\ call.store = "bbolt" /\ call.op = "iterate" /\ BBoltLoop(inside)
    BY <1>3 DEF BBoltIterate, Running
  <2>3. inside = (todo # {})
    OBVIOUS
  <2> HIDE DEF inside
  <2> QED  BY <1>1, <2>1, <2>2, <2>3
<1>4. CASE BBoltEmpty
  <2>1. pc = "run" /\ call.store = "bbolt" /\ call.op = "empty"
    BY <1>4 DEF BBoltEmpty, Running
  <2>2. seen = <<>> /\ ToSet(seen) = {}
    BY <2>1, ToSetEmpty DEF ShelfInv, Cursor
  <2>3. CASE todo = {}
    <3>1. Return("true") /\ Earned("true") /\ "true" \in Outcome
      BY <1>4, <2>1, <2>2, <2>3, BBoltCursor DEF BBoltEmpty, Earned, Outcome
    <3> QED  BY <2>1, <3>1, ReturnStep
  <2>4. CASE todo # {}
    <3>1. Return("false") /\ Earned("false") /\ "false" \in Outcome
      BY <1>4, <2>1, <2>4, BBoltCursor DEF BBoltEmpty, Earned, Outcome
    <3> QED  BY <2>1, <3>1, ReturnStep
  <2> QED  BY <2>3, <2>4
<1> QED  BY <1>2, <1>3, <1>4

\* Badger's cursor is at a key of the shelf, or past all of them.
LEMMA BadgerCursor ==
    ASSUME ShelfInv, call.store = "badger", call.op \in {"iterate", "empty"}
    PROVE  /\ ~ValidForPrefix => KeysOf(db) \subseteq ToSet(seen)
           /\ ValidForPrefix => \E k \in KeysOf(db) : Current = This \o Bytes(kind, k)
           /\ \A k \in KeysOf(db) :
                 This \o Bytes(kind, k) = Current
                   => FromBytes(kind, SubSeq(Current, Len(This) + 1, Len(Current))) = k
<1>1. /\ Types /\ todo \subseteq Stored("badger") /\ \A s \in todo : ~Before(s, This)
      /\ \A k \in KeysOf(db) : Located("badger", Bytes(kind, k)) \in todo \/ k \in ToSet(seen)
  BY DEF ShelfInv, Cursor
<1>2. \A k \in KeysOf(db) : Bytes(kind, k) \in Str /\ FromBytes(kind, Bytes(kind, k)) = k
  BY <1>1, KeysOfEntries, BytesRoundTrip DEF Types
<1>3. This \in Str
  BY NameAssumption DEF Str
<1>4. ASSUME ~ValidForPrefix  PROVE KeysOf(db) \subseteq ToSet(seen)
  <2>1. \A k \in KeysOf(db) : This \o Bytes(kind, k) \notin todo
    BY <1>1, <1>4, CursorLeft
  <2> QED  BY <1>1, <2>1 DEF Located
<1>5. ASSUME ValidForPrefix
      PROVE  \E k \in KeysOf(db) : Current = This \o Bytes(kind, k)
  <2>1. todo # {} /\ IsPrefix(This, Current)
    BY <1>5 DEF ValidForPrefix
  <2>2. Current \in Stored("badger")
    BY <1>1, <2>1, CurrentFirst
  <2> QED  BY <1>1, <2>1, <2>2, StoredKeys
<1>6. ASSUME NEW k \in KeysOf(db), This \o Bytes(kind, k) = Current
      PROVE  FromBytes(kind, SubSeq(Current, Len(This) + 1, Len(Current))) = k
  <2>1. SubSeq(Current, Len(This) + 1, Len(Current)) = Bytes(kind, k)
    BY <1>2, <1>3, <1>6, NamedKey
  <2> QED  BY <1>2, <2>1
<1> QED  BY <1>4, <1>5, <1>6

LEMMA BadgerSteps ==
    ASSUME ShelfInv, BadgerRange \/ BadgerIterate \/ BadgerEmpty
    PROVE  ShelfInv'
<1> DEFINE key == FromBytes(kind, SubSeq(Current, Len(This) + 1, Len(Current)))
<1>1. ASSUME NEW inside \in BOOLEAN, pc = "run", call.store = "badger",
             call.op \in {"range", "iterate"}, BadgerLoop(inside),
             call.op = "iterate" => inside = ValidForPrefix
      PROVE  ShelfInv'
  <2>1. CASE ~inside /\ Return("nil")
    <3>1. Earned("nil") /\ "nil" \in Outcome
      BY <1>1, <2>1, BadgerCursor DEF Earned, Outcome
    <3> QED  BY <1>1, <2>1, <3>1, ReturnStep
  <2>2. CASE Return("ctx")
    <3>1. Earned("ctx") /\ "ctx" \in Outcome
      BY <1>1 DEF Earned, Outcome
    <3> QED  BY <1>1, <2>2, <3>1, ReturnStep
  <2>3. CASE inside /\ Turn(key, FromBytes(kind, Current))
    <3>1. ASSUME call.op = "iterate"
          PROVE  /\ key \in KeysOf(db)
                 /\ \A k \in KeysOf(db) : Located(call.store, Bytes(kind, k)) = Current
                                            => k = key
      BY <1>1, <2>3, <3>1, BadgerCursor DEF Located
    <3> HIDE DEF key
    <3> QED  BY <1>1, <2>3, <3>1, TurnStep
  <2> QED  BY <1>1, <2>1, <2>2, <2>3 DEF BadgerLoop
<1>2. CASE BadgerRange
  <2> DEFINE inside == ValidForPrefix /\ Before(Current, This \o Bytes(kind, call.to))
  <2>1. inside \in BOOLEAN
    OBVIOUS
  <2>2. pc = "run" /\ call.store = "badger" /\ call.op = "range" /\ BadgerLoop(inside)
    BY <1>2 DEF BadgerRange, Running
  <2> HIDE DEF inside
  <2> QED  BY <1>1, <2>1, <2>2
<1>3. CASE BadgerIterate
  <2>1. ValidForPrefix \in BOOLEAN
    BY DEF ValidForPrefix
  <2>2. pc = "run" /\ call.store = "badger" /\ call.op = "iterate" /\ BadgerLoop(ValidForPrefix)
    BY <1>3 DEF BadgerIterate, Running
  <2> QED  BY <1>1, <2>1, <2>2
<1>4. CASE BadgerEmpty
  <2>1. pc = "run" /\ call.store = "badger" /\ call.op = "empty"
    BY <1>4 DEF BadgerEmpty, Running
  <2>2. seen = <<>> /\ ToSet(seen) = {}
    BY <2>1, ToSetEmpty DEF ShelfInv, Cursor
  <2>3. CASE ~ValidForPrefix
    <3>1. Return("true") /\ Earned("true") /\ "true" \in Outcome
      BY <1>4, <2>1, <2>2, <2>3, BadgerCursor DEF BadgerEmpty, Earned, Outcome
    <3> QED  BY <2>1, <3>1, ReturnStep
  <2>4. CASE ValidForPrefix
    <3>1. Return("false") /\ Earned("false") /\ "false" \in Outcome
      BY <1>4, <2>1, <2>4, BadgerCursor DEF BadgerEmpty, Earned, Outcome
    <3> QED  BY <2>1, <3>1, ReturnStep
  <2> QED  BY <2>3, <2>4
<1> QED  BY <1>2, <1>3, <1>4

-----------------------------------------------------------------------------
(* The steps of Redis. *)

\* curr.Next() in Range.
LEMMA AdvanceCurr ==
    ASSUME ShelfInv, call.store = "redis", call.op = "range", Advance
    PROVE  curr' \in Key(kind) /\ pc' \in {"run", "panic"}
<1>1. kind \in Kind /\ curr \in Key(kind)
  BY DEF ShelfInv, Types, Calls
<1>2. NextKey(kind, curr) \in Key(kind) \cup {Nil}
  BY <1>1, NextKeyType
<1> QED  BY <1>1, <1>2 DEF Advance

LEMMA RedisCollectStep == ASSUME ShelfInv, RedisCollect  PROVE ShelfInv'
<1> USE DEF RedisCollect, callVars, dbVars, cursorVars
<1>1. /\ pc = "run" /\ call.store = "redis" /\ call.op = "range"
      /\ kind' = kind /\ call' = call /\ db' = db /\ always' = always /\ ever' = ever
      /\ rest' = rest /\ seen' = seen /\ ctx' = ctx /\ writes' = writes /\ values' = values
      /\ page' = Append(page, RedisKey(curr)) /\ Len(page) < PageSize
  BY DEF Running
<1>2. curr' \in Key(kind) /\ pc' \in {"run", "panic"}
  BY <1>1, AdvanceCurr
<1> HIDE DEF RedisCollect
<1>3. Types'
  BY <1>1, <1>2 DEF ShelfInv, Types, Entry, Numbers, Outcome
<1>4. Pages'
  <2>1. RedisKey(curr) \in Str
    BY <1>1, StringRoundTrip DEF ShelfInv, Types, Calls, RedisKey
  <2>2. page \in Seq(Str) /\ Len(page) \in Nat /\ PageSize \in Nat /\ values = <<>>
    BY <1>1, ShelfAssumption DEF ShelfInv, Pages
  <2>3. page' \in Seq(Str) /\ Len(page') = Len(page) + 1
    BY <1>1, <2>1, <2>2, AppendProperties
  <2>4. values' = <<>> /\ values' \in Seq(BOOLEAN) /\ Len(values') = 0
    BY <1>1, <2>2
  <2>5. Len(page') <= PageSize
    BY <1>1, <2>2, <2>3
  <2>6. Len(page') <= PageSize + 1
    BY <2>2, <2>3, <2>5
  <2> QED  BY <1>2, <2>3, <2>4, <2>5, <2>6 DEF Pages
<1>5. Calls'
  BY <1>1, <1>2 DEF ShelfInv, Calls
<1>6. Cursor' /\ Scanning' /\ ScanningOnce'
  BY <1>1 DEF Cursor, Scanning, ScanningOnce
<1> QED  BY <1>3, <1>4, <1>5, <1>6 DEF ShelfInv

\* MGET: a key that was there all along is found.
LEMMA MGetStep ==
    ASSUME ShelfInv, pc = "run", call.store = "redis", call.op \in {"range", "iterate"},
           NEW ds \in Seq(Str), Len(ds) <= PageSize + 1, call.op = "iterate" => ds = page,
           MGet(ds),
           UNCHANGED <<callVars, dbVars, ctx, cursorVars, curr, rest, seen>>
    PROVE  ShelfInv'
<1> USE DEF callVars, dbVars, cursorVars
<1>1. /\ kind' = kind /\ call' = call /\ db' = db /\ always' = always /\ ever' = ever
      /\ rest' = rest /\ seen' = seen /\ ctx' = ctx /\ writes' = writes /\ curr' = curr
  OBVIOUS
<1>2. Types' /\ Calls'
  BY <1>1 DEF ShelfInv, Types, Calls, Entry, Numbers, Outcome, MGet
<1>3. Cursor' /\ ScanningOnce'
  BY <1>1 DEF Cursor, ScanningOnce
<1>4. CASE ctx = "done" \/ ds = <<>>
  <2>1. pc' \in {"ctx", "err"} /\ page' = page /\ values' = values
    BY <1>4 DEF MGet
  <2>2. Pages'
    BY <2>1 DEF ShelfInv, Pages
  <2>3. Scanning'
    BY <1>1, <2>1 DEF ShelfInv, Scanning, RedisKey
  <2> QED  BY <1>2, <1>3, <2>2, <2>3 DEF ShelfInv
<1>5. CASE ~(ctx = "done" \/ ds = <<>>)
  <2>1. pc' = "visit" /\ page' = ds /\ values' = [i \in DOMAIN ds |-> Exists(ds[i])]
    BY <1>5 DEF MGet
  <2>2. DOMAIN ds = 1..Len(ds) /\ Len(ds) \in Nat
    OBVIOUS
  <2>3. values' \in Seq(BOOLEAN) /\ Len(values') = Len(ds)
    <3>1. \A i \in 1..Len(ds) : Exists(ds[i]) \in BOOLEAN
      BY DEF Exists
    <3>2. values' = [i \in 1..Len(ds) |-> Exists(ds[i])]
      BY <2>1, <2>2
    <3>3. values' \in [1..Len(ds) -> BOOLEAN]
      BY <3>1, <3>2
    <3> QED  BY <2>2, <3>3, SeqDef
  <2>4. Pages'
    BY <2>1, <2>3 DEF Pages
  <2>5. Scanning'
    <3> SUFFICES ASSUME call.op = "iterate"  PROVE Scanning'
      BY <1>1 DEF Scanning
    <3>1. KeysOf(always) \subseteq KeysOf(db)
      BY KeysOfMonotone DEF ShelfInv, Types
    <3>2. ASSUME NEW i \in DOMAIN ds, NEW k \in KeysOf(always), ds[i] = RedisKey(k)
          PROVE  values'[i] = TRUE
      <4>1. Exists(ds[i])
        BY <3>1, <3>2 DEF Exists
      <4>2. values'[i] = Exists(ds[i])
        BY <2>1
      <4> QED  BY <4>1, <4>2
    <3>3. page' = page
      BY <2>1
    <3>4. \A k : RedisKey(k)' = RedisKey(k)
      BY <1>1 DEF RedisKey
    <3>5. \A i \in DOMAIN page', k \in KeysOf(always') :
             page'[i] = RedisKey(k) => values'[i] = TRUE
      BY <1>1, <2>1, <3>2
    <3>6. /\ seen \in Seq(KeysOf(ever)) /\ page \in Seq({RedisKey(k) : k \in KeysOf(ever)})
          /\ \A k \in KeysOf(always) :
                <<This, k>> \in rest \/ RedisKey(k) \in ToSet(page) \/ k \in ToSet(seen)
      BY DEF ShelfInv, Scanning
    <3> QED  BY <1>1, <2>1, <3>3, <3>5, <3>6 DEF Scanning, RedisKey
  <2> QED  BY <1>2, <1>3, <2>4, <2>5 DEF ShelfInv
<1> QED  BY <1>4, <1>5

LEMMA RedisPageSteps ==
    ASSUME ShelfInv, RedisFullPage \/ RedisLastPage \/ RedisScanned  PROVE ShelfInv'
<1>1. /\ page \in Seq(Str) /\ Len(page) \in Nat /\ PageSize \in Nat
      /\ Len(page) <= PageSize + 1
  BY ShelfAssumption DEF ShelfInv, Pages
<1>2. CASE RedisFullPage
  <2> DEFINE ds == Append(page, RedisKey(curr))
  <2>1. /\ pc = "run" /\ call.store = "redis" /\ call.op = "range" /\ Len(page) = PageSize
        /\ MGet(ds) /\ UNCHANGED <<callVars, dbVars, ctx, cursorVars, curr, rest, seen>>
    BY <1>2 DEF RedisFullPage, Running
  <2>2. RedisKey(curr) \in Str
    BY <2>1, StringRoundTrip DEF ShelfInv, Types, Calls, RedisKey
  <2>3. ds \in Seq(Str) /\ Len(ds) = Len(page) + 1
    BY <1>1, <2>2, AppendProperties
  <2>4. Len(ds) <= PageSize + 1
    BY <1>1, <2>1, <2>3
  <2> HIDE DEF ds
  <2> QED  BY <2>1, <2>3, <2>4, MGetStep
<1>3. CASE RedisLastPage
  <2>1. /\ pc = "run" /\ call.store = "redis" /\ call.op = "range" /\ MGet(page)
        /\ UNCHANGED <<callVars, dbVars, ctx, cursorVars, curr, rest, seen>>
    BY <1>3 DEF RedisLastPage, Running
  <2> QED  BY <1>1, <2>1, MGetStep
<1>4. CASE RedisScanned
  <2>1. /\ pc = "run" /\ call.store = "redis" /\ call.op = "iterate" /\ MGet(page)
        /\ UNCHANGED <<callVars, dbVars, ctx, cursorVars, curr, rest, seen>>
    BY <1>4 DEF RedisScanned, Running
  <2> QED  BY <1>1, <2>1, MGetStep
<1> QED  BY <1>2, <1>3, <1>4

LEMMA RedisCancelledStep == ASSUME ShelfInv, RedisCancelled  PROVE ShelfInv'
<1>1. Earned("ctx") /\ "ctx" \in Outcome /\ pc = "run" /\ Return("ctx")
  BY DEF RedisCancelled, Running, Earned, Outcome
<1> QED  BY <1>1, ReturnStep

\* A page of SCAN: the strings of the keys examined.
LEMMA ScannedPage ==
    ASSUME ShelfInv, NEW examined \in SUBSET db, Cardinality(examined) <= PageSize
    PROVE  LET S == {RedisKey(k) : k \in KeysOf(examined)}
           IN  /\ SetToSeq(S) \in Seq(S) /\ ToSet(SetToSeq(S)) = S /\ S \subseteq Str
               /\ S \subseteq {RedisKey(k) : k \in KeysOf(ever)}
               /\ Len(SetToSeq(S)) <= PageSize
<1> DEFINE S == {RedisKey(k) : k \in KeysOf(examined)}
           T == {e \in examined : e[1] = This}
           f == [e \in T |-> RedisKey(e[2])]
<1>1. kind \in Kind /\ examined \in SUBSET Entry(kind) /\ examined \subseteq ever
  BY DEF ShelfInv, Types
<1>2. IsFiniteSet(examined)
  BY <1>1, EntryFinite, FS_Subset
<1>3. IsFiniteSet(T) /\ Cardinality(T) <= Cardinality(examined)
  BY <1>2, FS_Subset
<1>4. S = {f[e] : e \in T} /\ DOMAIN f = T
  BY DEF KeysOf
<1>5. IsFiniteSet(S) /\ Cardinality(S) <= Cardinality(T)
  <2>1. IsFiniteSet({f[e] : e \in T}) /\ Cardinality({f[e] : e \in T}) <= Cardinality(T)
    <3> HIDE DEF f, T
    <3> QED  BY <1>3, <1>4, ImageFinite
  <2> QED  BY <1>4, <2>1
<1>6. Cardinality(S) \in Nat /\ Cardinality(T) \in Nat /\ Cardinality(examined) \in Nat
  BY <1>2, <1>3, <1>5, FS_CardinalityType
<1>7. S \subseteq Str
  BY <1>1, KeysOfEntries, StringRoundTrip DEF RedisKey
<1>8. S \subseteq {RedisKey(k) : k \in KeysOf(ever)}
  BY <1>1, KeysOfMonotone
<1>9. SetToSeq(S) \in Seq(S) /\ ToSet(SetToSeq(S)) = S /\ Len(SetToSeq(S)) = Cardinality(S)
  BY <1>5, SetToSeqList
<1> HIDE DEF S, T
<1>10. Len(SetToSeq(S)) <= PageSize
  BY <1>3, <1>5, <1>6, <1>9, ShelfAssumption
<1> QED  BY <1>7, <1>8, <1>9, <1>10 DEF S

LEMMA RedisScanStep == ASSUME ShelfInv, RedisScan  PROVE ShelfInv'
<1>1. pc = "run" /\ call.store = "redis" /\ call.op = "iterate" /\ page = <<>>
  BY DEF RedisScan, Running
<1>2. CASE Return("ctx")
  <2>1. Earned("ctx") /\ "ctx" \in Outcome
    BY DEF Earned, Outcome
  <2> QED  BY <1>1, <1>2, <2>1, ReturnStep
<1>3. ASSUME NEW examined \in SUBSET db, Scan(examined),
             page' = SetToSeq({RedisKey(k) : k \in KeysOf(examined)}),
             pc' = IF IterateDone(page', rest') THEN "nil" ELSE "run",
             UNCHANGED <<callVars, dbVars, ctx, cursorVars, curr, values, seen>>
      PROVE  ShelfInv'
  <2> DEFINE S == {RedisKey(k) : k \in KeysOf(examined)}
  <2>1. /\ page' \in Seq(S) /\ ToSet(page') = S /\ S \subseteq Str
        /\ S \subseteq {RedisKey(k) : k \in KeysOf(ever)}
        /\ Len(page') <= PageSize
    BY <1>3, ScannedPage DEF Scan
  <2>2. /\ kind' = kind /\ call' = call /\ db' = db /\ always' = always /\ ever' = ever
        /\ seen' = seen /\ ctx' = ctx /\ writes' = writes /\ curr' = curr
        /\ values' = values /\ rest' = rest \ examined
    BY <1>3 DEF callVars, dbVars, cursorVars, Scan
  <2>3. Types' /\ Calls'
    BY <1>1, <1>3, <2>2 DEF ShelfInv, Types, Calls, Entry, Numbers, Outcome
  <2>4. Pages'
    <3>1. page' \in Seq(Str) /\ page' \in Seq({RedisKey(k) : k \in KeysOf(ever)})
      BY <2>1, SeqMonotonic
    <3>2. Len(page') \in Nat /\ PageSize \in Nat /\ Len(page') <= PageSize + 1
      BY <2>1, <3>1, ShelfAssumption
    <3>3. values' = <<>> /\ values' \in Seq(BOOLEAN) /\ Len(values') = 0
      BY <1>1, <2>2 DEF ShelfInv, Pages
    <3>4. pc' # "visit"
      BY <1>3
    <3> QED  BY <2>1, <3>1, <3>2, <3>3, <3>4 DEF Pages
  <2>5. Cursor' /\ ScanningOnce'
    BY <1>1, <2>2 DEF Cursor, ScanningOnce
  <2>6. \A k \in KeysOf(always) : \/ <<This, k>> \in rest'
                                  \/ RedisKey(k) \in ToSet(page')
                                  \/ k \in ToSet(seen)
    <3> SUFFICES ASSUME NEW k \in KeysOf(always), k \notin ToSet(seen), <<This, k>> \notin rest'
                 PROVE  RedisKey(k) \in ToSet(page')
      OBVIOUS
    <3>1. <<This, k>> \in rest
      BY <1>1, ToSetEmpty DEF ShelfInv, Scanning
    <3>2. <<This, k>> \in examined
      BY <2>2, <3>1
    <3>3. k \in KeysOf(examined)
      BY <3>2 DEF KeysOf
    <3> QED  BY <2>1, <3>3
  <2>7. pc' = "nil" => KeysOf(always) \subseteq ToSet(seen)
    <3> SUFFICES ASSUME pc' = "nil"  PROVE KeysOf(always) \subseteq ToSet(seen)
      OBVIOUS
    <3>1. page' = <<>> /\ rest' = {}
      BY <1>3 DEF IterateDone
    <3> QED  BY <2>6, <3>1, ToSetEmpty
  <2>8. page' \in Seq({RedisKey(k) : k \in KeysOf(ever)})
    BY <2>1, SeqMonotonic
  <2>9. Scanning'
    <3>1. pc' # "visit" /\ seen \in Seq(KeysOf(ever))
      BY <1>1, <1>3 DEF ShelfInv, Scanning
    <3> HIDE DEF S
    <3> QED  BY <2>2, <2>6, <2>7, <2>8, <3>1 DEF Scanning, RedisKey
  <2> QED  BY <2>3, <2>4, <2>5, <2>9 DEF ShelfInv
<1> QED  BY <1>2, <1>3 DEF RedisScan

LEMMA RedisEmptyStep == ASSUME ShelfInv, RedisEmpty  PROVE ShelfInv'
<1>1. pc = "run" /\ call.store = "redis" /\ call.op = "empty"
  BY DEF RedisEmpty, Running
<1>2. CASE Return("ctx")
  <2>1. Earned("ctx") /\ "ctx" \in Outcome
    BY DEF Earned, Outcome
  <2> QED  BY <1>1, <1>2, <2>1, ReturnStep
<1>3. ASSUME NEW examined \in SUBSET db, Scan(examined),
             pc' = IF KeysOf(examined) = {} THEN "true" ELSE "false",
             UNCHANGED <<callVars, dbVars, ctx, cursorVars, curr, page, values, seen>>
      PROVE  ShelfInv'
  <2>1. /\ kind' = kind /\ call' = call /\ db' = db /\ always' = always /\ ever' = ever
        /\ seen' = seen /\ ctx' = ctx /\ writes' = writes /\ curr' = curr /\ page' = page
        /\ values' = values /\ rest' = rest \ examined
    BY <1>3 DEF callVars, dbVars, cursorVars, Scan
  <2>2. Types' /\ Calls'
    BY <1>1, <1>3, <2>1 DEF ShelfInv, Types, Calls, Entry, Numbers, Outcome
  <2>3. Pages'
    BY <1>1, <1>3, <2>1 DEF ShelfInv, Pages
  <2>4. Cursor' /\ Scanning'
    BY <1>1, <2>1 DEF Cursor, Scanning
  <2>5. rest = always /\ examined \subseteq ever
    BY <1>1 DEF ShelfInv, ScanningOnce, Types
  <2>6. rest' = {} => KeysOf(always) \subseteq KeysOf(examined)
    BY <2>1, <2>5, KeysOfMonotone
  <2>7. KeysOf(examined) \subseteq KeysOf(ever)
    BY <2>5, KeysOfMonotone
  <2>8. ScanningOnce'
    BY <1>3, <2>1, <2>6, <2>7 DEF ScanningOnce
  <2> QED  BY <2>2, <2>3, <2>4, <2>8 DEF ShelfInv
<1> QED  BY <1>2, <1>3 DEF RedisEmpty

\* visitKeys goes on to the next key of the page.
LEMMA VisitNext ==
    ASSUME ShelfInv, pc = "visit", page # <<>>, NextValue, pc' \in {"visit", "cb"},
           UNCHANGED <<callVars, dbVars, ctx, cursorVars, curr, rest>>,
           call.op = "iterate" =>
              /\ seen' \in Seq(KeysOf(ever)) /\ ToSet(seen) \subseteq ToSet(seen')
              /\ \A k \in KeysOf(always) : Head(page) = RedisKey(k) => k \in ToSet(seen')
    PROVE  ShelfInv'
<1> USE DEF NextValue
<1>1. /\ kind' = kind /\ call' = call /\ db' = db /\ always' = always /\ ever' = ever
      /\ ctx' = ctx /\ writes' = writes /\ curr' = curr /\ rest' = rest
      /\ call.store = "redis" /\ call.op \in {"range", "iterate"}
  BY DEF callVars, dbVars, cursorVars, ShelfInv, Calls
<1>2. /\ page \in Seq(Str) /\ values \in Seq(BOOLEAN) /\ Len(values) = Len(page)
      /\ Len(page) <= PageSize + 1
  BY DEF ShelfInv, Pages
<1>3. /\ page' \in Seq(Str) /\ Len(page') = Len(page) - 1 /\ Len(page) \in Nat \ {0}
      /\ ToSet(page) = {Head(page)} \cup ToSet(page')
      /\ \A i \in 1..(Len(page) - 1) : page'[i] = page[i + 1]
  BY <1>2, ToSetTail
<1>4. /\ values' \in Seq(BOOLEAN) /\ Len(values') = Len(page')
      /\ \A i \in 1..(Len(page) - 1) : values'[i] = values[i + 1]
  <2>1. values # <<>>
    BY <1>2, <1>3
  <2> QED  BY <1>2, <1>3, <2>1, ToSetTail
<1>5. Types' /\ Calls'
  BY <1>1 DEF ShelfInv, Types, Calls, Entry, Numbers, Outcome
<1>6. Pages'
  <2>1. Len(page') <= PageSize + 1
    BY <1>2, <1>3, ShelfAssumption
  <2> QED  BY <1>3, <1>4, <2>1 DEF Pages
<1>7. Cursor' /\ ScanningOnce'
  BY <1>1 DEF Cursor, ScanningOnce
<1>8. Scanning'
  <2> SUFFICES ASSUME call.op = "iterate"  PROVE Scanning'
    BY <1>1 DEF Scanning
  <2>1. /\ page \in Seq({RedisKey(k) : k \in KeysOf(ever)})
        /\ \A k \in KeysOf(always) :
              <<This, k>> \in rest \/ RedisKey(k) \in ToSet(page) \/ k \in ToSet(seen)
        /\ \A i \in DOMAIN page, k \in KeysOf(always) :
              page[i] = RedisKey(k) => values[i] = TRUE
    BY <1>1 DEF ShelfInv, Scanning
  <2>2. page' \in Seq({RedisKey(k) : k \in KeysOf(ever)})
    BY <2>1, ToSetTail
  <2>3. \A k \in KeysOf(always) :
           <<This, k>> \in rest \/ RedisKey(k) \in ToSet(page') \/ k \in ToSet(seen')
    BY <1>3, <2>1
  <2>4. ASSUME NEW i \in DOMAIN page', NEW k \in KeysOf(always), page'[i] = RedisKey(k)
        PROVE  values'[i] = TRUE
    <3>1. i \in 1..(Len(page) - 1) /\ i + 1 \in DOMAIN page
      BY <1>2, <1>3
    <3> QED  BY <1>3, <1>4, <2>1, <2>4, <3>1
  <2>5. \A i \in DOMAIN page', k \in KeysOf(always') : page'[i] = RedisKey(k) => values'[i] = TRUE
    BY <1>1, <2>4
  <2> QED  BY <1>1, <2>2, <2>3, <2>5 DEF Scanning, RedisKey
<1> QED  BY <1>5, <1>6, <1>7, <1>8 DEF ShelfInv

LEMMA VisitKeyStep == ASSUME ShelfInv, VisitKey  PROVE ShelfInv'
<1>1. /\ pc = "visit" /\ page # <<>> /\ call.store = "redis" /\ call.op \in {"range", "iterate"}
      /\ call.op = "iterate" => call.stopAtNil = FALSE
  BY DEF VisitKey, ShelfInv, Calls
<1>2. CASE call.stopAtNil /\ Return("nil")
  <2>1. Earned("nil") /\ "nil" \in Outcome
    BY <1>1, <1>2 DEF Earned, Outcome
  <2> QED  BY <1>1, <1>2, <2>1, ReturnStep
<1>3. CASE Return("err")
  <2>1. Earned("err") /\ "err" \in Outcome
    BY DEF Earned, Outcome
  <2> QED  BY <1>1, <1>3, <2>1, ReturnStep
<1>4. CASE /\ ~Head(values) /\ NextValue
           /\ UNCHANGED <<callVars, dbVars, ctx, cursorVars, pc, curr, rest, seen>>
  <2>1. ASSUME call.op = "iterate"
        PROVE  /\ seen' \in Seq(KeysOf(ever)) /\ ToSet(seen) \subseteq ToSet(seen')
               /\ \A k \in KeysOf(always) : Head(page) = RedisKey(k) => k \in ToSet(seen')
    <3>1. /\ page \in Seq(Str) /\ values \in Seq(BOOLEAN) /\ Len(values) = Len(page)
          /\ \A i \in DOMAIN page, k \in KeysOf(always) :
                page[i] = RedisKey(k) => values[i] = TRUE
          /\ seen \in Seq(KeysOf(ever)) /\ seen' = seen
      BY <1>1, <1>4, <2>1 DEF ShelfInv, Pages, Scanning
    <3>2. Head(page) = page[1] /\ Head(values) = values[1] /\ 1 \in DOMAIN page
      <4>1. Len(page) \in Nat \ {0} /\ values # <<>>
        BY <1>1, <3>1, ToSetTail
      <4> QED  BY <1>1, <3>1, <4>1, ToSetTail
    <3> QED  BY <1>4, <3>1, <3>2
  <2>2. pc' = "visit"
    BY <1>1, <1>4
  <2> QED  BY <1>1, <1>4, <2>1, <2>2, VisitNext
<1>5. CASE /\ FromRedisKey(Head(page)) # Nil /\ NextValue
           /\ seen' = Append(seen, FromRedisKey(Head(page)))
           /\ pc' \in {"visit", "cb"}
           /\ UNCHANGED <<callVars, dbVars, ctx, cursorVars, curr, rest>>
  <2>1. ASSUME call.op = "iterate"
        PROVE  /\ seen' \in Seq(KeysOf(ever)) /\ ToSet(seen) \subseteq ToSet(seen')
               /\ \A k \in KeysOf(always) : Head(page) = RedisKey(k) => k \in ToSet(seen')
    <3>1. /\ page \in Seq({RedisKey(k) : k \in KeysOf(ever)}) /\ seen \in Seq(KeysOf(ever))
          /\ kind \in Kind /\ ever \in SUBSET Entry(kind) /\ KeysOf(always) \subseteq KeysOf(ever)
      BY <1>1, <2>1, KeysOfMonotone DEF ShelfInv, Scanning, Types
    <3>2. \A k \in KeysOf(ever) :
             Head(page) = RedisKey(k) => FromRedisKey(Head(page)) = k
      BY <1>5, <3>1, KeysOfEntries, StringRoundTrip DEF RedisKey, FromRedisKey
    <3>3. Head(page) \in {RedisKey(k) : k \in KeysOf(ever)}
      BY <1>1, <3>1, ToSetTail
    <3>4. FromRedisKey(Head(page)) \in KeysOf(ever)
      BY <3>2, <3>3
    <3>5. /\ seen' \in Seq(KeysOf(ever))
          /\ ToSet(seen') = ToSet(seen) \cup {FromRedisKey(Head(page))}
      BY <1>5, <3>1, <3>4, ToSetAppend
    <3> QED  BY <3>1, <3>2, <3>5
  <2> QED  BY <1>1, <1>5, <2>1, VisitNext
<1> QED  BY <1>2, <1>3, <1>4, <1>5 DEF VisitKey

LEMMA VisitDoneStep == ASSUME ShelfInv, VisitDone  PROVE ShelfInv'
<1>1. /\ pc = "visit" /\ page = <<>> /\ call.store = "redis" /\ call.op \in {"range", "iterate"}
      /\ kind' = kind /\ call' = call /\ db' = db /\ always' = always /\ ever' = ever
      /\ ctx' = ctx /\ writes' = writes /\ rest' = rest /\ seen' = seen
      /\ page' = page /\ values' = values
  BY DEF VisitDone, callVars, dbVars, cursorVars, ShelfInv, Calls
<1>2. pc' \in {"run", "nil", "panic"} /\ (call.op = "range" => curr' \in Key(kind))
  <2>1. CASE call.op = "range" /\ Advance
    BY <1>1, <2>1, AdvanceCurr
  <2>2. CASE pc' = (IF rest = {} THEN "nil" ELSE "run") /\ UNCHANGED curr
    BY <1>1, <2>2 DEF ShelfInv, Calls
  <2> QED  BY <2>1, <2>2 DEF VisitDone
<1>3. call.op = "iterate" => pc' = (IF rest = {} THEN "nil" ELSE "run")
  BY DEF VisitDone
<1>4. Types' /\ Calls'
  BY <1>1, <1>2 DEF ShelfInv, Types, Calls, Entry, Numbers, Outcome
<1>5. Pages'
  <2>1. /\ page' = <<>> /\ values \in Seq(BOOLEAN) /\ Len(values) = 0 /\ Len(page') = 0
        /\ page' \in Seq(Str)
    BY <1>1 DEF ShelfInv, Pages
  <2>2. values' = <<>>
    BY <1>1, <2>1, EmptySeq
  <2>3. 0 <= PageSize + 1 /\ 0 <= PageSize
    BY ShelfAssumption
  <2> QED  BY <1>1, <1>2, <2>1, <2>2, <2>3 DEF Pages
<1>6. Cursor' /\ ScanningOnce'
  BY <1>1 DEF Cursor, ScanningOnce
<1>7. Scanning'
  <2> SUFFICES ASSUME call.op = "iterate"  PROVE Scanning'
    BY <1>1 DEF Scanning
  <2>1. /\ seen \in Seq(KeysOf(ever)) /\ page \in Seq({RedisKey(k) : k \in KeysOf(ever)})
        /\ \A k \in KeysOf(always) :
              <<This, k>> \in rest \/ RedisKey(k) \in ToSet(page) \/ k \in ToSet(seen)
    BY <1>1 DEF ShelfInv, Scanning
  <2>2. pc' = "nil" => KeysOf(always) \subseteq ToSet(seen)
    BY <1>1, <1>3, <2>1, ToSetEmpty
  <2>3. pc' # "visit"
    BY <1>2
  <2> QED  BY <1>1, <2>1, <2>2, <2>3 DEF Scanning, RedisKey
<1> QED  BY <1>4, <1>5, <1>6, <1>7 DEF ShelfInv

-----------------------------------------------------------------------------
(* What happens around the call. *)

LEMMA CtxDoneStep == ASSUME ShelfInv, CtxDone  PROVE ShelfInv'
<1> USE DEF CtxDone, callVars, dbVars, cursorVars, redisVars
<1>1. Types' /\ Pages' /\ Calls'
  BY DEF ShelfInv, Types, Pages, Calls, Entry, Numbers
<1>2. Cursor' /\ Scanning' /\ ScanningOnce'
  BY DEF ShelfInv, Cursor, Scanning, ScanningOnce, Stored, Located, RedisKey
<1> QED  BY <1>1, <1>2 DEF ShelfInv

LEMMA WriteStep ==
    ASSUME ShelfInv, NEW newDb \in SUBSET Entry(kind), Write(newDb)  PROVE ShelfInv'
<1>1. /\ pc \in {"run", "visit"} /\ call.store = "redis" /\ writes < MaxWrites
      /\ writes' = writes + 1 /\ db' = newDb /\ always' = always \cap newDb
      /\ ever' = ever \cup newDb /\ rest' = rest \cap newDb
      /\ kind' = kind /\ call' = call /\ pc' = pc /\ ctx' = ctx /\ curr' = curr
      /\ page' = page /\ values' = values /\ seen' = seen
  BY DEF Write, callVars, cursorVars
<1>2. Types'
  <2>1. writes' \in 0..MaxWrites
    BY <1>1, ShelfAssumption DEF ShelfInv, Types
  <2>2. Entry(kind)' = Entry(kind)
    BY <1>1 DEF Entry, Numbers
  <2> QED  BY <1>1, <2>1, <2>2 DEF ShelfInv, Types
<1>3. Pages' /\ Calls'
  BY <1>1 DEF ShelfInv, Pages, Calls
<1>4. Cursor'
  BY <1>1 DEF Cursor
<1>5. KeysOf(always') \subseteq KeysOf(always) /\ KeysOf(ever) \subseteq KeysOf(ever')
  BY <1>1, KeysOfMonotone
<1>6. Scanning'
  <2> SUFFICES ASSUME call.op = "iterate"  PROVE Scanning'
    BY <1>1 DEF Scanning
  <2>1. /\ seen \in Seq(KeysOf(ever)) /\ page \in Seq({RedisKey(k) : k \in KeysOf(ever)})
        /\ \A k \in KeysOf(always) :
              <<This, k>> \in rest \/ RedisKey(k) \in ToSet(page) \/ k \in ToSet(seen)
        /\ pc = "visit" => \A i \in DOMAIN page, k \in KeysOf(always) :
              page[i] = RedisKey(k) => values[i] = TRUE
    BY <1>1 DEF ShelfInv, Scanning
  <2>2. seen \in Seq(KeysOf(ever'))
    BY <1>5, <2>1, SeqMonotonic
  <2>3. page \in Seq({RedisKey(k) : k \in KeysOf(ever')})
    <3>1. {RedisKey(k) : k \in KeysOf(ever)} \subseteq {RedisKey(k) : k \in KeysOf(ever')}
      BY <1>5
    <3> QED  BY <2>1, <3>1, SeqMonotonic
  <2>4. \A k \in KeysOf(always') : <<This, k>> \in always'
    <3>1. always' \in SUBSET Entry(kind) /\ kind \in Kind
      BY <1>1 DEF ShelfInv, Types
    <3> QED  BY <3>1, KeysOfEntries
  <2>5. \A k \in KeysOf(always') :
           <<This, k>> \in rest' \/ RedisKey(k) \in ToSet(page) \/ k \in ToSet(seen)
    BY <1>1, <1>5, <2>1, <2>4
  <2>6. pc' # "nil"
    BY <1>1
  <2> QED  BY <1>1, <1>5, <2>1, <2>2, <2>3, <2>5, <2>6 DEF Scanning, RedisKey
<1>7. ScanningOnce'
  BY <1>1 DEF ShelfInv, ScanningOnce
<1> QED  BY <1>2, <1>3, <1>4, <1>6, <1>7 DEF ShelfInv

LEMMA StutterStep == ASSUME ShelfInv, UNCHANGED vars  PROVE ShelfInv'
<1> USE DEF vars
<1>1. Types' /\ Pages' /\ Calls'
  BY DEF ShelfInv, Types, Pages, Calls, Entry, Numbers
<1>2. Cursor' /\ Scanning' /\ ScanningOnce'
  BY DEF ShelfInv, Cursor, Scanning, ScanningOnce, Stored, Located, RedisKey
<1> QED  BY <1>1, <1>2 DEF ShelfInv

LEMMA CallSteps ==
    ASSUME ShelfInv, NEW store \in {"bbolt", "badger", "redis"},
           RangeCall(store) \/ IterateCall(store) \/ EmptyCall(store)
    PROVE  ShelfInv'
<1>1. CASE RangeCall(store)
  <2>1. PICK from \in Bound, to \in Bound, stop \in BOOLEAN :
           Start(store, "range", KeyOf(kind, from), KeyOf(kind, to), stop)
    BY <1>1 DEF RangeCall
  <2>2. from \in 0..(Limit - 1) /\ kind \in Kind
    BY ShelfAssumption, LimitType DEF Bound, Numbers, ShelfInv, Types
  <2>3. KeyOf(kind, from) \in Key(kind)
    BY <2>2, KeyOfType
  <2> QED  BY <2>1, <2>3, StartStep
<1>2. CASE IterateCall(store)
  BY <1>2, StartStep DEF IterateCall
<1>3. CASE EmptyCall(store)
  BY <1>3, StartStep DEF EmptyCall
<1> QED  BY <1>1, <1>2, <1>3

LEMMA NextShelf == ShelfInv /\ [Next]_vars => ShelfInv'
<1> SUFFICES ASSUME ShelfInv, [Next]_vars  PROVE ShelfInv'
  OBVIOUS
<1>1. CASE \E store \in {"bbolt", "badger", "redis"} :
              RangeCall(store) \/ IterateCall(store) \/ EmptyCall(store)
  BY <1>1, CallSteps
<1>2. CASE Step
  BY <1>2, BBoltSteps, BadgerSteps, RedisCollectStep, RedisPageSteps, RedisCancelledStep,
     RedisScanStep, VisitKeyStep, VisitDoneStep, RedisEmptyStep DEF Step
<1>3. CASE CtxDone
  BY <1>3, CtxDoneStep
<1>4. CASE Put
  <2>1. PICK e \in Entry(kind) \ db : Write(db \cup {e})
    BY <1>4 DEF Put
  <2>2. db \cup {e} \in SUBSET Entry(kind)
    BY DEF ShelfInv, Types
  <2> QED  BY <2>1, <2>2, WriteStep
<1>5. CASE Delete
  <2>1. PICK e \in db : Write(db \ {e})
    BY <1>5 DEF Delete
  <2>2. db \ {e} \in SUBSET Entry(kind)
    BY DEF ShelfInv, Types
  <2> QED  BY <2>1, <2>2, WriteStep
<1>6. CASE UNCHANGED vars
  BY <1>6, StutterStep
<1> QED  BY <1>1, <1>2, <1>3, <1>4, <1>5, <1>6 DEF Next

-----------------------------------------------------------------------------
(* Next, and the order of keys under a name. *)

\* The digits that are left when i are taken off, by a power of the radix.
LEMMA ShiftedBelow ==
    ASSUME NEW n \in Nat, NEW radix \in Nat \ {0}, NEW p \in [Nat -> Nat \ {0}],
           p[0] = 1, \A i \in Nat : p[i + 1] = p[i] * radix
    PROVE  \A i \in Nat : Shifted(n, radix)[i] = 0 <=> n < p[i]
<1> DEFINE s == Shifted(n, radix)
           S == {i \in Nat : \A c \in Nat : s[i] < c <=> n < c * p[i]}
<1>1. s \in [Nat -> Nat] /\ s[0] = n /\ \A i \in Nat : s[i + 1] = s[i] \div radix
  BY ShiftedValues
<1> HIDE DEF s
<1>2. 0 \in S
  BY <1>1
<1>3. ASSUME NEW i \in Nat, i \in S  PROVE i + 1 \in S
  <2> SUFFICES ASSUME NEW c \in Nat  PROVE s[i + 1] < c <=> n < c * p[i + 1]
    OBVIOUS
  <2>1. s[i] \in Nat /\ p[i] \in Nat /\ c * radix \in Nat
    <3>1. \A x, y \in Nat : x * y \in Nat
      OBVIOUS
    <3> QED  BY <1>1, <3>1
  <2>2. s[i + 1] < c <=> s[i] < c * radix
    <3>1. \A x, y \in Nat, b \in Nat \ {0} : x \div b < y <=> x < y * b
      OBVIOUS
    <3>2. s[i] \div radix < c <=> s[i] < c * radix
      BY <2>1, <3>1
    <3> QED  BY <1>1, <3>2
  <2>3. s[i] < c * radix <=> n < (c * radix) * p[i]
    BY <1>3, <2>1
  <2>4. (c * radix) * p[i] = c * p[i + 1]
    <3>1. \A x, y, z \in Nat : (x * y) * z = x * (z * y)
      OBVIOUS
    <3> QED  BY <2>1, <3>1
  <2> QED  BY <2>2, <2>3, <2>4
<1>4. S = Nat
  BY <1>2, <1>3, SetInduction
<1>5. ASSUME NEW i \in Nat  PROVE s[i] = 0 <=> n < p[i]
  <2>1. s[i] < 1 <=> n < 1 * p[i]
    BY <1>4
  <2>2. s[i] \in Nat /\ p[i] \in Nat
    BY <1>1
  <2> QED  BY <2>1, <2>2
<1> QED  BY <1>5 DEF s

\* A number has Width bytes when it is below Limit, and one less when its
\* first byte is zero.
LEMMA ShiftedLimit ==
    ASSUME NEW n \in Nat
    PROVE  /\ Shifted(n, Base)[Width] = 0 <=> n < Limit
           /\ Shifted(n, Base)[Width - 1] = 0 <=> n * Base < Limit
<1>1. PICK p \in [Nat -> Nat \ {0}] : /\ p[0] = 1 /\ Limit = p[Width]
                                     /\ \A i \in Nat : p[i + 1] = p[i] * Base
  BY LimitPower
<1>2. Base \in Nat \ {0} /\ Width \in Nat /\ Width - 1 \in Nat /\ (Width - 1) + 1 = Width
  BY BaseType
<1>3. \A i \in Nat : Shifted(n, Base)[i] = 0 <=> n < p[i]
  BY <1>1, <1>2, ShiftedBelow
<1>4. Limit = p[Width - 1] * Base /\ p[Width - 1] \in Nat
  BY <1>1, <1>2
<1>5. n < p[Width - 1] <=> n * Base < p[Width - 1] * Base
  <2>1. \A x, y \in Nat, b \in Nat \ {0} : x < y <=> x * b < y * b
    OBVIOUS
  <2> QED  BY <1>2, <1>4, <2>1
<1> QED  BY <1>1, <1>2, <1>3, <1>4, <1>5

\* When nothing is left of a number, nothing is left of it further on.
LEMMA ZeroStays ==
    ASSUME NEW n \in Nat, NEW radix \in Nat \ {0}, NEW i \in Nat,
           Shifted(n, radix)[i] = 0, NEW j \in Nat, i <= j
    PROVE  Shifted(n, radix)[j] = 0
<1> DEFINE s == Shifted(n, radix)
           S == {m \in Nat : s[i + m] = 0}
<1>1. s \in [Nat -> Nat] /\ \A m \in Nat : s[m + 1] = s[m] \div radix
  BY ShiftedValues
<1>2. s[i] = 0
  OBVIOUS
<1> HIDE DEF s
<1>3. 0 \in S
  BY <1>2
<1>4. ASSUME NEW m \in Nat, m \in S  PROVE m + 1 \in S
  <2>1. i + (m + 1) = (i + m) + 1 /\ i + m \in Nat
    OBVIOUS
  <2>2. s[i + (m + 1)] = 0 \div radix
    BY <1>1, <1>4, <2>1
  <2> QED  BY <2>2
<1>5. S = Nat
  BY <1>3, <1>4, SetInduction
<1>6. j - i \in Nat /\ i + (j - i) = j
  OBVIOUS
<1>7. s[j] = 0
  BY <1>5, <1>6
<1> QED  BY <1>7 DEF s

\* How long a numeral is.
LEMMA NumeralLength ==
    ASSUME NEW n \in Nat, NEW radix \in Nat \ {0, 1}, NEW len \in Nat,
           Shifted(n, radix)[len] = 0
    PROVE  /\ Len(Numeral(n, radix)) <= len
           /\ len # 0 /\ Shifted(n, radix)[len - 1] = 0 => Len(Numeral(n, radix)) < len
           /\ len # 0 /\ Shifted(n, radix)[len - 1] # 0 => Numeral(n, radix) = Digits(n, radix, len)
<1> DEFINE s == Shifted(n, radix)
<1>1. radix \in Nat \ {0}
  OBVIOUS
<1>2. PICK l \in Nat : IsLength(n, radix, l)
  BY NumeralDigits
<1>3. /\ s[l] = 0 /\ \A m \in 0..(l - 1) : s[m] # 0
      /\ Numeral(n, radix) = Digits(n, radix, l)
  BY <1>2 DEF IsLength
<1>4. Len(Numeral(n, radix)) = l
  BY <1>1, <1>3, DigitsType
<1>5. \A i, j \in Nat : s[i] = 0 /\ i <= j => s[j] = 0
  BY <1>1, ZeroStays
<1>6. s[len] = 0
  OBVIOUS
<1> HIDE DEF s
<1>7. \A m \in Nat : s[m] = 0 => l <= m
  <2>1. \A m \in Nat : m < l => m \in 0..(l - 1)
    OBVIOUS
  <2>2. \A m \in Nat : m < l \/ l <= m
    OBVIOUS
  <2> QED  BY <1>3, <2>1, <2>2
<1>8. l <= len
  BY <1>6, <1>7
<1>9. len # 0 /\ s[len - 1] = 0 => l < len
  <2> SUFFICES ASSUME len # 0, s[len - 1] = 0  PROVE l < len
    OBVIOUS
  <2>1. len - 1 \in Nat
    OBVIOUS
  <2>2. l <= len - 1
    BY <1>7, <2>1
  <2> QED  BY <2>2
<1>10. len # 0 /\ s[len - 1] # 0 => l = len
  <2> SUFFICES ASSUME len # 0, s[len - 1] # 0, l # len  PROVE FALSE
    OBVIOUS
  <2>1. len - 1 \in Nat /\ l <= len - 1
    BY <1>8
  <2> QED  BY <1>3, <1>5, <2>1
<1> QED  BY <1>3, <1>4, <1>8, <1>9, <1>10 DEF s

\* Digits of which the first is not zero are the numeral of what they denote.
LEMMA NumeralOfValue ==
    ASSUME NEW radix \in Nat \ {0, 1}, NEW ds \in Seq(0..(radix - 1)),
           ds # <<>>, ds[1] # 0
    PROVE  Numeral(ValueOf(ds, radix), radix) = ds
<1> DEFINE N == Len(ds)
           x == ValueOf(ds, radix)
           s == Shifted(x, radix)
<1>1. radix \in Nat \ {0} /\ radix \in Nat
  OBVIOUS
<1>2. /\ ds \in Str /\ N \in Nat \ {0} /\ ds = [i \in 1..N |-> ds[i]]
      /\ \A i \in 1..N : ds[i] \in 0..(radix - 1)
  <2>1. 0..(radix - 1) \subseteq Nat
    OBVIOUS
  <2>2. ds \in Seq(Nat)
    BY <2>1, SeqMonotonic
  <2> QED  BY <2>2, EmptySeq DEF Str
<1>3. PICK v \in [0..N -> Nat] : ValueLoop(v, ds, radix) /\ x = v[N]
  BY <1>1, <1>2, ValueOfLoop
<1>4. x \in Nat
  BY <1>1, <1>2, ValueOfNat
<1> HIDE DEF x
<1>5. s \in [Nat -> Nat] /\ s[0] = x /\ \A i \in Nat : s[i + 1] = s[i] \div radix
  BY <1>1, <1>4, ShiftedValues
<1> HIDE DEF s, N
<1>6. /\ v[0] = 0
      /\ \A i \in 1..N : i - 1 \in 0..N /\ v[i - 1] \in Nat /\ v[i] = v[i - 1] * radix + ds[i]
  <2>1. \A i \in 1..N : i - 1 \in 0..N /\ i \in 0..N /\ i # 0
    BY <1>2
  <2>2. 0 \in 0..N
    BY <1>2
  <2> QED  BY <1>3, <2>1, <2>2 DEF ValueLoop, N
<1>7. \A i \in 1..N : v[i] \div radix = v[i - 1] /\ v[i] % radix = ds[i]
  <2>1. \A q \in Nat, d \in 0..(radix - 1) :
           (q * radix + d) \div radix = q /\ (q * radix + d) % radix = d
    OBVIOUS
  <2> QED  BY <1>2, <1>6, <2>1
<1> DEFINE S == {j \in Nat : j <= N => s[j] = v[N - j]}
<1>8. S = Nat
  <2>1. 0 \in S
    <3>1. N - 0 = N
      BY <1>2
    <3> QED  BY <1>3, <1>5, <3>1
  <2>2. ASSUME NEW j \in Nat, j \in S  PROVE j + 1 \in S
    <3> SUFFICES ASSUME j + 1 <= N  PROVE s[j + 1] = v[N - (j + 1)]
      OBVIOUS
    <3>1. N - j \in 1..N /\ (N - j) - 1 = N - (j + 1) /\ s[j] = v[N - j]
      BY <1>2, <2>2
    <3> QED  BY <1>5, <1>7, <3>1
  <2> QED  BY <2>1, <2>2, SetInduction
<1>9. s[N] = 0 /\ N - 1 \in Nat /\ s[N - 1] # 0
  <2>1. N \in Nat /\ N - 1 \in Nat /\ N - N = 0 /\ N - (N - 1) = 1 /\ 1 \in 1..N /\ 1 - 1 = 0
    BY <1>2
  <2>2. \A j \in Nat : j <= N => s[j] = v[N - j]
    BY <1>8
  <2>3. s[N] = v[0] /\ s[N - 1] = v[1]
    BY <2>1, <2>2
  <2>4. v[1] = v[0] * radix + ds[1]
    BY <1>6, <2>1
  <2>5. v[1] = ds[1]
    <3>1. v[1] = 0 * radix + ds[1]
      BY <1>6, <2>4
    <3>2. ds[1] \in 0..(radix - 1)
      BY <1>2, <2>1
    <3>3. v[1] = 0 + ds[1]
      BY <3>1
    <3> QED  BY <3>2, <3>3
  <2> QED  BY <1>6, <2>1, <2>3, <2>5
<1>10. Numeral(x, radix) = Digits(x, radix, N)
  BY <1>1, <1>2, <1>4, <1>9, NumeralLength DEF s
<1>11. Digits(x, radix, N) = [i \in 1..N |-> s[N - i] % radix]
  BY DEF Digits, s
<1>12. \A i \in 1..N : s[N - i] % radix = ds[i]
  <2>1. \A i \in 1..N : N - i \in Nat /\ N - i <= N /\ N - (N - i) = i
    BY <1>2
  <2> QED  BY <1>7, <1>8, <2>1
<1> QED  BY <1>2, <1>10, <1>11, <1>12 DEF x

\* Digits in front of a number do not matter for what is added to it.
LEMMA ValueOfNamed ==
    ASSUME NEW radix \in Nat, NEW a \in Str, NEW b \in Str, NEW c \in Str, Len(b) = Len(c)
    PROVE  ValueOf(a \o b, radix) + ValueOf(c, radix) = ValueOf(a \o c, radix) + ValueOf(b, radix)
<1> DEFINE L == Len(a)
           N == Len(b)
           B == a \o b
           C == a \o c
<1>1. /\ B \in Str /\ C \in Str /\ Len(B) = L + N /\ Len(C) = L + N /\ L \in Nat /\ N \in Nat
      /\ \A i \in 1..L : B[i] = a[i] /\ C[i] = a[i] /\ a[i] \in Nat
      /\ \A i \in 1..N : /\ B[L + i] = b[i] /\ C[L + i] = c[i]
                         /\ b[i] \in Nat /\ c[i] \in Nat
  <2>1. ASSUME NEW d \in Str
        PROVE  /\ a \o d \in Str /\ Len(a \o d) = Len(a) + Len(d) /\ Len(a) \in Nat
               /\ \A i \in 1..Len(a) : (a \o d)[i] = a[i] /\ a[i] \in Nat
               /\ \A i \in 1..Len(d) : (a \o d)[Len(a) + i] = d[i] /\ d[i] \in Nat
    BY ConcatProperties DEF Str
  <2>2. Len(b) \in Nat
    BY DEF Str
  <2>3. Len(c) = N
    OBVIOUS
  <2> QED  BY <2>1, <2>2, <2>3
<1>2. ASSUME NEW d \in Str  PROVE \E u \in [0..Len(d) -> Nat] :
              ValueLoop(u, d, radix) /\ ValueOf(d, radix) = u[Len(d)]
  BY ValueOfLoop
<1>3. Len(B) = L + N /\ Len(C) = L + N /\ B \in Str /\ C \in Str
  BY <1>1
<1> HIDE DEF B, C
<1>4. PICK v \in [0..(L + N) -> Nat] : ValueLoop(v, B, radix) /\ ValueOf(B, radix) = v[L + N]
  BY <1>2, <1>3
<1>5. PICK w \in [0..(L + N) -> Nat] : ValueLoop(w, C, radix) /\ ValueOf(C, radix) = w[L + N]
  BY <1>2, <1>3
<1>6. PICK f \in [0..N -> Nat] : ValueLoop(f, b, radix) /\ ValueOf(b, radix) = f[N]
  BY ValueOfLoop
<1>7. PICK g \in [0..N -> Nat] : ValueLoop(g, c, radix) /\ ValueOf(c, radix) = g[N]
  BY ValueOfLoop
<1>8. Len(c) = N
  OBVIOUS
<1> HIDE DEF L, N, B, C
<1>9. /\ v[0] = 0 /\ w[0] = 0
      /\ \A i \in 1..(L + N) : v[i] = v[i - 1] * radix + B[i] /\ w[i] = w[i - 1] * radix + C[i]
  <2>1. 0 \in 0..(L + N) /\ \A i \in 1..(L + N) : i \in 0..(L + N) /\ i # 0
    BY <1>1
  <2> QED  BY <1>1, <1>4, <1>5, <2>1 DEF ValueLoop
<1>10. /\ f[0] = 0 /\ g[0] = 0
      /\ \A i \in 1..N : f[i] = f[i - 1] * radix + b[i] /\ g[i] = g[i - 1] * radix + c[i]
  <2>1. 0 \in 0..N /\ \A i \in 1..N : i \in 0..N /\ i # 0
    BY <1>1
  <2>2. Len(b) = N
    BY DEF N
  <2> QED  BY <1>6, <1>7, <1>8, <2>1, <2>2 DEF ValueLoop
<1> DEFINE S == {i \in Nat : i <= L => v[i] = w[i]}
           T == {i \in Nat : i <= N => v[L + i] + g[i] = w[L + i] + f[i]}
<1>11. S = Nat
  <2>1. 0 \in S
    BY <1>9
  <2>2. ASSUME NEW i \in Nat, i \in S  PROVE i + 1 \in S
    <3> SUFFICES ASSUME i + 1 <= L  PROVE v[i + 1] = w[i + 1]
      OBVIOUS
    <3>1. i + 1 \in 1..(L + N) /\ (i + 1) - 1 = i /\ v[i] = w[i] /\ i + 1 \in 1..L
      BY <1>1, <2>2
    <3>2. B[i + 1] = C[i + 1]
      BY <1>1, <3>1
    <3> QED  BY <1>9, <3>1, <3>2
  <2> QED  BY <2>1, <2>2, SetInduction
<1>12. T = Nat
  <2>1. 0 \in T
    <3>1. \A i \in Nat : i <= L => v[i] = w[i]
      BY <1>11
    <3>2. L + 0 = L /\ v[L] = w[L]
      BY <1>1, <3>1
    <3> QED  BY <1>10, <3>2
  <2>2. ASSUME NEW i \in Nat, i \in T  PROVE i + 1 \in T
    <3> SUFFICES ASSUME i + 1 <= N  PROVE v[L + (i + 1)] + g[i + 1] = w[L + (i + 1)] + f[i + 1]
      OBVIOUS
    <3>1. /\ i + 1 \in 1..N /\ (i + 1) - 1 = i /\ i \in 0..N
          /\ L + (i + 1) \in 1..(L + N) /\ (L + (i + 1)) - 1 = L + i /\ L + i \in 0..(L + N)
      BY <1>1
    <3>2. v[L + i] + g[i] = w[L + i] + f[i]
      BY <1>1, <2>2
    <3>3. /\ v[L + (i + 1)] = v[L + i] * radix + b[i + 1]
          /\ w[L + (i + 1)] = w[L + i] * radix + c[i + 1]
      BY <1>1, <1>9, <3>1
    <3>4. f[i + 1] = f[i] * radix + b[i + 1] /\ g[i + 1] = g[i] * radix + c[i + 1]
      BY <1>10, <3>1
    <3>5. /\ v[L + i] \in Nat /\ w[L + i] \in Nat /\ f[i] \in Nat /\ g[i] \in Nat
          /\ b[i + 1] \in Nat /\ c[i + 1] \in Nat
      BY <1>1, <3>1
    <3> DEFINE P == v[L + i]
               Q == w[L + i]
               X == f[i]
               Y == g[i]
               d == b[i + 1]
               e == c[i + 1]
    <3>6. /\ P \in Nat /\ Q \in Nat /\ X \in Nat /\ Y \in Nat /\ d \in Nat /\ e \in Nat
          /\ P + Y = Q + X
      BY <3>2, <3>5
    <3>7. v[L + (i + 1)] + g[i + 1] = (P * radix + d) + (Y * radix + e)
      BY <3>3, <3>4
    <3>8. w[L + (i + 1)] + f[i + 1] = (Q * radix + e) + (X * radix + d)
      BY <3>3, <3>4
    <3> HIDE DEF P, Q, X, Y, d, e
    <3>9. (P + Y) * radix = P * radix + Y * radix /\ (Q + X) * radix = Q * radix + X * radix
      BY <3>6
    <3>10. P * radix \in Nat /\ Q * radix \in Nat /\ X * radix \in Nat /\ Y * radix \in Nat
      BY <3>6
    <3>11. P * radix + Y * radix = Q * radix + X * radix
      BY <3>6, <3>9
    <3>12. (P * radix + d) + (Y * radix + e) = (Q * radix + e) + (X * radix + d)
      BY <3>6, <3>10, <3>11
    <3> QED  BY <3>7, <3>8, <3>12
  <2> QED  BY <2>1, <2>2, SetInduction
<1>13. v[L + N] + g[N] = w[L + N] + f[N]
  <2>1. \A i \in Nat : i <= N => v[L + i] + g[i] = w[L + i] + f[i]
    BY <1>12
  <2> QED  BY <1>1, <2>1
<1> QED  BY <1>4, <1>5, <1>6, <1>7, <1>13 DEF B, C

\* The bytes of the key of a number, and its number again.
LEMMA KeyNumber ==
    ASSUME NEW kd \in Kind, NEW n \in 0..(Limit - 1)
    PROVE  /\ KeyOf(kd, n) \in Key(kd) /\ Bytes(kd, KeyOf(kd, n)) = Digits(n, Base, Width)
           /\ Digits(n, Base, Width) \in Seq(Byte) /\ Digits(n, Base, Width) \in Str
           /\ Len(Digits(n, Base, Width)) = Width
           /\ ValueOf(Digits(n, Base, Width), Base) = n
<1>1. n \in Nat /\ n < Limit /\ Base \in Nat \ {0} /\ Width \in Nat
  BY BaseType, LimitType
<1>2. Digits(n, Base, Width) \in Seq(Byte) /\ Len(Digits(n, Base, Width)) = Width
  BY <1>1, DigitsType DEF Byte
<1>3. Shifted(n, Base)[Width] = 0
  BY <1>1, ShiftedOut
<1>4. ValueOf(Digits(n, Base, Width), Base) = n
  BY <1>1, <1>3, ValueOfDigits
<1>5. KeyOf(kd, n) \in Key(kd)
  BY KeyOfType
<1>6. Bytes(kd, KeyOf(kd, n)) = Digits(n, Base, Width)
  BY DEF Bytes, KeyOf, Uint32Bytes
<1> QED  BY <1>2, <1>4, <1>5, <1>6, ByteSeq

(***************************************************************************)
(* Next counts (src/key.go): the key after that of n is that of n + 1, for *)
(* all carries, except that a HashKey panics when the next one starts with *)
(* a zero byte.  A BytesKey here does not start with one.                  *)
(***************************************************************************)
THEOREM NextCounts ==
    ASSUME NEW kd \in Kind, NEW n \in Nat, n + 1 < Limit, kd = "bytes" => n * Base >= Limit
    PROVE  NextKey(kd, KeyOf(kd, n))
             = IF kd = "hash" /\ (n + 1) * Base < Limit THEN Nil ELSE KeyOf(kd, n + 1)
<1> DEFINE D == Digits(n, Base, Width)
           E == Digits(n + 1, Base, Width)
           B == Numeral(n + 1, Base)
<1>1. /\ n \in 0..(Limit - 1) /\ n + 1 \in 0..(Limit - 1) /\ n + 1 \in Nat
      /\ Base \in Nat \ {0, 1} /\ Width \in Nat \ {0} /\ Width \in Nat /\ Limit \in Nat \ {0}
  BY BaseType, LimitType
<1>2. /\ ValueOf(D, Base) = n
      /\ E \in Seq(Byte) /\ Len(E) = Width
  BY <1>1, KeyNumber
<1>3. Shifted(n + 1, Base)[Width] = 0
  BY <1>1, ShiftedLimit
<1>4. Shifted(n + 1, Base)[Width - 1] = 0 <=> (n + 1) * Base < Limit
  BY <1>1, ShiftedLimit
<1>5. (n + 1) * Base < Limit => Len(B) < Width
  BY <1>1, <1>3, <1>4, NumeralLength
<1>6. ~((n + 1) * Base < Limit) => B = E
  BY <1>1, <1>3, <1>4, NumeralLength
<1>7. CASE kd = "uint32"
  <2>1. (n + 1) % Limit = n + 1
    BY <1>1
  <2> QED  BY <1>7, <2>1 DEF NextKey, Uint32Next, KeyOf
<1>8. CASE kd = "hash"
  <2>1. NextKey(kd, KeyOf(kd, n)) = IF Len(B) < Width THEN Nil ELSE SubSeq(B, 1, Width)
    BY <1>2, <1>8 DEF NextKey, HashNext, KeyOf
  <2>2. KeyOf(kd, n + 1) = E
    BY <1>8 DEF KeyOf
  <2>3. SubSeq(E, 1, Width) = E /\ ~(Len(E) < Width)
    <3>1. SubSeq(E, 1, Width) = [i \in 1..Width |-> E[i]] /\ E = [i \in 1..Width |-> E[i]]
      <4> HIDE DEF E
      <4> QED  BY <1>1, <1>2
    <3> QED  BY <1>1, <1>2, <3>1
  <2> HIDE DEF B, E
  <2> QED  BY <1>5, <1>6, <1>8, <2>1, <2>2, <2>3
<1>9. CASE kd = "bytes"
  <2>1. NextKey(kd, KeyOf(kd, n)) = B
    BY <1>2, <1>9 DEF NextKey, BytesNext, KeyOf
  <2>2. ~((n + 1) * Base < Limit)
    <3>1. \A x, b \in Nat : (x + 1) * b = x * b + b /\ x * b \in Nat
      OBVIOUS
    <3>2. (n + 1) * Base = n * Base + Base /\ n * Base \in Nat /\ n * Base >= Limit
      BY <1>1, <1>9, <3>1
    <3> QED  BY <1>1, <3>2
  <2> QED  BY <1>6, <1>9, <2>1, <2>2 DEF KeyOf
<1> QED  BY <1>7, <1>8, <1>9 DEF Kind

\* The same for the stored key of Badger, which starts with the shelf's name.
LEMMA NamedNext ==
    ASSUME NEW n \in Nat, n + 1 < Limit
    PROVE  BytesNext(This \o Digits(n, Base, Width)) = This \o Digits(n + 1, Base, Width)
<1> DEFINE D == Digits(n, Base, Width)
           E == Digits(n + 1, Base, Width)
           X == This \o E
<1>1. /\ n \in 0..(Limit - 1) /\ n + 1 \in 0..(Limit - 1) /\ Base \in Nat \ {0, 1} /\ Base \in Nat
  BY BaseType, LimitType
<1>2. /\ ValueOf(D, Base) = n /\ ValueOf(E, Base) = n + 1
      /\ D \in Str /\ E \in Seq(Byte) /\ E \in Str /\ Len(D) = Len(E)
  <2>1. "uint32" \in Kind
    BY DEF Kind
  <2> QED  BY <1>1, <2>1, KeyNumber
<1>3. This \in Str /\ This \in Seq(Byte) /\ This # <<>> /\ This[1] # 0
  <2>1. This \in Seq(Byte) /\ This[1] # 0
    BY TextAssumption DEF Byte
  <2>2. This \in Str /\ Other \in Str
    BY NameAssumption DEF Str
  <2>3. Len(This) # 0
    BY <2>2, NameAssumption, PrefixPointwise DEF Str
  <2> QED  BY <2>1, <2>2, <2>3
<1> HIDE DEF D, E
<1>4. ValueOf(This \o D, Base) + (n + 1) = ValueOf(X, Base) + n
  BY <1>1, <1>2, <1>3, ValueOfNamed
<1>5. ValueOf(This \o D, Base) \in Nat /\ ValueOf(X, Base) \in Nat
  BY <1>1, <1>2, <1>3, NamedKey, ValueOfNat
<1>6. ValueOf(This \o D, Base) + 1 = ValueOf(X, Base)
  BY <1>4, <1>5
<1>7. X \in Seq(Byte) /\ X # <<>> /\ X[1] # 0
  <2>1. Len(This) \in Nat \ {0}
    BY <1>3 DEF Str
  <2>2. X \in Seq(Byte) /\ Len(X) = Len(This) + Len(E) /\ X[1] = This[1] /\ Len(E) \in Nat
    BY <1>2, <1>3, <2>1, ConcatProperties
  <2> QED  BY <1>3, <2>1, <2>2
<1>8. Numeral(ValueOf(X, Base), Base) = X
  <2> HIDE DEF X
  <2> QED  BY <1>1, <1>7, NumeralOfValue DEF Byte
<1> QED  BY <1>6, <1>8 DEF BytesNext, D, E

\* A name in front of two keys does not change their order.
LEMMA BeforeNamed ==
    ASSUME NEW p \in Str, NEW a \in Str, NEW b \in Str
    PROVE  Before(p \o a, p \o b) <=> Before(a, b)
<1>1. ASSUME NEW c \in Str, NEW d \in Str, Before(c, d)  PROVE Before(p \o c, p \o d)
  <2> DEFINE C == p \o c
             D == p \o d
             L == Len(p)
  <2>1. /\ C \in Str /\ Len(C) = L + Len(c) /\ L \in Nat /\ Len(c) \in Nat
        /\ \A i \in 1..L : C[i] = p[i]
        /\ \A i \in 1..Len(c) : C[L + i] = c[i]
    BY ConcatProperties DEF Str
  <2>2. /\ D \in Str /\ Len(D) = L + Len(d) /\ Len(d) \in Nat
        /\ \A i \in 1..L : D[i] = p[i]
        /\ \A i \in 1..Len(d) : D[L + i] = d[i]
    BY ConcatProperties DEF Str
  <2>3. PICK n \in Nat : BeforeAt(c, d, n)
    BY <1>1, BeforePointwise
  <2> HIDE DEF C, D, L
  <2>4. /\ n <= Len(c) /\ n < Len(d) /\ \A i \in 1..n : c[i] = d[i]
        /\ n < Len(c) => c[n + 1] < d[n + 1]
    BY <2>3 DEF BeforeAt
  <2>5. L + n \in Nat /\ L + n <= Len(C) /\ L + n < Len(D)
    BY <2>1, <2>2, <2>4
  <2>6. ASSUME NEW i \in 1..(L + n)  PROVE C[i] = D[i]
    <3>1. CASE i <= L
      BY <2>1, <2>2, <3>1
    <3>2. CASE i > L
      <4>1. i - L \in 1..n /\ L + (i - L) = i /\ i - L \in 1..Len(c) /\ i - L \in 1..Len(d)
        BY <2>1, <2>2, <2>4, <3>2
      <4>2. C[L + (i - L)] = c[i - L] /\ D[L + (i - L)] = d[i - L] /\ c[i - L] = d[i - L]
        BY <2>1, <2>2, <2>4, <4>1
      <4> QED  BY <4>1, <4>2
    <3> QED  BY <2>1, <3>1, <3>2
  <2>7. L + n < Len(C) => C[(L + n) + 1] < D[(L + n) + 1]
    <3> SUFFICES ASSUME L + n < Len(C)  PROVE C[(L + n) + 1] < D[(L + n) + 1]
      OBVIOUS
    <3>1. (L + n) + 1 = L + (n + 1) /\ n + 1 \in 1..Len(c) /\ n + 1 \in 1..Len(d) /\ n < Len(c)
      BY <2>1, <2>2, <2>4
    <3> QED  BY <2>1, <2>2, <2>4, <3>1
  <2>8. BeforeAt(C, D, L + n)
    BY <2>5, <2>6, <2>7 DEF BeforeAt
  <2> QED  BY <2>1, <2>2, <2>5, <2>8, BeforePointwise DEF C, D
<1>2. ASSUME Before(p \o a, p \o b), ~Before(a, b)  PROVE FALSE
  <2>1. a = b \/ Before(b, a)
    BY <1>2, BeforeTotal
  <2>2. p \o a \in Str /\ p \o b \in Str
    BY NamedKey
  <2>3. Before(p \o a, p \o a)
    BY <1>1, <1>2, <2>1, <2>2, BeforeTransitive
  <2> QED  BY <2>2, <2>3, BeforeIrreflexive
<1> QED  BY <1>1, <1>2

-----------------------------------------------------------------------------
(* The inductive invariant of Range. *)

FromN == NumberOf(call.from)
ToN == NumberOf(call.to)

\* A Range for which RangeInv says something.
Ranging == call.op = "range" /\ ~Backwards

\* The bounds of a Range.
Bounds ==
    /\ pc = "idle" => prevKey = Nil
    /\ Ranging =>
          /\ FromN \in 0..(Limit - 1) /\ ToN \in 0..(Limit - 1)
          /\ call.from = KeyOf(kind, FromN) /\ call.to = KeyOf(kind, ToN)
          /\ kind = "bytes" => FromN * Base >= Limit
          /\ call.stopAtNil \in BOOLEAN
          /\ rest = {}

\* What Range delivered: ascending, and when it searches for gaps consecutive.
Delivered ==
    Ranging =>
        /\ seen \in Seq({k \in KeysOf(ever) : InRange(k)})
        /\ \A i \in 1..(Len(seen) - 1) : NumberOf(seen[i]) < NumberOf(seen[i + 1])
        /\ \A i \in 1..Len(seen) : NumberOf(seen[i]) <= NumberOf(Last(seen))
        /\ call.stopAtNil /\ FindsGaps =>
              /\ \A i \in 1..(Len(seen) - 1) : NumberOf(seen[i + 1]) = NumberOf(seen[i]) + 1
              /\ call.store = "redis" /\ seen # <<>> => seen[1] = call.from

\* bbolt and Badger: the cursor is past what was delivered and not past any
\* other key of the range.
AtCursor ==
    Ranging /\ call.store \in {"bbolt", "badger"} /\ pc = "run" =>
        /\ todo \subseteq Stored(call.store)
        /\ call.store = "badger" => \A s \in todo : ~Before(s, This)
        /\ \A k \in KeysOf(db) :
              Located(call.store, Bytes(kind, k)) \in todo =>
                 FromN <= NumberOf(k) /\ (seen # <<>> => NumberOf(Last(seen)) < NumberOf(k))
        /\ \A k \in KeysOf(db) :
              InRange(k) => Located(call.store, Bytes(kind, k)) \in todo \/ k \in ToSet(seen)
        /\ prevKey = IF seen = <<>> \/ ~FindsGaps THEN Nil
                     ELSE Located(call.store, Last(seen))

\* Redis: the number up to which keys were collected, and that of the first in
\* the page.
Collected == IF pc = "visit" /\ curr # call.to THEN NumberOf(curr) + 1 ELSE NumberOf(curr)
First == Collected - Len(page)

\* Redis: the page has the keys from First on, and what is below First has been
\* delivered.
Paging ==
    Ranging /\ call.store = "redis" /\ pc \in {"run", "visit"} =>
        /\ NumberOf(curr) \in FromN..ToN /\ curr = KeyOf(kind, NumberOf(curr))
        /\ FromN <= First
        /\ \A i \in 1..Len(page) : page[i] = RedisKey(KeyOf(kind, First + (i - 1)))
        /\ \A i \in 1..Len(seen) : NumberOf(seen[i]) < First
        /\ ~call.stopAtNil =>
              \A k \in KeysOf(always) : InRange(k) /\ NumberOf(k) < First => k \in ToSet(seen)
        /\ call.stopAtNil => IF seen = <<>> THEN First = FromN
                             ELSE NumberOf(Last(seen)) = First - 1
        /\ pc = "visit" => \A i \in 1..Len(page) :
              /\ values[i] => KeyOf(kind, First + (i - 1)) \in KeysOf(ever)
              /\ KeyOf(kind, First + (i - 1)) \in KeysOf(always) => values[i]
        /\ pc = "run" => \E q \in Nat : First = FromN + q * (PageSize + 1)
        /\ pc = "visit" /\ curr # call.to =>
              \E q \in Nat : Collected = FromN + q * (PageSize + 1)

\* Where a Range with stopAtNil stopped there is no next key.
GapFound ==
    IF seen = <<>>
    THEN \/ {k \in KeysOf(always) : InRange(k)} = {}
         \/ call.store = "redis" /\ call.from \notin KeysOf(always)
    ELSE ~\E k \in KeysOf(always) :
             InRange(k) /\ NumberOf(k) = NumberOf(Last(seen)) + 1

\* The call may end with this outcome.
EndedBy(outcome) ==
    /\ Ranging /\ outcome = "nil" =>
          /\ ~call.stopAtNil => {k \in KeysOf(always) : InRange(k)} \subseteq ToSet(seen)
          /\ call.stopAtNil /\ FindsGaps => GapFound
    /\ outcome = "err" /\ ~Backwards =>
          /\ call.store = "redis"
          /\ \/ call.op = "range" /\ WholePages
             \/ \E k \in KeysOf(ever) : Visited(k) /\ SignBit(k)
    /\ outcome = "panic" /\ ~Backwards =>
          /\ call.op = "range"
          /\ \/ call.store = "redis" /\ LeadingZero(call.from)
             \/ /\ call.store = "bbolt" /\ call.stopAtNil
                /\ \E k \in KeysOf(ever) : InRange(k) /\ LeadingZero(k)

Ended == EndedBy(pc)

RangeInv == Bounds /\ Delivered /\ AtCursor /\ Paging /\ Ended

LEMMA SameRanging ==
    ASSUME UNCHANGED <<kind, call>>  PROVE Ranging' = Ranging /\ Backwards' = Backwards
BY DEF Ranging, Backwards

-----------------------------------------------------------------------------
(* Keys by their numbers. *)

LEMMA NumberOfKey ==
    ASSUME kind \in Kind, NEW n \in 0..(Limit - 1)
    PROVE  NumberOf(KeyOf(kind, n)) = n /\ KeyOf(kind, n) \in Key(kind)
BY KeyNumber DEF NumberOf

\* The keys on the shelf are those of numbers.
LEMMA ShelfKey ==
    ASSUME Types, NEW k \in KeysOf(ever)
    PROVE  /\ NumberOf(k) \in 0..(Limit - 2) /\ NumberOf(k) \in 0..(Limit - 1)
           /\ k = KeyOf(kind, NumberOf(k)) /\ k \in Key(kind)
           /\ kind = "bytes" => NumberOf(k) * Base >= Limit
<1>1. kind \in Kind /\ ever \subseteq Entry(kind)
  BY DEF Types
<1>2. PICK e \in ever : e[1] = This /\ k = e[2]
  BY DEF KeysOf
<1>3. This # Other
  <2>1. This \in Str
    BY NameAssumption DEF Str
  <2> QED  BY <2>1, NameAssumption, PrefixPointwise
<1>4. PICK n \in Numbers(kind) : e = <<This, KeyOf(kind, n)>>
  BY <1>1, <1>2, <1>3 DEF Entry
<1>5. n \in 0..(Limit - 2) /\ n \in 0..(Limit - 1) /\ (kind = "bytes" => n * Base >= Limit)
  BY ShelfAssumption, LimitType DEF Numbers
<1>6. k = KeyOf(kind, n)
  BY <1>2, <1>4
<1> QED  BY <1>1, <1>5, <1>6, NumberOfKey

LEMMA LocatedKey ==
    ASSUME kind \in Kind, NEW store, NEW n \in 0..(Limit - 1)
    PROVE  /\ Bytes(kind, KeyOf(kind, n)) \in Str
           /\ Located(store, Bytes(kind, KeyOf(kind, n))) \in Str
<1>1. Bytes(kind, KeyOf(kind, n)) \in Str /\ This \in Str
  BY KeyNumber, NameAssumption DEF Str
<1> QED  BY <1>1, NamedKey DEF Located

\* The cursors meet keys in the order of their numbers.
LEMMA LocatedOrder ==
    ASSUME kind \in Kind, NEW store, NEW m \in 0..(Limit - 1), NEW n \in 0..(Limit - 1)
    PROVE  Before(Located(store, Bytes(kind, KeyOf(kind, m))),
                  Located(store, Bytes(kind, KeyOf(kind, n)))) <=> m < n
<1> DEFINE a == Bytes(kind, KeyOf(kind, m))
           b == Bytes(kind, KeyOf(kind, n))
<1>1. a \in Str /\ b \in Str /\ This \in Str
  BY LocatedKey, NameAssumption DEF Str
<1>2. Before(a, b) <=> m < n
  BY KeysInOrder
<1> HIDE DEF a, b
<1>3. Before(This \o a, This \o b) <=> Before(a, b)
  BY <1>1, BeforeNamed
<1>4. Before(Located(store, a), Located(store, b)) <=> m < n
  BY <1>2, <1>3 DEF Located
<1> QED  BY <1>4 DEF a, b

LEMMA RangeByNumber ==
    ASSUME Types, Bounds, Ranging, NEW n \in 0..(Limit - 1)
    PROVE  InRange(KeyOf(kind, n)) <=> FromN <= n /\ n < ToN
<1>1. /\ kind \in Kind /\ FromN \in 0..(Limit - 1) /\ ToN \in 0..(Limit - 1)
      /\ call.from = KeyOf(kind, FromN) /\ call.to = KeyOf(kind, ToN)
  BY DEF Types, Bounds
<1>2. Before(Bytes(kind, KeyOf(kind, n)), Bytes(kind, KeyOf(kind, FromN))) <=> n < FromN
  BY <1>1, KeysInOrder
<1>3. Before(Bytes(kind, KeyOf(kind, n)), Bytes(kind, KeyOf(kind, ToN))) <=> n < ToN
  BY <1>1, KeysInOrder
<1>4. ~(n < FromN) <=> FromN <= n
  BY <1>1
<1> QED  BY <1>1, <1>2, <1>3, <1>4 DEF InRange

\* A key of the shelf is in the range when its number is.
LEMMA InRangeNumber ==
    ASSUME Types, Bounds, Ranging, NEW k \in KeysOf(ever)
    PROVE  InRange(k) <=> FromN <= NumberOf(k) /\ NumberOf(k) < ToN
BY ShelfKey, RangeByNumber

-----------------------------------------------------------------------------
(* What a callback adds to what was delivered. *)

LEMMA DeliverNext ==
    ASSUME ShelfInv, Bounds, Delivered, Ranging, NEW k \in KeysOf(ever), InRange(k),
           seen # <<>> => NumberOf(Last(seen)) < NumberOf(k),
           call.stopAtNil /\ FindsGaps =>
              IF seen = <<>> THEN call.store = "redis" => k = call.from
              ELSE NumberOf(k) = NumberOf(Last(seen)) + 1,
           seen' = Append(seen, k), kind' = kind, call' = call, ever' = ever
    PROVE  Delivered'
<1> DEFINE K == {j \in KeysOf(ever) : InRange(j)}
           s == Append(seen, k)
           L == Len(seen)
<1>1. seen \in Seq(K) /\ k \in K /\ Types
  BY DEF Delivered, ShelfInv
<1>2. /\ s \in Seq(K) /\ Len(s) = L + 1 /\ L \in Nat /\ s[L + 1] = k
      /\ \A i \in 1..L : s[i] = seen[i] /\ seen[i] \in K
  <2> HIDE DEF K
  <2> QED  BY <1>1, AppendProperties, ElementOfSeq
<1>3. seen # <<>> <=> L # 0
  BY <1>1
<1>4. L # 0 => Last(seen) = seen[L]
  BY DEF Last
<1>5. Last(s) = k
  BY <1>2 DEF Last
<1>6. \A j \in K : NumberOf(j) \in Nat
  <2>1. \A j \in K : NumberOf(j) \in 0..(Limit - 1)
    BY <1>1, ShelfKey
  <2> QED  BY <2>1
<1>7. /\ \A i \in 1..(L - 1) : NumberOf(seen[i]) < NumberOf(seen[i + 1])
      /\ \A i \in 1..L : NumberOf(seen[i]) <= NumberOf(Last(seen))
  BY DEF Delivered
<1> HIDE DEF s, K, L
<1>8. ASSUME NEW i \in 1..(Len(s) - 1)  PROVE NumberOf(s[i]) < NumberOf(s[i + 1])
  <2>1. CASE i = L
    <3>1. L # 0 /\ L \in 1..L /\ s[i] = Last(seen) /\ s[i + 1] = k
      BY <1>2, <1>4, <2>1
    <3> QED  BY <1>3, <3>1
  <2>2. CASE i # L
    <3>1. i \in 1..(L - 1) /\ i \in 1..L /\ i + 1 \in 1..L
      BY <1>2, <2>2
    <3> QED  BY <1>2, <1>7, <3>1
  <2> QED  BY <2>1, <2>2
<1>9. ASSUME NEW i \in 1..Len(s)  PROVE NumberOf(s[i]) <= NumberOf(Last(s))
  <2>1. CASE i = L + 1
    BY <1>1, <1>2, <1>5, <1>6, <2>1
  <2>2. CASE i # L + 1
    <3>1. i \in 1..L /\ L # 0 /\ L \in 1..L
      BY <1>2, <2>2
    <3>2. NumberOf(s[i]) <= NumberOf(Last(seen)) /\ NumberOf(Last(seen)) < NumberOf(k)
      BY <1>2, <1>3, <1>7, <3>1
    <3>3. NumberOf(s[i]) \in Nat /\ NumberOf(Last(seen)) \in Nat /\ NumberOf(k) \in Nat
      BY <1>1, <1>2, <1>4, <1>6, <3>1
    <3> QED  BY <1>5, <3>2, <3>3
  <2> QED  BY <2>1, <2>2
<1>10. ASSUME call.stopAtNil, FindsGaps
       PROVE  /\ \A i \in 1..(Len(s) - 1) : NumberOf(s[i + 1]) = NumberOf(s[i]) + 1
              /\ call.store = "redis" => s[1] = call.from
  <2>1. /\ \A i \in 1..(L - 1) : NumberOf(seen[i + 1]) = NumberOf(seen[i]) + 1
        /\ call.store = "redis" /\ seen # <<>> => seen[1] = call.from
    BY <1>10 DEF Delivered, L
  <2>2. IF seen = <<>> THEN call.store = "redis" => k = call.from
        ELSE NumberOf(k) = NumberOf(Last(seen)) + 1
    BY <1>10
  <2>3. ASSUME NEW i \in 1..(Len(s) - 1)  PROVE NumberOf(s[i + 1]) = NumberOf(s[i]) + 1
    <3>1. CASE i = L
      <4>1. L # 0 /\ L \in 1..L /\ s[i] = Last(seen) /\ s[i + 1] = k
        BY <1>2, <1>4, <3>1
      <4> QED  BY <1>3, <2>2, <4>1
    <3>2. CASE i # L
      <4>1. i \in 1..(L - 1) /\ i \in 1..L /\ i + 1 \in 1..L
        BY <1>2, <3>2
      <4> QED  BY <1>2, <2>1, <4>1
    <3> QED  BY <3>1, <3>2
  <2>4. call.store = "redis" => s[1] = call.from
    <3>1. CASE L = 0
      BY <1>2, <1>3, <2>2, <3>1
    <3>2. CASE L # 0
      <4>1. 1 \in 1..L
        BY <1>2, <3>2
      <4> QED  BY <1>2, <1>3, <2>1, <3>2, <4>1
    <3> QED  BY <3>1, <3>2
  <2> QED  BY <2>3, <2>4
<1>11. seen' = s /\ s \in Seq({j \in KeysOf(ever) : InRange(j)})
  BY <1>2 DEF s, K
<1>12. /\ {j \in KeysOf(ever) : InRange(j)}' = {j \in KeysOf(ever) : InRange(j)}
       /\ FindsGaps' = FindsGaps
  BY DEF InRange, KeysOf, FindsGaps
<1>13. \A i : NumberOf(seen[i])' = NumberOf(s[i]) /\ NumberOf(Last(seen))' = NumberOf(Last(s))
  BY <1>11 DEF NumberOf
<1> QED  BY <1>8, <1>9, <1>10, <1>11, <1>12, <1>13 DEF Delivered, NumberOf

-----------------------------------------------------------------------------
(* The end of a call, and calls other than Range. *)

LEMMA InitRange == Init => RangeInv
BY DEF Ranging, Init, NoCall, RangeInv, Bounds, Delivered, AtCursor, Paging, Ended, EndedBy

\* A call that ends keeps what it delivered.
LEMMA EndRange ==
    ASSUME RangeInv, NEW outcome \in Outcome, EndedBy(outcome), pc' = outcome,
           UNCHANGED <<kind, call, seen, always, ever>>,
           Ranging => rest' = rest
    PROVE  RangeInv'
<1>1. outcome \notin {"idle", "run", "visit"}
  BY DEF Outcome
<1>2. Bounds'
  BY <1>1, SameRanging DEF RangeInv, Bounds, FromN, ToN, NumberOf
<1>3. Delivered'
  BY SameRanging DEF RangeInv, Delivered, InRange, KeysOf, NumberOf, FindsGaps
<1>4. AtCursor' /\ Paging'
  BY <1>1 DEF AtCursor, Paging
<1>5. Ended'
  BY SameRanging DEF Ended, EndedBy, InRange, KeysOf, NumberOf, FindsGaps, GapFound, WholePages, Visited,
         SignBit, LeadingZero
<1> QED  BY <1>2, <1>3, <1>4, <1>5 DEF RangeInv

LEMMA ReturnRange ==
    ASSUME RangeInv, NEW outcome \in Outcome, EndedBy(outcome), Return(outcome)
    PROVE  RangeInv'
<1>1. pc' = outcome /\ UNCHANGED <<kind, call, seen, always, ever, rest>>
  BY DEF Return, callVars, dbVars, redisVars
<1> QED  BY <1>1, EndRange

LEMMA PlainOutcomes ==
    /\ {"ctx", "cb", "true", "false"} \subseteq Outcome
    /\ EndedBy("ctx") /\ EndedBy("cb") /\ EndedBy("true") /\ EndedBy("false")
    /\ {"nil", "err", "panic"} \subseteq Outcome
BY DEF EndedBy, Outcome

\* A step of Iterate or Empty.
LEMMA OtherCall ==
    ASSUME call.op # "range", call' = call, kind' = kind, ever' = ever, pc' # "idle",
           pc' \in {"err", "panic"} =>
              /\ pc' = "err" /\ call.store = "redis" /\ call.op = "iterate"
              /\ \E k \in KeysOf(ever) : SignBit(k)
    PROVE  RangeInv'
<1>1. Bounds' /\ Delivered' /\ AtCursor' /\ Paging'
  BY DEF Ranging, Bounds, Delivered, AtCursor, Paging
<1>2. Ended'
  <2>1. ~Ranging' /\ call'.op # "range"
    BY DEF Ranging
  <2> QED  BY <2>1 DEF Ended, EndedBy, KeysOf, SignBit, Visited
<1> QED  BY <1>1, <1>2 DEF RangeInv

\* A step of Redis' Range with to before from.
LEMMA BackwardsStep ==
    ASSUME Backwards, call' = call, kind' = kind, pc' # "idle"
    PROVE  RangeInv'
<1>1. ~Ranging' /\ Backwards'
  BY SameRanging DEF Ranging
<1>2. Bounds' /\ Delivered' /\ AtCursor' /\ Paging'
  BY <1>1 DEF Bounds, Delivered, AtCursor, Paging
<1>3. Ended'
  BY <1>1 DEF Ended, EndedBy
<1> QED  BY <1>2, <1>3 DEF RangeInv

\* Range may return nil when it has delivered all keys of the range.
LEMMA NilComplete ==
    ASSUME ShelfInv, RangeInv, Ranging,
           \A k \in KeysOf(always) : InRange(k) => k \in ToSet(seen)
    PROVE  EndedBy("nil")
<1> DEFINE K == {k \in KeysOf(ever) : InRange(k)}
<1>1. seen \in Seq(K) /\ Types /\ KeysOf(always) \subseteq KeysOf(ever)
  BY KeysOfMonotone DEF RangeInv, Delivered, ShelfInv, Types
<1>2. \A i \in 1..Len(seen) : NumberOf(seen[i]) <= NumberOf(Last(seen))
  BY DEF RangeInv, Delivered
<1>3. CASE seen = <<>>
  <2>1. {k \in KeysOf(always) : InRange(k)} = {}
    BY <1>3, ToSetEmpty
  <2> QED  BY <1>3, <2>1 DEF EndedBy, GapFound
<1>4. CASE seen # <<>>
  <2>1. ASSUME NEW k \in KeysOf(always), InRange(k), NumberOf(k) = NumberOf(Last(seen)) + 1
        PROVE  FALSE
    <3>1. PICK i \in 1..Len(seen) : k = seen[i]
      BY <1>1, <2>1 DEF ToSet
    <3>2. NumberOf(k) <= NumberOf(Last(seen))
      BY <1>2, <3>1
    <3>3. Len(seen) \in 1..Len(seen) /\ Last(seen) = seen[Len(seen)]
      BY <1>1, <1>4 DEF Last
    <3>4. Last(seen) \in K
      <4> HIDE DEF K
      <4> QED  BY <1>1, <3>3, ElementOfSeq
    <3>5. NumberOf(k) \in Nat /\ NumberOf(Last(seen)) \in Nat
      <4>1. NumberOf(k) \in 0..(Limit - 1) /\ NumberOf(Last(seen)) \in 0..(Limit - 1)
        BY <1>1, <3>4, ShelfKey
      <4> QED  BY <4>1
    <3> QED  BY <2>1, <3>2, <3>5
  <2> QED  BY <1>4, <2>1 DEF EndedBy, GapFound
<1> QED  BY <1>3, <1>4

\* No key is Nil.
LEMMA KeyNotNil == ASSUME NEW kd \in Kind, NEW k \in Key(kd)  PROVE k # Nil
<1>1. kd = "uint32" => k \in Nat
  BY KeyByKind, LimitType
<1>2. kd # "uint32" => k \in Seq(Byte)
  BY KeyByKind DEF Kind
<1>3. Seq(Byte) \subseteq Seq(Nat)
  BY ByteSeq DEF Str
<1> QED  BY <1>1, <1>2, <1>3, NilAssumption

-----------------------------------------------------------------------------
(* Range of bbolt and Badger. *)

\* The last key delivered.
LEMMA LastDelivered ==
    ASSUME ShelfInv, RangeInv, Ranging, seen # <<>>
    PROVE  /\ Last(seen) \in KeysOf(ever) /\ InRange(Last(seen))
           /\ NumberOf(Last(seen)) \in Nat /\ NumberOf(Last(seen)) + 1 < Limit
           /\ FromN <= NumberOf(Last(seen))
<1> DEFINE K == {k \in KeysOf(ever) : InRange(k)}
<1>1. seen \in Seq(K) /\ Types
  BY DEF RangeInv, Delivered, ShelfInv
<1>2. Len(seen) \in 1..Len(seen) /\ Last(seen) = seen[Len(seen)]
  BY <1>1 DEF Last
<1>3. Last(seen) \in K
  <2> HIDE DEF K
  <2> QED  BY <1>1, <1>2, ElementOfSeq
<1>4. NumberOf(Last(seen)) \in 0..(Limit - 2)
  BY <1>1, <1>3, ShelfKey
<1>5. FromN <= NumberOf(Last(seen))
  BY <1>1, <1>3, InRangeNumber DEF RangeInv
<1> QED  BY <1>3, <1>4, <1>5, LimitType

\* A cursor that is at a key of the shelf is at the one with the least number.
LEMMA CursorKey ==
    ASSUME ShelfInv, RangeInv, Ranging, call.store \in {"bbolt", "badger"}, pc = "run",
           todo # {}, call.store = "badger" => IsPrefix(This, Current)
    PROVE  \E k \in KeysOf(db) :
              /\ Current = Located(call.store, Bytes(kind, k)) /\ Current \in todo
              /\ \A j \in KeysOf(db) : Located(call.store, Bytes(kind, j)) \in todo =>
                    j = k \/ NumberOf(k) < NumberOf(j)
<1>1. Types /\ kind \in Kind /\ todo \subseteq Stored(call.store) /\ ever = db
  BY DEF ShelfInv, Types, Calls, RangeInv, AtCursor
<1>2. Current \in todo /\ \A m \in todo : m = Current \/ Before(Current, m)
  BY <1>1, CurrentFirst
<1>3. PICK k \in KeysOf(db) : Current = Located(call.store, Bytes(kind, k))
  BY <1>1, <1>2, StoredKeys DEF Located
<1>4. ASSUME NEW j \in KeysOf(db), Located(call.store, Bytes(kind, j)) \in todo
      PROVE  j = k \/ NumberOf(k) < NumberOf(j)
  <2> DEFINE m == NumberOf(k)
             n == NumberOf(j)
  <2>1. m \in 0..(Limit - 1) /\ n \in 0..(Limit - 1) /\ k = KeyOf(kind, m) /\ j = KeyOf(kind, n)
    BY <1>1, ShelfKey
  <2> HIDE DEF m, n
  <2>2. CASE Before(Current, Located(call.store, Bytes(kind, j)))
    <3>1. m < n
      BY <1>1, <1>3, <2>1, <2>2, LocatedOrder
    <3> QED  BY <3>1 DEF m, n
  <2>3. CASE Located(call.store, Bytes(kind, j)) = Current
    <3> DEFINE a == Located(call.store, Bytes(kind, KeyOf(kind, m)))
               b == Located(call.store, Bytes(kind, KeyOf(kind, n)))
    <3>1. a = b /\ a \in Str
      BY <1>1, <1>3, <2>1, <2>3, LocatedKey
    <3>2. Before(a, b) <=> m < n
      BY <1>1, <2>1, LocatedOrder
    <3>3. Before(b, a) <=> n < m
      BY <1>1, <2>1, LocatedOrder
    <3> HIDE DEF a, b
    <3>4. ~(m < n) /\ ~(n < m)
      BY <3>1, <3>2, <3>3, BeforeIrreflexive
    <3>5. m = n
      BY <2>1, <3>4
    <3> QED  BY <2>1, <3>5
  <2> QED  BY <1>2, <1>4, <2>2, <2>3
<1> QED  BY <1>2, <1>3, <1>4

\* A cursor outside the range has all of the range behind it.
LEMMA CursorPast ==
    ASSUME ShelfInv, RangeInv, Ranging, call.store \in {"bbolt", "badger"}, pc = "run",
           ~(/\ todo # {}
             /\ call.store = "badger" => IsPrefix(This, Current)
             /\ Before(Current, Located(call.store, Bytes(kind, call.to))))
    PROVE  EndedBy("nil")
<1>1. /\ Types /\ kind \in Kind /\ todo \subseteq Stored(call.store) /\ ever = db /\ always = db
      /\ call.store = "badger" => \A s \in todo : ~Before(s, This)
      /\ \A k \in KeysOf(db) :
              InRange(k) => Located(call.store, Bytes(kind, k)) \in todo \/ k \in ToSet(seen)
  BY DEF ShelfInv, Types, Calls, RangeInv, AtCursor
<1>2. ASSUME NEW k \in KeysOf(db), InRange(k), Located(call.store, Bytes(kind, k)) \in todo
      PROVE  FALSE
  <2>1. todo # {}
    BY <1>2
  <2>2. CASE call.store = "badger" /\ ~IsPrefix(This, Current)
    <3>1. ~ValidForPrefix
      BY <2>2 DEF ValidForPrefix
    <3> QED  BY <1>1, <1>2, <2>2, <3>1, CursorLeft DEF Located
  <2>3. CASE ~Before(Current, Located(call.store, Bytes(kind, call.to)))
    <3> DEFINE a == Located(call.store, Bytes(kind, k))
               b == Located(call.store, Bytes(kind, call.to))
               n == NumberOf(k)
    <3>1. n \in 0..(Limit - 1) /\ k = KeyOf(kind, n) /\ n < ToN
      BY <1>1, <1>2, ShelfKey, InRangeNumber DEF RangeInv
    <3>2. call.to = KeyOf(kind, ToN) /\ ToN \in 0..(Limit - 1)
      BY DEF RangeInv, Bounds
    <3> HIDE DEF n
    <3>3. Before(a, b) /\ a \in Str /\ b \in Str
      BY <1>1, <3>1, <3>2, LocatedKey, LocatedOrder
    <3>4. (a = Current \/ Before(Current, a)) /\ Current \in Str
      BY <1>1, <1>2, <2>1, CurrentFirst
    <3>5. ~Before(Current, b)
      BY <2>3
    <3> HIDE DEF a, b
    <3> QED  BY <3>3, <3>4, <3>5, BeforeTransitive
  <2> QED  BY <2>1, <2>2, <2>3
<1> QED  BY <1>1, <1>2, NilComplete

\* The key that the search for gaps expects.
LEMMA ExpectedKey ==
    ASSUME ShelfInv, RangeInv, Ranging, call.store \in {"bbolt", "badger"}, pc = "run",
           seen # <<>>, FindsGaps
    PROVE  /\ prevKey # Nil
           /\ NextKey(kind, prevKey)
                = IF call.store = "bbolt" /\ LeadingZero(Last(seen)) THEN Nil
                  ELSE Located(call.store, KeyOf(kind, NumberOf(Last(seen)) + 1))
<1> DEFINE l == NumberOf(Last(seen))
           k == Last(seen)
<1>1. Types /\ kind \in Kind /\ prevKey = Located(call.store, k)
  BY DEF ShelfInv, Types, RangeInv, AtCursor
<1>2. k \in KeysOf(ever) /\ l \in Nat /\ l + 1 < Limit
  BY LastDelivered
<1>3. k = KeyOf(kind, l) /\ k \in Key(kind) /\ (kind = "bytes" => l * Base >= Limit)
  BY <1>1, <1>2, ShelfKey
<1> HIDE DEF l, k
<1>4. CASE call.store = "bbolt"
  <2>1. prevKey = k /\ Located(call.store, KeyOf(kind, l + 1)) = KeyOf(kind, l + 1)
    BY <1>1, <1>4 DEF Located
  <2>2. NextKey(kind, k) = IF kind = "hash" /\ (l + 1) * Base < Limit THEN Nil
                           ELSE KeyOf(kind, l + 1)
    BY <1>1, <1>2, <1>3, NextCounts
  <2>3. k # Nil
    BY <1>1, <1>3, KeyNotNil
  <2> QED  BY <1>4, <2>1, <2>2, <2>3 DEF LeadingZero, l, k
<1>5. CASE call.store = "badger"
  <2>1. kind = "bytes"
    BY <1>5 DEF FindsGaps
  <2>2. k = Digits(l, Base, Width) /\ KeyOf(kind, l + 1) = Digits(l + 1, Base, Width)
    BY <1>3, <2>1 DEF KeyOf
  <2>3. prevKey = This \o Digits(l, Base, Width)
    BY <1>1, <1>5, <2>2 DEF Located
  <2>4. BytesNext(This \o Digits(l, Base, Width)) = This \o Digits(l + 1, Base, Width)
    BY <1>2, NamedNext
  <2>5. prevKey \in Seq(Nat)
    <3>1. l \in 0..(Limit - 1)
      BY <1>2, LimitType
    <3>2. This \in Str /\ Digits(l, Base, Width) \in Str
      BY <1>1, <3>1, KeyNumber, NameAssumption DEF Str
    <3> QED  BY <2>3, <3>2, NamedKey DEF Str
  <2> QED  BY <1>5, <2>1, <2>2, <2>3, <2>4, <2>5, NilAssumption DEF NextKey, Located, l
<1> QED  BY <1>4, <1>5

\* The key at the cursor is delivered.
LEMMA DeliverRange ==
    ASSUME ShelfInv, RangeInv, Ranging, call.store \in {"bbolt", "badger"}, pc = "run",
           NEW k \in KeysOf(db), InRange(k),
           Current = Located(call.store, Bytes(kind, k)), Current \in todo,
           \A j \in KeysOf(db) : Located(call.store, Bytes(kind, j)) \in todo =>
              j = k \/ NumberOf(k) < NumberOf(j),
           call.stopAtNil /\ FindsGaps /\ seen # <<>> => NumberOf(k) = NumberOf(Last(seen)) + 1,
           NEW curKey, curKey = IF FindsGaps THEN Located(call.store, k) ELSE Nil,
           Deliver(k, curKey)
    PROVE  RangeInv'
<1> DEFINE K == {j \in KeysOf(ever) : InRange(j)}
           s == Append(seen, k)
<1>1. /\ kind' = kind /\ call' = call /\ db' = db /\ ever' = ever /\ always' = always
      /\ rest' = rest
      /\ seen' = s /\ todo' = todo \ {Current} /\ prevKey' = curKey /\ pc' \in {"run", "cb"}
  BY DEF Deliver, PrevKey, callVars, dbVars, redisVars
<1>2. /\ Types /\ todo \subseteq Stored(call.store) /\ ever = db
      /\ call.store = "badger" => \A x \in todo : ~Before(x, This)
      /\ \A j \in KeysOf(db) :
              Located(call.store, Bytes(kind, j)) \in todo =>
                 FromN <= NumberOf(j) /\ (seen # <<>> => NumberOf(Last(seen)) < NumberOf(j))
      /\ \A j \in KeysOf(db) :
              InRange(j) => Located(call.store, Bytes(kind, j)) \in todo \/ j \in ToSet(seen)
  BY DEF ShelfInv, Calls, RangeInv, AtCursor
<1>3. Bounds'
  BY <1>1 DEF RangeInv, Bounds, FromN, ToN, NumberOf
<1>4. Delivered'
  <2>1. k \in KeysOf(ever) /\ Bounds /\ Delivered
    BY <1>2 DEF RangeInv
  <2>2. seen # <<>> => NumberOf(Last(seen)) < NumberOf(k)
    BY <1>2
  <2>3. call.store # "redis"
    OBVIOUS
  <2> QED  BY <1>1, <2>1, <2>2, <2>3, DeliverNext
<1>5. AtCursor'
  <2>1. seen \in Seq(K) /\ k \in K
    BY <1>2 DEF RangeInv, Delivered
  <2>2. ToSet(s) = ToSet(seen) \cup {k} /\ Last(s) = k /\ s # <<>>
    <3>1. s \in Seq(K) /\ Len(s) = Len(seen) + 1 /\ s[Len(seen) + 1] = k /\ Len(seen) \in Nat
      <4> HIDE DEF K
      <4> QED  BY <2>1, AppendProperties
    <3>2. Last(s) = k /\ s # <<>>
      <4> HIDE DEF s
      <4> QED  BY <3>1 DEF Last
    <3> QED  BY <2>1, <3>2, ToSetAppend
  <2> HIDE DEF s
  <2>3. ASSUME NEW j \in KeysOf(db), Located(call.store, Bytes(kind, j)) \in todo \ {Current}
        PROVE  FromN <= NumberOf(j) /\ NumberOf(Last(s)) < NumberOf(j)
    <3>1. j # k
      BY <2>3
    <3> QED  BY <1>2, <2>2, <2>3, <3>1
  <2>4. ASSUME NEW j \in KeysOf(db), InRange(j)
        PROVE  Located(call.store, Bytes(kind, j)) \in todo \ {Current} \/ j \in ToSet(s)
    <3>1. CASE Located(call.store, Bytes(kind, j)) \in todo /\ j # k
      <4>1. /\ NumberOf(k) < NumberOf(j)
            /\ NumberOf(k) \in 0..(Limit - 1) /\ NumberOf(j) \in 0..(Limit - 1)
            /\ k = KeyOf(kind, NumberOf(k)) /\ j = KeyOf(kind, NumberOf(j)) /\ kind \in Kind
        BY <1>2, <3>1, ShelfKey DEF Types
      <4>2. Before(Current, Located(call.store, Bytes(kind, j))) /\ Current \in Str
        BY <4>1, LocatedOrder, LocatedKey
      <4>3. Located(call.store, Bytes(kind, j)) # Current
        BY <4>2, BeforeIrreflexive
      <4> QED  BY <3>1, <4>3
    <3>2. CASE j \in ToSet(seen) \/ j = k
      BY <2>2, <3>2
    <3> QED  BY <1>2, <2>4, <3>1, <3>2
  <2>5. Stored(call.store)' = Stored(call.store) /\ FindsGaps' = FindsGaps /\ FromN' = FromN
    BY <1>1 DEF Stored, FindsGaps, FromN, NumberOf
  <2>6. prevKey' = IF s = <<>> \/ ~FindsGaps THEN Nil ELSE Located(call.store, Last(s))
    BY <1>1, <2>2
  <2>7. todo \ {Current} \subseteq Stored(call.store)
    BY <1>2
  <2> DEFINE T == todo \ {Current}
  <2>8. todo' = T /\ \A x \in T : x \in todo
    BY <1>1
  <2> HIDE DEF T
  <2> SUFFICES /\ T \subseteq Stored(call.store)'
               /\ call.store = "badger" => \A x \in T : ~Before(x, This)
               /\ \A j \in KeysOf(db) :
                     Located(call.store, Bytes(kind, j)) \in T =>
                        FromN <= NumberOf(j) /\ NumberOf(Last(s)) < NumberOf(j)
               /\ \A j \in KeysOf(db) :
                     InRange(j) => Located(call.store, Bytes(kind, j)) \in T \/ j \in ToSet(s)
    BY <1>1, <2>5, <2>6, <2>8 DEF AtCursor, NumberOf, InRange, FromN
  <2> QED  BY <1>2, <2>3, <2>4, <2>5, <2>7, <2>8 DEF T
<1>6. Paging' /\ Ended'
  BY <1>1 DEF Paging, Ended, EndedBy
<1> QED  BY <1>3, <1>4, <1>5, <1>6 DEF RangeInv

\* A turn of the loop with the key at the cursor.
LEMMA TurnRange ==
    ASSUME ShelfInv, RangeInv, Ranging, call.store \in {"bbolt", "badger"}, pc = "run",
           NEW k \in KeysOf(db), InRange(k),
           Current = Located(call.store, Bytes(kind, k)), Current \in todo,
           \A j \in KeysOf(db) : Located(call.store, Bytes(kind, j)) \in todo =>
              j = k \/ NumberOf(k) < NumberOf(j),
           NEW curKey, curKey = IF FindsGaps THEN Located(call.store, k) ELSE Nil,
           Turn(k, curKey)
    PROVE  RangeInv'
<1> DEFINE gapSearch == call.stopAtNil /\ prevKey # Nil
           expected == NextKey(kind, prevKey)
           l == NumberOf(Last(seen))
           n == NumberOf(k)
<1>1. /\ Types /\ kind \in Kind /\ ever = db /\ always = db
      /\ prevKey = IF seen = <<>> \/ ~FindsGaps THEN Nil ELSE Located(call.store, Last(seen))
      /\ \A j \in KeysOf(db) :
              Located(call.store, Bytes(kind, j)) \in todo =>
                 FromN <= NumberOf(j) /\ (seen # <<>> => NumberOf(Last(seen)) < NumberOf(j))
      /\ \A j \in KeysOf(db) :
              InRange(j) => Located(call.store, Bytes(kind, j)) \in todo \/ j \in ToSet(seen)
  BY DEF ShelfInv, Types, Calls, RangeInv, AtCursor
<1>2. k # Nil /\ n \in 0..(Limit - 1) /\ k = KeyOf(kind, n)
  BY <1>1, ShelfKey, KeyNotNil
<1>3. ASSUME seen # <<>>, FindsGaps
      PROVE  /\ prevKey # Nil /\ l \in Nat /\ l + 1 \in 0..(Limit - 1) /\ l < n
             /\ expected = IF call.store = "bbolt" /\ LeadingZero(Last(seen)) THEN Nil
                           ELSE Located(call.store, KeyOf(kind, l + 1))
             /\ Last(seen) \in KeysOf(ever) /\ InRange(Last(seen))
  <2>1. l \in Nat /\ l + 1 < Limit /\ Last(seen) \in KeysOf(ever) /\ InRange(Last(seen))
    BY <1>3, LastDelivered
  <2>2. l < n
    BY <1>1, <1>3
  <2> QED  BY <1>3, <2>1, <2>2, ExpectedKey, LimitType
<1>4. gapSearch => seen # <<>> /\ FindsGaps
  BY <1>1
<1>5. CASE gapSearch /\ expected = Nil /\ Return("panic")
  <2>1. call.store = "bbolt" /\ LeadingZero(Last(seen))
    <3> SUFFICES ASSUME ~(call.store = "bbolt" /\ LeadingZero(Last(seen)))  PROVE FALSE
      OBVIOUS
    <3>1. Located(call.store, KeyOf(kind, l + 1)) = Nil
      BY <1>3, <1>4, <1>5
    <3>2. CASE call.store = "bbolt"
      <4>1. KeyOf(kind, l + 1) \in Key(kind)
        BY <1>1, <1>3, <1>4, <1>5, KeyNumber
      <4> QED  BY <1>1, <3>1, <3>2, <4>1, KeyNotNil DEF Located
    <3>3. CASE call.store = "badger"
      <4>1. kind = "bytes"
        BY <1>4, <1>5, <3>3 DEF FindsGaps
      <4>2. KeyOf(kind, l + 1) \in Str /\ This \in Str
        BY <1>3, <1>4, <1>5, <4>1, KeyNumber, NameAssumption DEF KeyOf, Str, Kind
      <4>3. Located(call.store, KeyOf(kind, l + 1)) \in Seq(Nat)
        BY <3>3, <4>2, NamedKey DEF Located, Str
      <4> QED  BY <3>1, <4>3, NilAssumption
    <3> QED  BY <3>2, <3>3
  <2>2. EndedBy("panic") /\ "panic" \in Outcome
    BY <1>3, <1>4, <1>5, <2>1 DEF Ranging, Backwards, EndedBy, Outcome
  <2> QED  BY <1>5, <2>2, ReturnRange
<1>6. CASE gapSearch /\ expected # Nil /\ expected # curKey /\ Return("nil")
  <2>1. n # l + 1
    <3> SUFFICES ASSUME n = l + 1  PROVE FALSE
      OBVIOUS
    <3>1. expected = Located(call.store, KeyOf(kind, l + 1))
      BY <1>3, <1>4, <1>6
    <3>2. curKey = Located(call.store, k)
      BY <1>4, <1>6
    <3> HIDE DEF expected, n, l
    <3> QED  BY <1>2, <1>6, <3>1, <3>2
  <2>2. ASSUME NEW j \in KeysOf(always), InRange(j), NumberOf(j) = l + 1  PROVE FALSE
    <3>1. CASE Located(call.store, Bytes(kind, j)) \in todo
      <4>1. j = k \/ n < NumberOf(j)
        BY <1>1, <3>1
      <4>2. l < n /\ l \in Nat /\ n \in Nat
        BY <1>2, <1>3, <1>4, <1>6
      <4> HIDE DEF l
      <4> QED  BY <2>1, <2>2, <4>1, <4>2
    <3>2. CASE j \in ToSet(seen)
      <4>1. PICK i \in 1..Len(seen) : j = seen[i]
        <5>1. seen \in Seq({x \in KeysOf(ever) : InRange(x)})
          BY DEF RangeInv, Delivered
        <5> QED  BY <3>2, <5>1 DEF ToSet
      <4>2. NumberOf(j) <= l /\ l \in Nat
        BY <1>3, <1>4, <1>6, <4>1 DEF RangeInv, Delivered
      <4> HIDE DEF l
      <4> QED  BY <2>2, <4>2
    <3> QED  BY <1>1, <2>2, <3>1, <3>2
  <2>3. EndedBy("nil") /\ "nil" \in Outcome
    BY <1>4, <1>6, <2>2 DEF EndedBy, Outcome, GapFound
  <2> QED  BY <1>6, <2>3, ReturnRange
<1>7. CASE /\ gapSearch => expected # Nil /\ expected = curKey
           /\ Deliver(k, curKey)
  <2>1. ASSUME call.stopAtNil, FindsGaps, seen # <<>>  PROVE n = l + 1
    <3>1. gapSearch /\ expected = Located(call.store, KeyOf(kind, l + 1)) /\ l + 1 \in 0..(Limit - 1)
      BY <1>3, <1>7, <2>1
    <3>2. Located(call.store, k) = Located(call.store, KeyOf(kind, l + 1))
      BY <1>7, <2>1, <3>1
    <3>3. k = KeyOf(kind, l + 1)
      <4>1. CASE call.store = "bbolt"
        BY <3>2, <4>1 DEF Located
      <4>2. CASE call.store = "badger"
        <5>1. kind = "bytes"
          BY <2>1, <4>2 DEF FindsGaps
        <5>2. This \in Str /\ k \in Str /\ KeyOf(kind, l + 1) \in Str
          BY <1>1, <1>2, <3>1, <5>1, KeyNumber, NameAssumption DEF KeyOf, Str
        <5>3. This \o k = This \o KeyOf(kind, l + 1)
          BY <3>2, <4>2 DEF Located
        <5> HIDE DEF l
        <5> QED  BY <5>2, <5>3, NamedKey
      <4> QED  BY <4>1, <4>2
    <3> QED  BY <1>1, <3>1, <3>3, NumberOfKey
  <2> HIDE DEF expected, gapSearch
  <2> QED  BY <1>7, <2>1, DeliverRange
<1> QED  BY <1>2, <1>5, <1>6, <1>7 DEF Turn

LEMMA BBoltRangeStep == ASSUME ShelfInv, RangeInv, BBoltRange  PROVE RangeInv'
<1> DEFINE inside == todo # {} /\ Before(Current, Bytes(kind, call.to))
<1>1. /\ pc = "run" /\ call.store = "bbolt" /\ Ranging /\ BBoltLoop(inside)
      /\ call.store \in {"bbolt", "badger"}
  BY DEF Ranging, Backwards, BBoltRange, Running
<1>2. Located(call.store, Bytes(kind, call.to)) = Bytes(kind, call.to)
  BY <1>1 DEF Located
<1>3. CASE ~inside /\ Return("nil")
  <2>1. EndedBy("nil")
    BY <1>1, <1>2, <1>3, CursorPast
  <2> QED  BY <1>3, <2>1, ReturnRange, PlainOutcomes
<1>4. CASE Return("ctx")
  BY <1>4, ReturnRange, PlainOutcomes
<1>5. CASE /\ inside
           /\ LET key == FromBytes(kind, Current)
              IN  IF key = Nil THEN Return("err") ELSE Turn(key, key)
  <2>1. PICK k \in KeysOf(db) :
              /\ Current = Located(call.store, Bytes(kind, k)) /\ Current \in todo
              /\ \A j \in KeysOf(db) : Located(call.store, Bytes(kind, j)) \in todo =>
                    j = k \/ NumberOf(k) < NumberOf(j)
    BY <1>1, <1>5, CursorKey
  <2>2. Types /\ Bounds /\ kind \in Kind /\ k \in KeysOf(ever)
    BY <1>1 DEF ShelfInv, Calls, RangeInv, Types
  <2>3. Current = Bytes(kind, k)
    BY <1>1, <2>1 DEF Located
  <2>4. FromBytes(kind, Current) = k /\ k # Nil
    BY <2>2, <2>3, ShelfKey, BytesRoundTrip, KeyNotNil
  <2>5. InRange(k)
    <3>1. FromN <= NumberOf(k)
      BY <1>1, <2>1 DEF RangeInv, AtCursor
    <3>2. /\ NumberOf(k) \in 0..(Limit - 1) /\ k = KeyOf(kind, NumberOf(k))
          /\ ToN \in 0..(Limit - 1) /\ call.to = KeyOf(kind, ToN)
      BY <1>1, <2>2, ShelfKey DEF Bounds
    <3>3. NumberOf(k) < ToN
      BY <1>5, <2>2, <2>3, <3>2, KeysInOrder
    <3> QED  BY <1>1, <2>2, <3>1, <3>3, InRangeNumber
  <2>6. FindsGaps /\ Located(call.store, k) = k
    BY <1>1 DEF FindsGaps, Located
  <2>7. Turn(k, k)
    BY <1>5, <2>4
  <2> QED  BY <1>1, <2>1, <2>5, <2>6, <2>7, TurnRange
<1> QED  BY <1>1, <1>3, <1>4, <1>5 DEF BBoltLoop

LEMMA BadgerRangeStep == ASSUME ShelfInv, RangeInv, BadgerRange  PROVE RangeInv'
<1> DEFINE inside == ValidForPrefix /\ Before(Current, This \o Bytes(kind, call.to))
           key == FromBytes(kind, SubSeq(Current, Len(This) + 1, Len(Current)))
<1>1. /\ pc = "run" /\ call.store = "badger" /\ Ranging /\ BadgerLoop(inside)
      /\ call.store \in {"bbolt", "badger"}
  BY DEF Ranging, Backwards, BadgerRange, Running
<1>2. Located(call.store, Bytes(kind, call.to)) = This \o Bytes(kind, call.to)
  BY <1>1 DEF Located
<1>3. CASE ~inside /\ Return(IF ctx = "done" THEN "ctx" ELSE "nil")
  <2>1. EndedBy("nil")
    BY <1>1, <1>2, <1>3, CursorPast DEF ValidForPrefix
  <2> QED  BY <1>3, <2>1, ReturnRange, PlainOutcomes
<1>4. CASE Return("ctx")
  BY <1>4, ReturnRange, PlainOutcomes
<1>5. CASE inside /\ Turn(key, FromBytes(kind, Current))
  <2>1. PICK k \in KeysOf(db) :
              /\ Current = Located(call.store, Bytes(kind, k)) /\ Current \in todo
              /\ \A j \in KeysOf(db) : Located(call.store, Bytes(kind, j)) \in todo =>
                    j = k \/ NumberOf(k) < NumberOf(j)
    BY <1>1, <1>5, CursorKey DEF ValidForPrefix
  <2>2. Types /\ Bounds /\ kind \in Kind /\ k \in KeysOf(ever)
    BY <1>1 DEF ShelfInv, Calls, RangeInv, Types
  <2>3. /\ NumberOf(k) \in 0..(Limit - 1) /\ k = KeyOf(kind, NumberOf(k)) /\ k \in Key(kind)
        /\ ToN \in 0..(Limit - 1) /\ call.to = KeyOf(kind, ToN)
    BY <1>1, <2>2, ShelfKey DEF Bounds
  <2>4. Current = This \o Bytes(kind, k) /\ This \in Str /\ Bytes(kind, k) \in Str
    BY <1>1, <2>1, <2>2, <2>3, BytesRoundTrip, NameAssumption DEF Located, Str
  <2>5. key = k
    <3>1. SubSeq(Current, Len(This) + 1, Len(Current)) = Bytes(kind, k)
      BY <2>4, NamedKey
    <3> QED  BY <2>2, <2>3, <3>1, BytesRoundTrip
  <2>6. InRange(k)
    <3>1. FromN <= NumberOf(k)
      BY <1>1, <2>1 DEF RangeInv, AtCursor
    <3>2. NumberOf(k) < ToN
      BY <1>1, <1>2, <1>5, <2>1, <2>2, <2>3, LocatedOrder
    <3> QED  BY <1>1, <2>2, <3>1, <3>2, InRangeNumber
  <2>7. FromBytes(kind, Current) = IF FindsGaps THEN Located(call.store, k) ELSE Nil
    <3>1. CASE kind = "bytes"
      BY <1>1, <2>4, <3>1 DEF FromBytes, FindsGaps, Located, Bytes
    <3>2. CASE kind # "bytes"
      <4>1. Bytes(kind, k) = Digits(NumberOf(k), Base, Width) /\ Len(Bytes(kind, k)) = Width
        BY <2>2, <2>3, KeyNumber
      <4>2. Len(This) \in Nat /\ Len(This) # 0
        <5>1. Other \in Str
          BY NameAssumption DEF Str
        <5> QED  BY <2>4, <5>1, NameAssumption, PrefixPointwise DEF Str
      <4>3. Len(Current) # Width
        <5>1. Len(Current) = Len(This) + Width
          BY <2>4, <4>1, ConcatProperties DEF Str
        <5> QED  BY <4>2, <5>1, BaseType
      <4> QED
        BY <1>1, <2>2, <3>2, <4>3 DEF FromBytes, Uint32FromBytes, HashFromBytes, FindsGaps, Kind
    <3> QED  BY <3>1, <3>2
  <2>8. Turn(k, FromBytes(kind, Current))
    BY <1>5, <2>5
  <2> QED  BY <1>1, <2>1, <2>6, <2>7, <2>8, TurnRange
<1> QED  BY <1>1, <1>3, <1>4, <1>5 DEF BadgerLoop

\* Iterate and Empty of bbolt and Badger do not fail.
LEMMA CursorOtherStep ==
    ASSUME ShelfInv, BBoltIterate \/ BBoltEmpty \/ BadgerIterate \/ BadgerEmpty
    PROVE  RangeInv'
<1>1. /\ pc = "run" /\ call.op \in {"iterate", "empty"} /\ call.op # "range"
      /\ call.stopAtNil = FALSE
  BY DEF BBoltIterate, BBoltEmpty, BadgerIterate, BadgerEmpty, Running, ShelfInv, Calls
<1>2. ASSUME NEW outcome \in {"nil", "ctx", "true", "false"}, Return(outcome)  PROVE RangeInv'
  <2>1. pc' = outcome /\ call' = call /\ kind' = kind /\ ever' = ever
    BY <1>2 DEF Return, callVars, dbVars
  <2> QED  BY <1>1, <2>1, OtherCall
<1>3. ASSUME NEW key, NEW curKey, key # Nil, Turn(key, curKey)  PROVE RangeInv'
  <2>1. Deliver(key, curKey)
    BY <1>1, <1>3 DEF Turn
  <2>2. pc' \in {"run", "cb"} /\ call' = call /\ kind' = kind /\ ever' = ever
    BY <2>1 DEF Deliver, callVars, dbVars
  <2> QED  BY <1>1, <2>2, OtherCall
<1>4. \A k \in KeysOf(db) : k # Nil
  BY KeysOfEntries, KeyNotNil DEF ShelfInv, Types
<1>5. CASE BBoltIterate
  <2>1. call.store = "bbolt" /\ BBoltLoop(todo # {})
    BY <1>5 DEF BBoltIterate, Running
  <2>2. CASE Return("nil") \/ Return("ctx")
    BY <1>2, <2>2
  <2>3. CASE /\ todo # {}
             /\ LET key == FromBytes(kind, Current)
                IN  IF key = Nil THEN Return("err") ELSE Turn(key, key)
    <3>1. FromBytes(kind, Current) \in KeysOf(db)
      BY <1>1, <2>1, <2>3, BBoltCursor
    <3> QED  BY <1>3, <1>4, <2>3, <3>1
  <2> QED  BY <2>1, <2>2, <2>3 DEF BBoltLoop
<1>6. CASE BadgerIterate
  <2> DEFINE key == FromBytes(kind, SubSeq(Current, Len(This) + 1, Len(Current)))
  <2>1. call.store = "badger" /\ BadgerLoop(ValidForPrefix)
    BY <1>6 DEF BadgerIterate, Running
  <2>2. CASE Return("nil") \/ Return("ctx")
    BY <1>2, <2>2
  <2>3. CASE ValidForPrefix /\ Turn(key, FromBytes(kind, Current))
    <3>1. key \in KeysOf(db)
      BY <1>1, <2>1, <2>3, BadgerCursor
    <3> HIDE DEF key
    <3> QED  BY <1>3, <1>4, <2>3, <3>1
  <2> QED  BY <2>1, <2>2, <2>3 DEF BadgerLoop
<1>7. CASE BBoltEmpty
  BY <1>2, <1>7 DEF BBoltEmpty
<1>8. CASE BadgerEmpty
  BY <1>2, <1>8 DEF BadgerEmpty
<1> QED  BY <1>5, <1>6, <1>7, <1>8

-----------------------------------------------------------------------------
(* The start of a call. *)

LEMMA StartOther ==
    ASSUME NEW store, NEW op \in {"iterate", "empty"}, Start(store, op, Nil, Nil, FALSE)
    PROVE  RangeInv'
<1>1. pc' = "run" /\ call'.op = op
  BY DEF Start
<1> QED  BY <1>1 DEF Ranging, RangeInv, Bounds, Delivered, AtCursor, Paging, Ended, EndedBy

LEMMA StartRange ==
    ASSUME ShelfInv, RangeInv, NEW store \in {"bbolt", "badger", "redis"}, RangeCall(store)
    PROVE  RangeInv'
<1>1. PICK f \in Bound, t \in Bound, stop \in BOOLEAN :
         Start(store, "range", KeyOf(kind, f), KeyOf(kind, t), stop)
  BY DEF RangeCall
<1>2. /\ Types /\ kind \in Kind /\ pc = "idle" /\ rest = {} /\ seen = <<>> /\ page = <<>>
      /\ prevKey = Nil
  BY <1>1 DEF ShelfInv, Types, Calls, RangeInv, Bounds, Start
<1>3. /\ f \in 0..(Limit - 1) /\ t \in 0..(Limit - 1) /\ f \in Nat
      /\ kind = "bytes" => f * Base >= Limit
  <2>1. ASSUME NEW m \in Bound
        PROVE  m \in 0..(Limit - 1) /\ (kind = "bytes" => m * Base >= Limit)
    <3>1. \A i \in Numbers(kind) : i \in 0..(Limit - 2) /\ (kind = "bytes" => i * Base >= Limit)
      BY ShelfAssumption DEF Numbers
    <3>2. CASE m \in Numbers(kind)
      BY <3>1, <3>2, LimitType
    <3>3. CASE m \in {i + 1 : i \in Numbers(kind)}
      <4>1. PICK i \in Numbers(kind) : m = i + 1
        BY <3>3
      <4>2. \A x, b \in Nat : (x + 1) * b = x * b + b /\ x * b \in Nat
        OBVIOUS
      <4>3. i \in Nat /\ Base \in Nat /\ Limit \in Nat /\ i \in 0..(Limit - 2)
        BY <3>1, BaseType, LimitType
      <4>4. m * Base = i * Base + Base /\ i * Base \in Nat
        BY <4>1, <4>2, <4>3
      <4> QED  BY <3>1, <4>1, <4>3, <4>4
    <3> QED  BY <3>2, <3>3 DEF Bound
  <2> QED  BY <2>1
<1>4. /\ pc' = "run" /\ kind' = kind /\ seen' = <<>> /\ prevKey' = Nil /\ page' = <<>>
      /\ db' = db /\ always' = always /\ ever' = ever /\ rest' = {}
      /\ call' = [store |-> store, op |-> "range", from |-> KeyOf(kind, f), to |-> KeyOf(kind, t),
                  stopAtNil |-> stop]
  BY <1>1, <1>2 DEF Start, dbVars
<1>5. NumberOf(KeyOf(kind, f)) = f /\ NumberOf(KeyOf(kind, t)) = t /\ KeyOf(kind, f) # Nil
  BY <1>2, <1>3, NumberOfKey, KeyNotNil
<1>6. FromN' = f /\ ToN' = t
  BY <1>4, <1>5 DEF FromN, ToN, NumberOf
<1>7. Bounds'
  BY <1>1, <1>3, <1>4, <1>6 DEF Bounds
<1>8. Delivered'
  BY <1>4 DEF Delivered
<1>9. AtCursor'
  <2> SUFFICES ASSUME store \in {"bbolt", "badger"}  PROVE AtCursor'
    BY <1>4 DEF AtCursor
  <2> DEFINE b == Located(store, Bytes(kind, KeyOf(kind, f)))
  <2>1. todo' = Seek(store, b)
    BY <1>1, <1>5 DEF Start
  <2>2. Stored(store)' = Stored(store) /\ ever = db /\ call.store # "redis"
    BY <1>2, <1>4 DEF Stored, ShelfInv, Calls
  <2>3. ASSUME NEW k \in KeysOf(db)
        PROVE  Located(store, Bytes(kind, k)) \in todo' <=> f <= NumberOf(k)
    <3>1. NumberOf(k) \in 0..(Limit - 1) /\ k = KeyOf(kind, NumberOf(k))
      BY <1>2, <2>2, ShelfKey
    <3>2. Before(Located(store, Bytes(kind, k)), b) <=> NumberOf(k) < f
      BY <1>2, <1>3, <3>1, LocatedOrder
    <3>3. Located(store, Bytes(kind, k)) \in Stored(store)
      BY <1>2, StoredKeys
    <3> HIDE DEF b
    <3> QED  BY <1>3, <2>1, <3>1, <3>2, <3>3 DEF Seek
  <2>4. ASSUME store = "badger", NEW s \in todo'  PROVE ~Before(s, This)
    <3>1. s \in Str /\ ~Before(s, b)
      BY <1>2, <2>1, <2>4, StoredKeys DEF Seek
    <3>2. This \in Str /\ Bytes(kind, KeyOf(kind, f)) \in Str
      BY <1>2, <1>3, LocatedKey, NameAssumption DEF Str
    <3>3. b \in Str /\ ~Before(b, This)
      BY <2>4, <3>2, NamedKey DEF Located
    <3> HIDE DEF b
    <3> QED  BY <3>1, <3>2, <3>3, BeforeTotal, BeforeTransitive
  <2>5. \A k \in KeysOf(db) : InRange(k)' => f <= NumberOf(k)
    <3> SUFFICES ASSUME NEW k \in KeysOf(db), ~Before(Bytes(kind, k), Bytes(kind, KeyOf(kind, f)))
                 PROVE  f <= NumberOf(k)
      BY <1>4 DEF InRange
    <3>1. NumberOf(k) \in 0..(Limit - 1) /\ k = KeyOf(kind, NumberOf(k))
      BY <1>2, <2>2, ShelfKey
    <3>2. ~(NumberOf(k) < f)
      BY <1>2, <1>3, <3>1, KeysInOrder
    <3> QED  BY <1>3, <3>1, <3>2
  <2>6. todo' \subseteq Stored(store)
    BY <2>1 DEF Seek
  <2>7. \A k \in KeysOf(db) : NumberOf(k)' = NumberOf(k)
    BY <1>4 DEF NumberOf
  <2>8. KeysOf(db)' = KeysOf(db) /\ call'.store = store
    BY <1>4 DEF KeysOf
  <2> HIDE DEF b
  <2> SUFFICES /\ todo' \subseteq Stored(store)'
               /\ store = "badger" => \A s \in todo' : ~Before(s, This)
               /\ \A k \in KeysOf(db) : Located(store, Bytes(kind, k)) \in todo' => f <= NumberOf(k)'
               /\ \A k \in KeysOf(db) : InRange(k)' => Located(store, Bytes(kind, k)) \in todo'
    BY <1>4, <1>6, <2>8 DEF AtCursor
  <2> QED  BY <2>2, <2>3, <2>4, <2>5, <2>6, <2>7
<1>10. Paging'
  <2> SUFFICES ASSUME store = "redis", Ranging'  PROVE Paging'
    BY <1>4 DEF Paging
  <2>1. f <= t
    <3>1. ~Before(Bytes(kind, KeyOf(kind, t)), Bytes(kind, KeyOf(kind, f)))
      BY <1>4 DEF Ranging, Backwards
    <3>2. ~(t < f)
      BY <1>2, <1>3, <3>1, KeysInOrder
    <3> QED  BY <1>3, <3>2
  <2>2. curr' = KeyOf(kind, f)
    BY <1>1 DEF Start
  <2>3. NumberOf(curr)' = f /\ Len(page') = 0
    BY <1>4, <1>5, <2>2 DEF NumberOf
  <2>4. Collected' = f /\ First' = f
    BY <1>3, <1>4, <2>3 DEF Collected, First
  <2>5. f = f + 0 * (PageSize + 1) /\ f \in f..t /\ f <= f /\ 0 \in Nat
    BY <1>3, <2>1, ShelfAssumption
  <2>6. \A k \in KeysOf(always)' : InRange(k)' => f <= NumberOf(k)'
    <3> SUFFICES ASSUME NEW k \in KeysOf(always), ~Before(Bytes(kind, k), Bytes(kind, KeyOf(kind, f)))
                 PROVE  f <= NumberOf(k)
      BY <1>4 DEF InRange, NumberOf, KeysOf
    <3>1. NumberOf(k) \in 0..(Limit - 1) /\ k = KeyOf(kind, NumberOf(k))
      BY <1>2, ShelfKey, KeysOfMonotone DEF Types
    <3>2. ~(NumberOf(k) < f)
      BY <1>2, <1>3, <3>1, KeysInOrder
    <3> QED  BY <1>3, <3>1, <3>2
  <2>7. \A k \in KeysOf(always)' : NumberOf(k)' \in Nat
    <3>1. \A k \in KeysOf(always) : NumberOf(k) \in 0..(Limit - 1)
      BY <1>2, ShelfKey, KeysOfMonotone DEF Types
    <3> QED  BY <1>4, <3>1 DEF NumberOf, KeysOf
  <2>8. \A k \in KeysOf(always)' : ~(InRange(k)' /\ NumberOf(k)' < f)
    BY <1>3, <2>6, <2>7
  <2> QED  BY <1>4, <1>6, <2>2, <2>3, <2>4, <2>5, <2>8 DEF Paging
<1>11. Ended'
  BY <1>4 DEF Ended, EndedBy
<1> QED  BY <1>7, <1>8, <1>9, <1>10, <1>11 DEF RangeInv

-----------------------------------------------------------------------------
(* Range of Redis. *)

\* curr.Next() before the end of the range counts, or panics at a leading zero.
LEMMA AdvanceNumber ==
    ASSUME ShelfInv, RangeInv, Ranging, call.store = "redis", pc \in {"run", "visit"},
           curr # call.to
    PROVE  /\ NumberOf(curr) + 1 \in FromN..ToN
           /\ Advance => \/ pc' = "panic" /\ EndedBy("panic")
                         \/ pc' = "run" /\ curr' = KeyOf(kind, NumberOf(curr) + 1)
<1> DEFINE c == NumberOf(curr)
           f == FromN
           t == ToN
<1>1. /\ kind \in Kind /\ f \in 0..(Limit - 1) /\ t \in 0..(Limit - 1)
      /\ kind = "bytes" => f * Base >= Limit
      /\ call.to = KeyOf(kind, t) /\ c \in f..t /\ curr = KeyOf(kind, c)
  BY DEF ShelfInv, Types, RangeInv, Bounds, Paging
<1>2. f = NumberOf(call.from)
  BY DEF FromN
<1> HIDE DEF c, f, t
<1>3. c # t
  BY <1>1
<1>4. /\ f \in Nat /\ t \in Nat /\ c \in Nat /\ f <= c /\ c < t /\ c + 1 < Limit
      /\ c + 1 \in f..t /\ Limit \in Nat /\ Base \in Nat
  BY <1>1, <1>3, LimitType, BaseType
<1>5. \A x, y, b \in Nat : x <= y => x * b <= y * b /\ x * b \in Nat /\ y * b \in Nat
  OBVIOUS
<1>6. kind = "bytes" => c * Base >= Limit
  <2>1. f * Base <= c * Base /\ f * Base \in Nat /\ c * Base \in Nat
    BY <1>4, <1>5
  <2> QED  BY <1>1, <1>4, <2>1
<1>7. NextKey(kind, curr)
        = IF kind = "hash" /\ (c + 1) * Base < Limit THEN Nil ELSE KeyOf(kind, c + 1)
  BY <1>1, <1>4, <1>6, NextCounts
<1>8. KeyOf(kind, c + 1) # Nil
  BY <1>1, <1>4, NumberOfKey, KeyNotNil
<1>9. kind = "hash" /\ (c + 1) * Base < Limit => EndedBy("panic")
  <2>1. (f + 1) * Base <= (c + 1) * Base /\ (f + 1) * Base \in Nat /\ (c + 1) * Base \in Nat
    <3>1. f + 1 \in Nat /\ c + 1 \in Nat /\ f + 1 <= c + 1
      BY <1>4
    <3> QED  BY <1>4, <1>5, <3>1
  <2>2. (c + 1) * Base < Limit => (f + 1) * Base < Limit
    BY <1>4, <2>1
  <2> QED  BY <1>2, <2>2 DEF Ranging, EndedBy, LeadingZero
<1> QED  BY <1>4, <1>7, <1>8, <1>9 DEF Advance, c, f, t

\* Range goes on with curr at the number c, the page from the number f on.
LEMMA PagingNext ==
    ASSUME RangeInv, Ranging, call.store = "redis", pc' \in {"run", "visit"},
           UNCHANGED <<kind, call, always, ever, rest>>, Delivered',
           NEW c \in FromN..ToN, curr' = KeyOf(kind, c), NumberOf(curr') = c,
           NEW f, FromN <= f,
           f = (IF pc' = "visit" /\ curr' # call.to THEN c + 1 ELSE c) - Len(page'),
           \A i \in 1..Len(page') : page'[i] = RedisKey(KeyOf(kind, f + (i - 1))),
           \A i \in 1..Len(seen') : NumberOf(seen'[i]) < f,
           ~call.stopAtNil =>
              \A k \in KeysOf(always) : InRange(k) /\ NumberOf(k) < f => k \in ToSet(seen'),
           call.stopAtNil => IF seen' = <<>> THEN f = FromN ELSE NumberOf(Last(seen')) = f - 1,
           pc' = "visit" => \A i \in 1..Len(page') :
              /\ values'[i] => KeyOf(kind, f + (i - 1)) \in KeysOf(ever)
              /\ KeyOf(kind, f + (i - 1)) \in KeysOf(always) => values'[i],
           pc' = "run" => \E q \in Nat : f = FromN + q * (PageSize + 1),
           pc' = "visit" /\ curr' # call.to =>
              \E q \in Nat : c + 1 = FromN + q * (PageSize + 1)
    PROVE  RangeInv'
<1>1. Bounds'
  BY DEF RangeInv, Bounds, FromN, ToN, NumberOf
<1>2. AtCursor' /\ Ended'
  BY DEF AtCursor, Ended, EndedBy
<1>3. /\ FromN' = FromN /\ ToN' = ToN /\ NumberOf(curr)' = c
      /\ \A k : NumberOf(k)' = NumberOf(k) /\ InRange(k)' = InRange(k)
      /\ \A k : RedisKey(k)' = RedisKey(k)
      /\ KeysOf(always)' = KeysOf(always) /\ KeysOf(ever)' = KeysOf(ever)
  BY DEF FromN, ToN, NumberOf, InRange, RedisKey, KeysOf
<1>4. Collected' = IF pc' = "visit" /\ curr' # call.to THEN c + 1 ELSE c
  BY <1>3 DEF Collected
<1>5. First' = f
  BY <1>4 DEF First
<1>6. Paging'
  BY <1>3, <1>4, <1>5 DEF Paging
<1> QED  BY <1>1, <1>2, <1>6 DEF RangeInv

LEMMA SameDelivered ==
    ASSUME RangeInv, UNCHANGED <<kind, call, seen, ever>>  PROVE Delivered'
BY SameRanging DEF RangeInv, Delivered, InRange, KeysOf, NumberOf, FindsGaps

\* The numbers of the keys in the page.
LEMMA PageNumbers ==
    ASSUME ShelfInv, RangeInv, Ranging, call.store = "redis", pc \in {"run", "visit"}
    PROVE  /\ FromN \in Nat /\ ToN \in Nat /\ ToN < Limit /\ First \in Nat
           /\ FromN <= First /\ NumberOf(curr) \in FromN..ToN /\ NumberOf(curr) \in Nat
           /\ Collected \in FromN..ToN /\ Collected \in Nat
           /\ Len(page) \in Nat /\ First + Len(page) = Collected
           /\ \A i \in 1..Len(page) : /\ First + (i - 1) \in 0..(Limit - 1)
                                      /\ FromN <= First + (i - 1) /\ First + (i - 1) < ToN
<1>1. /\ FromN \in 0..(Limit - 1) /\ ToN \in 0..(Limit - 1) /\ NumberOf(curr) \in FromN..ToN
      /\ FromN <= First
  BY DEF RangeInv, Bounds, Paging
<1>2. curr # call.to => NumberOf(curr) + 1 \in FromN..ToN
  BY AdvanceNumber
<1>3. Len(page) \in Nat /\ First = Collected - Len(page)
  BY DEF ShelfInv, Pages, First
<1>4. Collected \in FromN..ToN
  BY <1>1, <1>2 DEF Collected
<1> DEFINE f == First
           t == ToN
           g == FromN
           C == Collected
           L == Len(page)
           c == NumberOf(curr)
<1> HIDE DEF f, t, g, C, L, c
<1>5. /\ g \in 0..(Limit - 1) /\ t \in 0..(Limit - 1) /\ c \in g..t /\ g <= f /\ L \in Nat
      /\ f = C - L /\ C \in g..t /\ Limit \in Nat
  BY <1>1, <1>3, <1>4, LimitType DEF f, t, g, C, L, c
<1>6. /\ g \in Nat /\ t \in Nat /\ t < Limit /\ f \in Nat /\ g <= f /\ c \in Nat /\ C \in Nat
      /\ f + L = C
  BY <1>5
<1>7. \A i \in 1..L : f + (i - 1) \in 0..(Limit - 1) /\ g <= f + (i - 1) /\ f + (i - 1) < t
  BY <1>5, <1>6
<1> QED  BY <1>5, <1>6, <1>7 DEF f, t, g, C, L, c

LEMMA RedisCancelledRange == ASSUME RangeInv, RedisCancelled  PROVE RangeInv'
BY ReturnRange, PlainOutcomes DEF RedisCancelled

LEMMA RedisCollectRange == ASSUME ShelfInv, RangeInv, Ranging, RedisCollect  PROVE RangeInv'
<1> DEFINE c == NumberOf(curr)
           f == First
           L == Len(page)
<1>1. /\ pc = "run" /\ call.store = "redis" /\ call.op = "range" /\ curr # call.to /\ Advance
      /\ pc \in {"run", "visit"}
      /\ page' = Append(page, RedisKey(curr))
      /\ UNCHANGED <<kind, call, seen, always, ever, rest>>
  BY DEF RedisCollect, Running, callVars, dbVars
<1>2. CASE pc' = "panic" /\ EndedBy("panic")
  BY <1>1, <1>2, EndRange, PlainOutcomes
<1>3. CASE pc' = "run" /\ curr' = KeyOf(kind, c + 1)
  <2>1. /\ c + 1 \in FromN..ToN /\ c + 1 \in 0..(Limit - 1)
    <3>1. c + 1 \in FromN..ToN /\ FromN \in Nat /\ ToN < Limit /\ ToN \in Nat
      BY <1>1, AdvanceNumber, PageNumbers
    <3> HIDE DEF c
    <3> QED  BY <3>1, LimitType
  <2>2. NumberOf(curr') = c + 1
    <3> HIDE DEF c
    <3> QED  BY <1>3, <2>1, NumberOfKey DEF ShelfInv, Types
  <2>3. f \in Nat /\ c \in Nat /\ L \in Nat /\ f + L = c /\ FromN <= f
    <3>1. Collected = c
      BY <1>1 DEF Collected
    <3> QED  BY <1>1, <3>1, PageNumbers
  <2>4. /\ curr = KeyOf(kind, c)
        /\ \A i \in 1..L : page[i] = RedisKey(KeyOf(kind, f + (i - 1)))
        /\ \A i \in 1..Len(seen) : NumberOf(seen[i]) < f
        /\ ~call.stopAtNil =>
              \A k \in KeysOf(always) : InRange(k) /\ NumberOf(k) < f => k \in ToSet(seen)
        /\ call.stopAtNil => IF seen = <<>> THEN f = FromN ELSE NumberOf(Last(seen)) = f - 1
        /\ \E q \in Nat : f = FromN + q * (PageSize + 1)
    BY <1>1 DEF RangeInv, Paging
  <2>5. /\ Len(page') = L + 1 /\ page'[L + 1] = RedisKey(curr)
        /\ \A i \in 1..L : page'[i] = page[i]
    <3>1. page \in Seq(Str) /\ RedisKey(curr) \in Str
      BY <1>1, StringRoundTrip DEF ShelfInv, Pages, Types, Calls, RedisKey
    <3> QED  BY <1>1, <3>1, AppendProperties
  <2> HIDE DEF c, f, L
  <2>6. f = (c + 1) - Len(page')
    BY <2>3, <2>5
  <2>7. ASSUME NEW i \in 1..Len(page')  PROVE page'[i] = RedisKey(KeyOf(kind, f + (i - 1)))
    <3>1. CASE i = L + 1
      <4>1. f + (i - 1) = c
        BY <2>3, <3>1
      <4> QED  BY <2>4, <2>5, <3>1, <4>1
    <3>2. CASE i # L + 1
      <4>1. i \in 1..L
        BY <2>3, <2>5, <3>2
      <4> QED  BY <2>4, <2>5, <4>1
    <3> QED  BY <3>1, <3>2
  <2>8. Delivered'
    BY <1>1, SameDelivered
  <2>9. seen' = seen /\ pc' # "visit" /\ pc' \in {"run", "visit"}
    BY <1>1, <1>3
  <2> QED
    BY <1>1, <1>3, <2>1, <2>2, <2>3, <2>4, <2>6, <2>7, <2>8, <2>9, PagingNext
<1> QED  BY <1>1, <1>2, <1>3, AdvanceNumber

\* MGET finds the keys that were there all along and none that never was.
LEMMA MGetValues ==
    ASSUME ShelfInv, NEW ds \in Seq(Str), NEW f \in Nat,
           \A i \in 1..Len(ds) : f + (i - 1) \in 0..(Limit - 1),
           \A i \in 1..Len(ds) : ds[i] = RedisKey(KeyOf(kind, f + (i - 1))),
           values' = [i \in DOMAIN ds |-> Exists(ds[i])]
    PROVE  \A i \in 1..Len(ds) :
              /\ values'[i] => KeyOf(kind, f + (i - 1)) \in KeysOf(ever)
              /\ KeyOf(kind, f + (i - 1)) \in KeysOf(always) => values'[i]
<1>1. /\ kind \in Kind /\ KeysOf(always) \subseteq KeysOf(db) /\ KeysOf(db) \subseteq KeysOf(ever)
      /\ db \in SUBSET Entry(kind)
  BY KeysOfMonotone DEF ShelfInv, Types
<1>2. \A k \in KeysOf(db) : k \in Key(kind)
  BY <1>1, KeysOfEntries
<1> SUFFICES ASSUME NEW i \in 1..Len(ds)
             PROVE  /\ values'[i] => KeyOf(kind, f + (i - 1)) \in KeysOf(ever)
                    /\ KeyOf(kind, f + (i - 1)) \in KeysOf(always) => values'[i]
  OBVIOUS
<1> DEFINE j == KeyOf(kind, f + (i - 1))
<1>3. j \in Key(kind) /\ ds[i] = RedisKey(j)
  BY <1>1, NumberOfKey
<1> HIDE DEF j
<1>4. values'[i] <=> \E k \in KeysOf(db) : RedisKey(k) = RedisKey(j)
  <2>1. values'[i] = Exists(ds[i])
    OBVIOUS
  <2> QED  BY <1>3, <2>1 DEF Exists
<1>5. \A k \in KeysOf(db) : RedisKey(k) = RedisKey(j) => k = j
  BY <1>1, <1>2, <1>3, StringInjective DEF RedisKey
<1>6. values'[i] <=> j \in KeysOf(db)
  BY <1>4, <1>5
<1> QED  BY <1>1, <1>6 DEF j

\* A page is asked for, and visited if MGET gives values.
LEMMA MGetRange ==
    ASSUME ShelfInv, RangeInv, pc = "run", Ranging, call.store = "redis",
           NEW ds \in Seq(Str), MGet(ds),
           UNCHANGED <<callVars, dbVars, ctx, cursorVars, curr, rest, seen>>,
           Len(ds) = (IF curr # call.to THEN NumberOf(curr) + 1 ELSE NumberOf(curr)) - First,
           \A i \in 1..Len(ds) : ds[i] = RedisKey(KeyOf(kind, First + (i - 1))),
           curr # call.to =>
              ds # <<>> /\ \E q \in Nat : NumberOf(curr) + 1 = FromN + q * (PageSize + 1)
    PROVE  RangeInv'
<1> DEFINE c == NumberOf(curr)
           f == First
           C == IF curr # call.to THEN c + 1 ELSE c
<1>1. /\ UNCHANGED <<kind, call, seen, always, ever, rest, curr>>
      /\ pc \in {"run", "visit"}
  BY DEF callVars, dbVars
<1>2. /\ c \in FromN..ToN /\ c \in Nat /\ f \in Nat /\ FromN \in Nat /\ ToN \in Nat /\ FromN <= f
      /\ ToN < Limit
  BY <1>1, PageNumbers
<1>3. C \in FromN..ToN
  BY <1>1, <1>2, AdvanceNumber
<1>4. /\ curr = KeyOf(kind, c)
      /\ \A i \in 1..Len(seen) : NumberOf(seen[i]) < f
      /\ ~call.stopAtNil =>
            \A k \in KeysOf(always) : InRange(k) /\ NumberOf(k) < f => k \in ToSet(seen)
      /\ call.stopAtNil => IF seen = <<>> THEN f = FromN ELSE NumberOf(Last(seen)) = f - 1
      /\ \E q \in Nat : f = FromN + q * (PageSize + 1)
  BY DEF RangeInv, Paging
<1>5. CASE ctx = "done"
  <2>1. pc' = "ctx"
    BY <1>5 DEF MGet
  <2> QED  BY <1>1, <2>1, EndRange, PlainOutcomes
<1>6. CASE ctx # "done" /\ ds = <<>>
  <2>1. pc' = "err" /\ curr = call.to
    BY <1>6 DEF MGet
  <2>2. c = ToN /\ Len(ds) = 0
    BY <1>6, <2>1 DEF ToN
  <2>3. c = f
    <3>1. 0 = c - f
      BY <2>1, <2>2
    <3> HIDE DEF c, f
    <3> QED  BY <1>2, <3>1
  <2>4. PICK q \in Nat : f = FromN + q * (PageSize + 1)
    BY <1>4
  <2>5. WholePages
    <3> DEFINE m == PageSize + 1
               g == FromN
    <3>1. m \in Nat \ {0} /\ g \in Nat /\ ToN = g + q * m
      BY <1>2, <2>2, <2>3, <2>4, ShelfAssumption
    <3> HIDE DEF m, g
    <3>2. \A x \in Nat, y \in Nat \ {0} : (x * y) % y = 0 /\ x * y \in Nat
      OBVIOUS
    <3>3. (q * m) % m = 0 /\ q * m \in Nat
      BY <3>1, <3>2
    <3>4. ToN - g = q * m
      BY <3>1, <3>3
    <3>5. (ToN - g) % m = 0
      BY <3>3, <3>4
    <3> QED  BY <3>5 DEF WholePages, ToN, FromN, m, g
  <2>6. EndedBy("err")
    BY <2>5 DEF Ranging, EndedBy
  <2> QED  BY <1>1, <2>1, <2>6, EndRange, PlainOutcomes
<1>7. CASE ~(ctx = "done" \/ ds = <<>>)
  <2>1. pc' = "visit" /\ page' = ds /\ values' = [i \in DOMAIN ds |-> Exists(ds[i])]
    BY <1>7 DEF MGet
  <2>2. Len(ds) = C - f /\ Len(ds) \in Nat
    OBVIOUS
  <2>3. \A i \in 1..Len(ds) : ds[i] = RedisKey(KeyOf(kind, f + (i - 1)))
    OBVIOUS
  <2>4. curr # call.to => \E q \in Nat : c + 1 = FromN + q * (PageSize + 1)
    OBVIOUS
  <2>5. NumberOf(curr') = c
    BY <1>1
  <2>6. C = IF curr # call.to THEN c + 1 ELSE c
    OBVIOUS
  <2> HIDE DEF c, f, C
  <2>7. \A i \in 1..Len(ds) : f + (i - 1) \in 0..(Limit - 1)
    BY <1>2, <1>3, <2>2, LimitType
  <2>8. \A i \in 1..Len(ds) :
              /\ values'[i] => KeyOf(kind, f + (i - 1)) \in KeysOf(ever)
              /\ KeyOf(kind, f + (i - 1)) \in KeysOf(always) => values'[i]
    BY <1>2, <2>1, <2>3, <2>7, MGetValues
  <2>9. Delivered'
    BY <1>1, SameDelivered
  <2>10. f = (IF pc' = "visit" /\ curr' # call.to THEN c + 1 ELSE c) - Len(page')
    <3>1. f = C - Len(ds)
      BY <1>2, <1>3, <2>2
    <3> QED  BY <1>1, <2>1, <2>6, <3>1
  <2>11. seen' = seen /\ curr' = curr /\ pc' \in {"run", "visit"} /\ pc' # "run"
    BY <1>1, <2>1
  <2> QED
    BY <1>1, <1>2, <1>4, <2>1, <2>3, <2>4, <2>5, <2>8, <2>9, <2>10, <2>11, PagingNext
<1> QED  BY <1>5, <1>6, <1>7

LEMMA RedisPageRange ==
    ASSUME ShelfInv, RangeInv, Ranging, RedisFullPage \/ RedisLastPage  PROVE RangeInv'
<1> DEFINE c == NumberOf(curr)
           f == First
           L == Len(page)
<1>1. /\ pc = "run" /\ call.store = "redis" /\ call.op = "range" /\ pc \in {"run", "visit"}
      /\ UNCHANGED <<callVars, dbVars, ctx, cursorVars, curr, rest, seen>>
  BY DEF RedisFullPage, RedisLastPage, Running
<1>2. /\ curr = KeyOf(kind, c)
      /\ \A i \in 1..L : page[i] = RedisKey(KeyOf(kind, f + (i - 1)))
      /\ \E q \in Nat : f = FromN + q * (PageSize + 1)
  BY <1>1 DEF RangeInv, Paging
<1>3. f \in Nat /\ c \in Nat /\ L \in Nat /\ f + L = c /\ FromN \in Nat
  <2>1. Collected = c
    BY <1>1 DEF Collected
  <2> QED  BY <1>1, <2>1, PageNumbers
<1>4. page \in Seq(Str) /\ RedisKey(curr) \in Str
  BY <1>1, StringRoundTrip DEF ShelfInv, Pages, Types, Calls, RedisKey
<1>5. CASE RedisLastPage
  <2>1. curr = call.to /\ MGet(page)
    BY <1>5 DEF RedisLastPage
  <2>2. L = c - f
    <3> HIDE DEF c, f, L
    <3> QED  BY <1>3
  <2> QED  BY <1>1, <1>2, <1>4, <2>1, <2>2, MGetRange
<1>6. CASE RedisFullPage
  <2> DEFINE ds == Append(page, RedisKey(curr))
  <2>1. curr # call.to /\ MGet(ds) /\ L = PageSize
    BY <1>6 DEF RedisFullPage
  <2>2. /\ ds \in Seq(Str) /\ Len(ds) = L + 1 /\ ds[L + 1] = RedisKey(curr)
        /\ \A i \in 1..L : ds[i] = page[i]
    BY <1>4, AppendProperties
  <2> HIDE DEF c, f, L, ds
  <2>3. ASSUME NEW i \in 1..Len(ds)  PROVE ds[i] = RedisKey(KeyOf(kind, f + (i - 1)))
    <3>1. CASE i = L + 1
      <4>1. f + (i - 1) = c
        BY <1>3, <3>1
      <4> QED  BY <1>2, <2>2, <3>1, <4>1
    <3>2. CASE i # L + 1
      <4>1. i \in 1..L
        BY <1>3, <2>2, <3>2
      <4> QED  BY <1>2, <2>2, <4>1
    <3> QED  BY <3>1, <3>2
  <2>4. Len(ds) = (c + 1) - f /\ Len(ds) # 0
    BY <1>3, <2>2
  <2>5. \E q \in Nat : c + 1 = FromN + q * (PageSize + 1)
    <3>1. PICK q \in Nat : f = FromN + q * (PageSize + 1)
      BY <1>2
    <3> DEFINE m == PageSize + 1
    <3>2. m \in Nat /\ L + 1 = m /\ f = FromN + q * m
      BY <2>1, <3>1, ShelfAssumption
    <3> HIDE DEF m
    <3>3. \A x, y \in Nat : (x + 1) * y = x * y + y /\ x * y \in Nat
      OBVIOUS
    <3>4. (q + 1) * m = q * m + m /\ q * m \in Nat /\ q + 1 \in Nat
      BY <3>2, <3>3
    <3>5. c + 1 = FromN + (q + 1) * m
      BY <1>3, <3>2, <3>4
    <3> QED  BY <3>4, <3>5 DEF m
  <2>6. ds # <<>>
    BY <2>4
  <2> QED  BY <1>1, <2>1, <2>2, <2>3, <2>4, <2>5, <2>6, MGetRange DEF c, f
<1> QED  BY <1>5, <1>6

\* visitKeys is at the key of the number First.
LEMMA VisitedKey ==
    ASSUME ShelfInv, RangeInv, Ranging, pc = "visit", page # <<>>
    PROVE  LET k == KeyOf(kind, First)
           IN  /\ k \in Key(kind) /\ NumberOf(k) = First /\ InRange(k)
               /\ Head(page) = RedisKey(k) /\ (Head(values) => k \in KeysOf(ever))
               /\ \A j \in KeysOf(always) : NumberOf(j) = First => j = k /\ Head(values)
               /\ \A j \in KeysOf(always) : NumberOf(j) \in Nat
<1> DEFINE f == First
           k == KeyOf(kind, f)
<1>1. call.store = "redis" /\ pc \in {"run", "visit"} /\ kind \in Kind /\ Types /\ Bounds
  BY DEF ShelfInv, Calls, Types, RangeInv
<1>2. /\ Len(page) \in Nat \ {0} /\ Len(values) = Len(page)
      /\ Head(page) = page[1] /\ Head(values) = values[1]
  <2>1. page \in Seq(Str) /\ values \in Seq(BOOLEAN) /\ Len(values) = Len(page)
    BY DEF ShelfInv, Pages
  <2>2. values # <<>>
    BY <2>1, ToSetTail
  <2> QED  BY <2>1, <2>2, ToSetTail
<1>3. 1 \in 1..Len(page) /\ f + (1 - 1) = f /\ f \in Nat
  BY <1>1, <1>2, PageNumbers
<1>4. f \in 0..(Limit - 1) /\ FromN <= f /\ f < ToN
  BY <1>1, <1>3, PageNumbers
<1>5. /\ page[1] = RedisKey(k)
      /\ values[1] => k \in KeysOf(ever)
      /\ k \in KeysOf(always) => values[1]
  BY <1>1, <1>3 DEF RangeInv, Paging
<1> HIDE DEF f
<1>6. k \in Key(kind) /\ NumberOf(k) = f /\ InRange(k)
  BY <1>1, <1>4, NumberOfKey, RangeByNumber
<1>7. \A j \in KeysOf(always) : NumberOf(j) \in 0..(Limit - 1) /\ j = KeyOf(kind, NumberOf(j))
  BY <1>1, KeysOfMonotone, ShelfKey DEF Types
<1>8. \A j \in KeysOf(always) : NumberOf(j) = f => j = k /\ Head(values)
  BY <1>2, <1>5, <1>7
<1>9. \A j \in KeysOf(always) : NumberOf(j) \in Nat
  BY <1>7
<1> QED  BY <1>2, <1>5, <1>6, <1>8, <1>9 DEF f

\* visitKeys goes on to the next key of the page.
LEMMA VisitOn ==
    ASSUME ShelfInv, RangeInv, Ranging, pc = "visit", page # <<>>, NextValue,
           pc' = "visit", UNCHANGED <<kind, call, always, ever, rest, curr>>, Delivered',
           \A i \in 1..Len(seen') : NumberOf(seen'[i]) < First + 1,
           ~call.stopAtNil =>
              \A k \in KeysOf(always) : InRange(k) /\ NumberOf(k) < First + 1 => k \in ToSet(seen'),
           call.stopAtNil => seen' # <<>> /\ NumberOf(Last(seen')) = First
    PROVE  RangeInv'
<1> DEFINE c == NumberOf(curr)
           f == First
           L == Len(page)
<1>1. call.store = "redis" /\ pc \in {"run", "visit"}
  BY DEF ShelfInv, Calls
<1>2. /\ page' = Tail(page) /\ L \in Nat \ {0} /\ Len(page') = L - 1
      /\ \A i \in 1..(L - 1) : page'[i] = page[i + 1] /\ values'[i] = values[i + 1]
  <2>1. page \in Seq(Str) /\ values \in Seq(BOOLEAN) /\ Len(values) = L
    BY DEF ShelfInv, Pages
  <2>2. values # <<>>
    BY <2>1, ToSetTail
  <2> QED  BY <2>1, <2>2, ToSetTail DEF NextValue
<1>3. /\ c \in FromN..ToN /\ c \in Nat /\ f \in Nat /\ FromN \in Nat /\ FromN <= f
      /\ f + L = (IF curr # call.to THEN c + 1 ELSE c)
  BY <1>1, PageNumbers DEF Collected
<1>4. /\ curr = KeyOf(kind, c)
      /\ \A i \in 1..L : page[i] = RedisKey(KeyOf(kind, f + (i - 1)))
      /\ \A i \in 1..L : /\ values[i] => KeyOf(kind, f + (i - 1)) \in KeysOf(ever)
                         /\ KeyOf(kind, f + (i - 1)) \in KeysOf(always) => values[i]
      /\ curr # call.to => \E q \in Nat : c + 1 = FromN + q * (PageSize + 1)
  BY <1>1 DEF RangeInv, Paging, Collected
<1>5. /\ \A i \in 1..Len(seen') : NumberOf(seen'[i]) < f + 1
      /\ ~call.stopAtNil =>
            \A k \in KeysOf(always) : InRange(k) /\ NumberOf(k) < f + 1 => k \in ToSet(seen')
      /\ call.stopAtNil => seen' # <<>> /\ NumberOf(Last(seen')) = f
  OBVIOUS
<1>6. NumberOf(curr') = c
  OBVIOUS
<1> HIDE DEF c, f, L
<1>7. f + 1 = (IF curr # call.to THEN c + 1 ELSE c) - Len(page')
  BY <1>2, <1>3
<1>8. \A i \in 1..Len(page') : /\ i + 1 \in 1..L /\ i \in 1..(L - 1)
                               /\ f + ((i + 1) - 1) = (f + 1) + (i - 1)
  BY <1>2, <1>3
<1>9. \A i \in 1..Len(page') : page'[i] = RedisKey(KeyOf(kind, (f + 1) + (i - 1)))
  BY <1>2, <1>4, <1>8
<1>10. \A i \in 1..Len(page') :
          /\ values'[i] => KeyOf(kind, (f + 1) + (i - 1)) \in KeysOf(ever)
          /\ KeyOf(kind, (f + 1) + (i - 1)) \in KeysOf(always) => values'[i]
  BY <1>2, <1>4, <1>8
<1>11. FromN <= f + 1 /\ (f + 1) - 1 = f
  BY <1>3
<1>12. pc' \in {"run", "visit"} /\ pc' # "run" /\ curr' = curr
  OBVIOUS
<1> QED
  BY <1>1, <1>3, <1>4, <1>5, <1>6, <1>7, <1>9, <1>10, <1>11, <1>12, PagingNext

LEMMA VisitKeyRange ==
    ASSUME ShelfInv, RangeInv, Ranging, VisitKey  PROVE RangeInv'
<1> DEFINE f == First
           k == KeyOf(kind, f)
<1>1. /\ pc = "visit" /\ page # <<>> /\ call.store = "redis" /\ pc \in {"run", "visit"}
      /\ kind \in Kind
  BY DEF VisitKey, ShelfInv, Calls, Types
<1>2. /\ k \in Key(kind) /\ NumberOf(k) = f /\ InRange(k)
      /\ Head(page) = RedisKey(k) /\ (Head(values) => k \in KeysOf(ever))
      /\ \A j \in KeysOf(always) : NumberOf(j) = f => j = k /\ Head(values)
      /\ \A j \in KeysOf(always) : NumberOf(j) \in Nat
  BY <1>1, VisitedKey
<1>3. f \in Nat
  BY <1>1, PageNumbers
<1>4. /\ \A i \in 1..Len(seen) : NumberOf(seen[i]) < f
      /\ ~call.stopAtNil =>
            \A j \in KeysOf(always) : InRange(j) /\ NumberOf(j) < f => j \in ToSet(seen)
      /\ call.stopAtNil => IF seen = <<>> THEN f = FromN ELSE NumberOf(Last(seen)) = f - 1
  BY <1>1 DEF RangeInv, Paging
<1>5. FromRedisKey(Head(page)) = IF SignBit(k) THEN Nil ELSE k
  BY <1>1, <1>2, StringRoundTrip DEF FromRedisKey, RedisKey, SignBit
<1>6. call.from = KeyOf(kind, FromN)
  BY DEF RangeInv, Bounds
<1>7. seen \in Seq({j \in KeysOf(ever) : InRange(j)}) /\ Delivered /\ Bounds
  BY DEF RangeInv, Delivered
<1>8. \A i \in 1..Len(seen) : NumberOf(seen[i]) \in Nat
  <2> DEFINE K == {j \in KeysOf(ever) : InRange(j)}
  <2>1. \A j \in K : NumberOf(j) \in 0..(Limit - 1)
    BY ShelfKey DEF ShelfInv
  <2>2. \A i \in 1..Len(seen) : seen[i] \in K
    <3> HIDE DEF K
    <3> QED  BY <1>7, ElementOfSeq DEF K
  <2> QED  BY <2>1, <2>2
<1>9. seen # <<>> => Len(seen) \in 1..Len(seen) /\ Last(seen) = seen[Len(seen)]
  BY <1>7 DEF Last
<1>10. CASE ~Head(values) /\ call.stopAtNil /\ Return("nil")
  <2>1. GapFound
    <3>1. CASE seen = <<>>
      <4>1. k = call.from /\ NumberOf(call.from) = f
        BY <1>2, <1>4, <1>6, <1>10, <3>1
      <4> QED  BY <1>1, <1>2, <1>10, <3>1, <4>1 DEF GapFound
    <3>2. CASE seen # <<>>
      <4>1. NumberOf(Last(seen)) = f - 1
        BY <1>4, <1>10, <3>2
      <4>2. NumberOf(Last(seen)) + 1 = f
        <5> HIDE DEF f
        <5> QED  BY <1>3, <4>1
      <4> QED  BY <1>2, <1>10, <3>2, <4>2 DEF GapFound
    <3> QED  BY <3>1, <3>2
  <2>2. EndedBy("nil")
    BY <1>10, <2>1 DEF EndedBy
  <2> QED  BY <1>10, <2>2, ReturnRange, PlainOutcomes
<1>11. CASE /\ ~Head(values) /\ ~call.stopAtNil /\ NextValue
            /\ UNCHANGED <<callVars, dbVars, ctx, cursorVars, pc, curr, rest, seen>>
  <2>1. UNCHANGED <<kind, call, always, ever, rest, curr, seen>> /\ pc' = "visit"
    BY <1>1, <1>11 DEF callVars, dbVars
  <2>2. Delivered'
    BY <2>1, SameDelivered
  <2> HIDE DEF f, k
  <2>3. \A i \in 1..Len(seen') : NumberOf(seen'[i]) < f + 1
    BY <1>3, <1>4, <1>8, <2>1
  <2>4. \A j \in KeysOf(always) : InRange(j) /\ NumberOf(j) < f + 1 => j \in ToSet(seen')
    <3> SUFFICES ASSUME NEW j \in KeysOf(always), InRange(j), NumberOf(j) < f + 1
                 PROVE  j \in ToSet(seen)
      BY <2>1
    <3>1. NumberOf(j) \in Nat /\ NumberOf(j) # f
      BY <1>2, <1>11
    <3>2. NumberOf(j) < f
      BY <1>3, <3>1
    <3> QED  BY <1>4, <1>11, <3>2
  <2> QED  BY <1>1, <1>11, <2>1, <2>2, <2>3, <2>4, VisitOn DEF f
<1>12. CASE /\ Head(values) /\ FromRedisKey(Head(page)) = Nil /\ Return("err")
  <2>1. SignBit(k) /\ k \in KeysOf(ever)
    BY <1>1, <1>2, <1>5, <1>12, KeyNotNil
  <2>2. EndedBy("err")
    BY <1>1, <1>2, <2>1 DEF EndedBy, Visited
  <2> QED  BY <1>12, <2>2, ReturnRange, PlainOutcomes
<1>13. CASE /\ Head(values) /\ FromRedisKey(Head(page)) # Nil
            /\ seen' = Append(seen, FromRedisKey(Head(page)))
            /\ pc' \in {"visit", "cb"}
            /\ NextValue
            /\ UNCHANGED <<callVars, dbVars, ctx, cursorVars, curr, rest>>
  <2>1. UNCHANGED <<kind, call, always, ever, rest, curr>> /\ seen' = Append(seen, k)
    BY <1>5, <1>13 DEF callVars, dbVars
  <2>2. k \in KeysOf(ever)
    BY <1>2, <1>13
  <2>3. seen # <<>> => NumberOf(Last(seen)) < NumberOf(k)
    BY <1>2, <1>4, <1>9
  <2>4. call.stopAtNil => IF seen = <<>> THEN k = call.from
                          ELSE NumberOf(k) = NumberOf(Last(seen)) + 1
    <3>1. CASE call.stopAtNil /\ seen = <<>>
      BY <1>4, <1>6, <3>1
    <3>2. CASE call.stopAtNil /\ seen # <<>>
      <4>1. NumberOf(Last(seen)) = f - 1 /\ NumberOf(k) = f
        BY <1>2, <1>4, <3>2
      <4>2. NumberOf(k) = NumberOf(Last(seen)) + 1
        <5> HIDE DEF f, k
        <5> QED  BY <1>3, <4>1
      <4> QED  BY <3>2, <4>2
    <3> QED  BY <3>1, <3>2
  <2> HIDE DEF k
  <2>5. Delivered'
    BY <1>2, <1>7, <2>1, <2>2, <2>3, <2>4, DeliverNext
  <2>6. CASE pc' = "cb"
    <3>1. Bounds'
      BY <1>7, <2>1, <2>6 DEF Bounds, FromN, ToN, NumberOf
    <3>2. AtCursor' /\ Paging' /\ Ended'
      BY <2>6 DEF AtCursor, Paging, Ended, EndedBy
    <3> QED  BY <2>5, <3>1, <3>2 DEF RangeInv
  <2>7. CASE pc' = "visit"
    <3> DEFINE K == {j \in KeysOf(ever) : InRange(j)}
               s == Append(seen, k)
    <3>1. seen \in Seq(K) /\ k \in K
      BY <1>2, <1>7, <2>2
    <3> HIDE DEF K
    <3>2. /\ Len(s) = Len(seen) + 1 /\ s[Len(seen) + 1] = k /\ Len(seen) \in Nat
          /\ \A i \in 1..Len(seen) : s[i] = seen[i]
          /\ s # <<>> /\ s \in Seq(K) /\ ToSet(s) = ToSet(seen) \cup {k}
      BY <3>1, AppendProperties, ToSetAppend
    <3>3. seen' = s
      BY <2>1
    <3> HIDE DEF s, f
    <3>4. Last(s) = k
      BY <3>2 DEF Last
    <3>5. ASSUME NEW i \in 1..Len(s)  PROVE NumberOf(s[i]) < f + 1
      <4>1. CASE i = Len(seen) + 1
        <5>1. s[i] = k /\ NumberOf(k) = f
          BY <1>2, <3>2, <4>1
        <5>2. f < f + 1
          BY <1>3
        <5> QED  BY <5>1, <5>2
      <4>2. CASE i # Len(seen) + 1
        <5>1. i \in 1..Len(seen)
          BY <3>2, <4>2
        <5> QED  BY <1>3, <1>4, <1>8, <3>2, <5>1
      <4> QED  BY <4>1, <4>2
    <3>6. ASSUME ~call.stopAtNil, NEW j \in KeysOf(always), InRange(j), NumberOf(j) < f + 1
          PROVE  j \in ToSet(s)
      <4>1. CASE NumberOf(j) = f
        BY <1>2, <3>2, <4>1
      <4>2. CASE NumberOf(j) # f
        <5>1. NumberOf(j) \in Nat
          BY <1>2
        <5>2. NumberOf(j) < f
          BY <1>3, <3>6, <4>2, <5>1
        <5> QED  BY <1>4, <3>2, <3>6, <5>2
      <4> QED  BY <4>1, <4>2
    <3>7. seen' # <<>> /\ NumberOf(Last(seen')) = f
      BY <1>2, <3>2, <3>3, <3>4
    <3>8. \A i \in 1..Len(seen') : NumberOf(seen'[i]) < f + 1
      BY <3>3, <3>5
    <3>9. ~call.stopAtNil =>
             \A j \in KeysOf(always) : InRange(j) /\ NumberOf(j) < f + 1 => j \in ToSet(seen')
      BY <3>3, <3>6
    <3> QED  BY <1>1, <1>13, <2>1, <2>5, <2>7, <3>7, <3>8, <3>9, VisitOn DEF f
  <2> QED  BY <1>13, <2>6, <2>7
<1> QED  BY <1>10, <1>11, <1>12, <1>13 DEF VisitKey

LEMMA VisitDoneRange ==
    ASSUME ShelfInv, RangeInv, Ranging, VisitDone  PROVE RangeInv'
<1> DEFINE c == NumberOf(curr)
           f == First
<1>1. /\ pc = "visit" /\ page = <<>> /\ call.store = "redis" /\ pc \in {"run", "visit"}
      /\ kind \in Kind /\ UNCHANGED <<kind, call, always, ever, rest, seen, page>>
  BY DEF VisitDone, ShelfInv, Calls, Types, callVars, dbVars
<1>2. /\ Len(page) = 0 /\ f \in Nat /\ c \in Nat /\ c \in FromN..ToN /\ FromN \in Nat /\ ToN \in Nat
      /\ FromN <= f /\ f = (IF curr # call.to THEN c + 1 ELSE c) /\ ToN < Limit
  <2>1. Len(page) = 0
    BY <1>1
  <2>2. First \in Nat /\ First + Len(page) = Collected
    BY <1>1, PageNumbers
  <2>3. f = Collected
    <3> DEFINE C == Collected
    <3>1. f + 0 = C
      BY <2>1, <2>2
    <3> HIDE DEF f, C
    <3> QED  BY <2>2, <3>1 DEF f, C
  <2> QED  BY <1>1, <2>1, <2>3, PageNumbers DEF Collected
<1>3. /\ curr = KeyOf(kind, c)
      /\ \A i \in 1..Len(seen) : NumberOf(seen[i]) < f
      /\ ~call.stopAtNil =>
            \A k \in KeysOf(always) : InRange(k) /\ NumberOf(k) < f => k \in ToSet(seen)
      /\ call.stopAtNil => IF seen = <<>> THEN f = FromN ELSE NumberOf(Last(seen)) = f - 1
      /\ curr # call.to => \E q \in Nat : c + 1 = FromN + q * (PageSize + 1)
  BY <1>1 DEF RangeInv, Paging, Collected
<1>4. CASE curr # call.to
  <2>1. Advance /\ c + 1 \in FromN..ToN /\ f = c + 1
    BY <1>1, <1>2, <1>4, AdvanceNumber DEF Ranging, VisitDone
  <2>2. CASE pc' = "panic" /\ EndedBy("panic")
    BY <1>1, <2>2, EndRange, PlainOutcomes
  <2>3. CASE pc' = "run" /\ curr' = KeyOf(kind, c + 1)
    <3> HIDE DEF c, f
    <3>1. c + 1 \in 0..(Limit - 1)
      BY <1>2, <2>1, LimitType
    <3>2. NumberOf(curr') = c + 1
      BY <1>1, <2>3, <3>1, NumberOfKey
    <3>3. Delivered'
      BY <1>1, SameDelivered
    <3>4. pc' \in {"run", "visit"} /\ pc' # "visit" /\ Len(page') = 0 /\ seen' = seen
      BY <1>1, <1>2, <2>3
    <3>5. f = (c + 1) - Len(page')
      BY <1>2, <2>1, <3>4
    <3>6. \A i \in 1..Len(page') : FALSE
      BY <3>4
    <3>7. \E q \in Nat : f = FromN + q * (PageSize + 1)
      BY <1>3, <1>4, <2>1
    <3> QED
      BY <1>1, <1>2, <1>3, <2>1, <2>3, <3>2, <3>3, <3>4, <3>5, <3>6, <3>7, PagingNext
  <2> QED  BY <1>1, <1>4, <2>1, <2>2, <2>3, AdvanceNumber
<1>5. CASE curr = call.to
  <2>1. rest = {} /\ Bounds /\ Types
    BY DEF RangeInv, Bounds, ShelfInv
  <2>2. pc' = "nil"
    BY <1>5, <2>1 DEF VisitDone
  <2>3. f = ToN
    BY <1>2, <1>5 DEF ToN
  <2>4. \A k \in KeysOf(always) :
           InRange(k) => FromN <= NumberOf(k) /\ NumberOf(k) < f /\ NumberOf(k) \in Nat
    <3>1. ASSUME NEW k \in KeysOf(always)
          PROVE  /\ NumberOf(k) \in 0..(Limit - 1)
                 /\ InRange(k) => FromN <= NumberOf(k) /\ NumberOf(k) < ToN
      <4>1. k \in KeysOf(ever)
        BY <2>1, KeysOfMonotone DEF Types
      <4> QED  BY <2>1, <4>1, ShelfKey, InRangeNumber
    <3> QED  BY <2>3, <3>1
  <2> HIDE DEF f, c
  <2>5. CASE ~call.stopAtNil
    BY <1>1, <1>3, <2>2, <2>4, <2>5, NilComplete, EndRange, PlainOutcomes
  <2>6. CASE call.stopAtNil
    <3>1. GapFound
      <4>1. CASE seen = <<>>
        <5>1. \A k \in KeysOf(always) : ~InRange(k)
          BY <1>2, <1>3, <2>4, <2>6, <4>1
        <5> QED  BY <4>1, <5>1 DEF GapFound
      <4>2. CASE seen # <<>>
        <5>1. NumberOf(Last(seen)) + 1 = f
          BY <1>2, <1>3, <2>6, <4>2
        <5> QED  BY <1>2, <2>4, <4>2, <5>1 DEF GapFound
      <4> QED  BY <4>1, <4>2
    <3>2. EndedBy("nil")
      BY <2>6, <3>1 DEF EndedBy
    <3> QED  BY <1>1, <2>2, <3>2, EndRange, PlainOutcomes
  <2> QED  BY <2>5, <2>6
<1> QED  BY <1>4, <1>5

\* Iterate and Empty of Redis fail at keys that FromString does not give back.
LEMMA RedisOtherStep ==
    ASSUME ShelfInv, call.op # "range",
           RedisScan \/ RedisScanned \/ VisitKey \/ VisitDone \/ RedisEmpty
    PROVE  RangeInv'
<1>1. CASE RedisScan
  <2>1. call' = call /\ kind' = kind /\ ever' = ever /\ pc' \in {"ctx", "nil", "run"}
    BY <1>1 DEF RedisScan, Return, callVars, dbVars
  <2> QED  BY <2>1, OtherCall
<1>2. CASE RedisScanned
  <2>1. call' = call /\ kind' = kind /\ ever' = ever /\ pc' \in {"ctx", "visit"}
    BY <1>2 DEF RedisScanned, MGet, callVars, dbVars
  <2> QED  BY <2>1, OtherCall
<1>3. CASE VisitKey
  <2>1. /\ pc = "visit" /\ page # <<>> /\ call.store = "redis" /\ call.op = "iterate"
        /\ kind \in Kind /\ ever \in SUBSET Entry(kind)
        /\ page \in Seq({RedisKey(k) : k \in KeysOf(ever)})
    BY <1>3 DEF VisitKey, ShelfInv, Calls, Scanning, Types
  <2>2. call' = call /\ kind' = kind /\ ever' = ever /\ pc' \in {"nil", "visit", "err", "cb"}
    BY <1>3, <2>1 DEF VisitKey, Return, callVars, dbVars
  <2>3. ASSUME pc' = "err"  PROVE \E k \in KeysOf(ever) : SignBit(k)
    <3>1. FromRedisKey(Head(page)) = Nil
      BY <1>3, <2>1, <2>3 DEF VisitKey, Return
    <3>2. Head(page) \in {RedisKey(k) : k \in KeysOf(ever)}
      BY <2>1, ToSetTail
    <3>3. PICK k \in KeysOf(ever) : Head(page) = RedisKey(k)
      BY <3>2
    <3>4. k \in Key(kind) /\ k # Nil
      BY <2>1, KeysOfEntries, KeyNotNil
    <3> QED  BY <2>1, <3>1, <3>3, <3>4, StringRoundTrip DEF FromRedisKey, RedisKey, SignBit
  <2> QED  BY <2>1, <2>2, <2>3, OtherCall
<1>4. CASE VisitDone
  <2>1. call' = call /\ kind' = kind /\ ever' = ever /\ pc' \in {"nil", "run"}
    BY <1>4 DEF VisitDone, callVars, dbVars
  <2> QED  BY <2>1, OtherCall
<1>5. CASE RedisEmpty
  <2>1. call' = call /\ kind' = kind /\ ever' = ever /\ pc' \in {"ctx", "true", "false"}
    BY <1>5 DEF RedisEmpty, Return, callVars, dbVars
  <2> QED  BY <2>1, OtherCall
<1> QED  BY <1>1, <1>2, <1>3, <1>4, <1>5

-----------------------------------------------------------------------------
(* What happens around a Range. *)

LEMMA SameRange ==
    ASSUME RangeInv,
           UNCHANGED <<kind, db, call, pc, todo, prevKey, curr, page, values, rest, seen, always, ever>>
    PROVE  RangeInv'
<1>1. Bounds' /\ Delivered'
  <2>1. Bounds'
    BY SameRanging DEF RangeInv, Bounds, NumberOf, FromN, ToN
  <2>2. Delivered'
    BY SameRanging DEF RangeInv, Delivered, InRange, KeysOf, NumberOf, FindsGaps
  <2> QED  BY <2>1, <2>2
<1>2. AtCursor'
  BY SameRanging DEF RangeInv, AtCursor, InRange, KeysOf, NumberOf, FindsGaps, FromN, Stored, Located
<1>3. Paging'
  BY SameRanging DEF RangeInv, Paging, InRange, KeysOf, NumberOf, FromN, ToN, First, Collected, RedisKey
<1>4. Ended'
  BY SameRanging DEF RangeInv, Ended, EndedBy, InRange, KeysOf, NumberOf, FindsGaps, GapFound, WholePages,
         Visited, SignBit, LeadingZero
<1> QED  BY <1>1, <1>2, <1>3, <1>4 DEF RangeInv

\* A write of another client takes keys from those always there and adds to
\* those ever there.
LEMMA WriteRange == ASSUME ShelfInv, RangeInv, NEW newDb, Write(newDb)  PROVE RangeInv'
<1>1. /\ pc \in {"run", "visit"} /\ call.store = "redis"
      /\ always' = always \cap newDb /\ ever' = ever \cup newDb /\ rest' = rest \cap newDb
      /\ kind' = kind /\ call' = call /\ pc' = pc /\ curr' = curr
      /\ page' = page /\ values' = values /\ seen' = seen
  BY DEF Write, callVars
<1>2. KeysOf(always') \subseteq KeysOf(always) /\ KeysOf(ever) \subseteq KeysOf(ever')
  BY <1>1, KeysOfMonotone
<1>3. Bounds'
  BY <1>1, SameRanging DEF RangeInv, Bounds, FromN, ToN, NumberOf
<1>4. \A k : InRange(k)' = InRange(k) /\ NumberOf(k)' = NumberOf(k) /\ RedisKey(k)' = RedisKey(k)
  BY <1>1 DEF InRange, NumberOf, RedisKey
<1>5. Delivered'
  <2> SUFFICES ASSUME Ranging  PROVE Delivered'
    BY <1>1, SameRanging DEF Delivered
  <2> DEFINE A == {k \in KeysOf(ever) : InRange(k)}
             B == {k \in KeysOf(ever') : InRange(k)}
  <2>1. seen \in Seq(A) /\ A \subseteq B
    BY <1>2 DEF RangeInv, Delivered
  <2>2. seen \in Seq(B)
    <3> HIDE DEF A, B
    <3> QED  BY <2>1, SeqMonotonic
  <2>3. seen' \in Seq({k \in KeysOf(ever) : InRange(k)})'
    BY <1>1, <2>2 DEF InRange, KeysOf
  <2>4. FindsGaps' = FindsGaps
    BY <1>1 DEF FindsGaps
  <2> HIDE DEF A, B
  <2>5. /\ \A i \in 1..(Len(seen) - 1) : NumberOf(seen[i]) < NumberOf(seen[i + 1])
        /\ \A i \in 1..Len(seen) : NumberOf(seen[i]) <= NumberOf(Last(seen))
        /\ call.stopAtNil /\ FindsGaps =>
              /\ \A i \in 1..(Len(seen) - 1) : NumberOf(seen[i + 1]) = NumberOf(seen[i]) + 1
              /\ call.store = "redis" /\ seen # <<>> => seen[1] = call.from
    BY DEF RangeInv, Delivered
  <2> QED  BY <1>1, <2>3, <2>4, <2>5 DEF Delivered, NumberOf
<1>6. AtCursor' /\ Ended'
  BY <1>1 DEF AtCursor, Ended, EndedBy
<1>7. Paging'
  <2> SUFFICES ASSUME Ranging  PROVE Paging'
    BY <1>1, SameRanging DEF Paging
  <2>1. /\ FromN' = FromN /\ ToN' = ToN /\ First' = First /\ Collected' = Collected
        /\ NumberOf(curr)' = NumberOf(curr)
    BY <1>1 DEF FromN, ToN, First, Collected, NumberOf
  <2> DEFINE f == First
  <2>2. /\ NumberOf(curr) \in FromN..ToN /\ curr = KeyOf(kind, NumberOf(curr))
        /\ FromN <= f
        /\ \A i \in 1..Len(page) : page[i] = RedisKey(KeyOf(kind, f + (i - 1)))
        /\ \A i \in 1..Len(seen) : NumberOf(seen[i]) < f
        /\ ~call.stopAtNil =>
              \A k \in KeysOf(always) : InRange(k) /\ NumberOf(k) < f => k \in ToSet(seen)
        /\ call.stopAtNil => IF seen = <<>> THEN f = FromN
                             ELSE NumberOf(Last(seen)) = f - 1
        /\ pc = "visit" => \A i \in 1..Len(page) :
              /\ values[i] => KeyOf(kind, f + (i - 1)) \in KeysOf(ever)
              /\ KeyOf(kind, f + (i - 1)) \in KeysOf(always) => values[i]
        /\ pc = "run" => \E q \in Nat : f = FromN + q * (PageSize + 1)
        /\ pc = "visit" /\ curr # call.to =>
              \E q \in Nat : Collected = FromN + q * (PageSize + 1)
    BY <1>1 DEF RangeInv, Paging
  <2>3. First' = f
    BY <2>1
  <2> HIDE DEF f
  <2>4. KeysOf(always)' = KeysOf(always') /\ KeysOf(ever)' = KeysOf(ever')
    BY DEF KeysOf
  <2> QED  BY <1>1, <1>2, <1>4, <2>1, <2>2, <2>3, <2>4 DEF Paging
<1> QED  BY <1>3, <1>5, <1>6, <1>7 DEF RangeInv

LEMMA NextRange == ShelfInv /\ RangeInv /\ [Next]_vars => RangeInv'
<1> SUFFICES ASSUME ShelfInv, RangeInv, [Next]_vars  PROVE RangeInv'
  OBVIOUS
<1>1. CASE \E store \in {"bbolt", "badger", "redis"} :
              RangeCall(store) \/ IterateCall(store) \/ EmptyCall(store)
  BY <1>1, StartRange, StartOther DEF IterateCall, EmptyCall
<1>2. CASE BBoltRange \/ BadgerRange
  BY <1>2, BBoltRangeStep, BadgerRangeStep
<1>3. CASE BBoltIterate \/ BBoltEmpty \/ BadgerIterate \/ BadgerEmpty
  BY <1>3, CursorOtherStep
<1>4. CASE RedisCollect \/ RedisFullPage \/ RedisCancelled \/ RedisLastPage
  <2>1. CASE Backwards
    <3>1. call' = call /\ kind' = kind /\ pc' # "idle"
      BY <1>4 DEF RedisCollect, RedisFullPage, RedisCancelled, RedisLastPage, Advance, MGet, Return,
                  callVars
    <3> QED  BY <2>1, <3>1, BackwardsStep
  <2>2. CASE ~Backwards
    <3>1. Ranging
      BY <1>4, <2>2 DEF RedisCollect, RedisFullPage, RedisCancelled, RedisLastPage, Running, Ranging
    <3> QED  BY <1>4, <3>1, RedisCollectRange, RedisPageRange, RedisCancelledRange
  <2> QED  BY <2>1, <2>2
<1>5. CASE RedisScan \/ RedisScanned \/ VisitKey \/ VisitDone \/ RedisEmpty
  <2>1. CASE call.op # "range"
    BY <1>5, <2>1, RedisOtherStep
  <2>2. CASE call.op = "range"
    <3>1. VisitKey \/ VisitDone
      BY <1>5, <2>2 DEF RedisScan, RedisScanned, RedisEmpty, Running
    <3>2. CASE Backwards
      <4>1. call' = call /\ kind' = kind /\ pc' # "idle"
        BY <3>1 DEF VisitKey, VisitDone, Advance, Return, callVars
      <4> QED  BY <3>2, <4>1, BackwardsStep
    <3>3. CASE ~Backwards
      BY <2>2, <3>1, <3>3, VisitKeyRange, VisitDoneRange DEF Ranging
    <3> QED  BY <3>2, <3>3
  <2> QED  BY <2>1, <2>2
<1>6. CASE CtxDone
  <2>1. UNCHANGED <<kind, db, call, pc, todo, prevKey, curr, page, values, rest, seen, always, ever>>
    BY <1>6 DEF CtxDone, callVars, dbVars, cursorVars, redisVars
  <2> QED  BY <2>1, SameRange
<1>7. CASE Put \/ Delete
  BY <1>7, WriteRange DEF Put, Delete
<1>8. CASE UNCHANGED vars
  <2>1. UNCHANGED <<kind, db, call, pc, todo, prevKey, curr, page, values, rest, seen, always, ever>>
    BY <1>8 DEF vars
  <2> QED  BY <2>1, SameRange
<1> QED  BY <1>1, <1>2, <1>3, <1>4, <1>5, <1>6, <1>7, <1>8 DEF Next, Step

-----------------------------------------------------------------------------
(* The theorems. *)

\* ShelfInv holds in every reachable state.
THEOREM ShelfInvariant == Spec => []ShelfInv
BY InitShelf, NextShelf, PTL DEF Spec

\* The types, and that a page of Redis never has more than PageSize + 1 keys and
\* never loses step with its values.
THEOREM TypeCorrect == Spec => []TypeOK
<1>1. ShelfInv => TypeOK
  BY DEF ShelfInv, Types, Pages, Calls, TypeOK
<1> QED  BY <1>1, ShelfInvariant, PTL

\* Iterate delivers every key that was there all along and none of another shelf,
\* on all three stores and under any concurrent writes to Redis.
THEOREM IterateCompleteAlways == Spec => []IterateComplete
<1>1. ShelfInv => IterateComplete
  <2> SUFFICES ASSUME ShelfInv, call.op = "iterate"
               PROVE  /\ ToSet(seen) \subseteq KeysOf(ever)
                      /\ pc = "nil" => KeysOf(always) \subseteq ToSet(seen)
    BY DEF IterateComplete
  <2>1. call.store \in {"bbolt", "badger", "redis"}
    BY DEF ShelfInv, Calls
  <2>2. CASE call.store \in {"bbolt", "badger"}
    <3>1. always = db /\ ever = db /\ seen \in Seq(KeysOf(db))
      BY <2>2 DEF ShelfInv, Calls, Cursor
    <3>2. ToSet(seen) \subseteq KeysOf(db)
      BY <3>1, ToSetRange
    <3> QED  BY <2>2, <3>1, <3>2 DEF ShelfInv, Cursor
  <2>3. CASE call.store = "redis"
    <3>1. seen \in Seq(KeysOf(ever))
      BY <2>3 DEF ShelfInv, Scanning
    <3>2. ToSet(seen) \subseteq KeysOf(ever)
      BY <3>1, ToSetRange
    <3> QED  BY <2>3, <3>2 DEF ShelfInv, Scanning
  <2> QED  BY <2>1, <2>2, <2>3
<1> QED  BY <1>1, ShelfInvariant, PTL

\* Empty says true only of an empty shelf and false only of one with a key.
THEOREM EmptyIsEmptyAlways == Spec => []EmptyIsEmpty
<1>1. ShelfInv => EmptyIsEmpty
  <2> SUFFICES ASSUME ShelfInv, pc \in {"true", "false"}  PROVE EmptyIsEmpty
    BY DEF EmptyIsEmpty
  <2>1. call.op = "empty" /\ call.store \in {"bbolt", "badger", "redis"}
    BY DEF ShelfInv, Calls
  <2>2. CASE call.store \in {"bbolt", "badger"}
    BY <2>1, <2>2 DEF ShelfInv, Calls, Cursor, EmptyIsEmpty
  <2>3. CASE call.store = "redis"
    BY <2>1, <2>3 DEF ShelfInv, ScanningOnce, EmptyIsEmpty
  <2> QED  BY <2>1, <2>2, <2>3
<1> QED  BY <1>1, ShelfInvariant, PTL

\* RangeInv holds in every reachable state.
THEOREM RangeInvariant == Spec => [](ShelfInv /\ RangeInv)
<1>1. Init => RangeInv
  BY InitRange
<1>2. ShelfInv /\ RangeInv /\ [Next]_vars => RangeInv'
  BY NextRange
<1> QED  BY <1>1, <1>2, ShelfInvariant, PTL DEF Spec

\* Range delivers in order, and exactly the keys of the range when it ends well (on
\* Redis when to is not before from, as in the next three theorems).
THEOREM RangeExactAlways == Spec => []RangeExact
<1>1. ShelfInv /\ RangeInv => RangeExact
  <2> SUFFICES ASSUME ShelfInv, RangeInv, Ranging
               PROVE  /\ \A i \in 1..(Len(seen) - 1) :
                            Before(Bytes(kind, seen[i]), Bytes(kind, seen[i + 1]))
                      /\ pc = "nil" /\ ~call.stopAtNil =>
                            /\ {k \in KeysOf(always) : InRange(k)} \subseteq ToSet(seen)
                            /\ ToSet(seen) \subseteq {k \in KeysOf(ever) : InRange(k)}
    BY DEF Ranging, RangeExact
  <2> DEFINE K == {k \in KeysOf(ever) : InRange(k)}
  <2>1. seen \in Seq(K) /\ kind \in Kind /\ Types
    BY DEF RangeInv, Delivered, ShelfInv, Types
  <2>2. ToSet(seen) \subseteq K
    <3> HIDE DEF K
    <3> QED  BY <2>1, ToSetRange
  <2>3. ASSUME NEW i \in 1..(Len(seen) - 1)
        PROVE  Before(Bytes(kind, seen[i]), Bytes(kind, seen[i + 1]))
    <3>1. NumberOf(seen[i]) < NumberOf(seen[i + 1])
      BY DEF RangeInv, Delivered
    <3>2. seen[i] \in K /\ seen[i + 1] \in K
      <4> HIDE DEF K
      <4>1. i \in 1..Len(seen) /\ i + 1 \in 1..Len(seen)
        BY <2>1
      <4> QED  BY <2>1, <4>1, ElementOfSeq
    <3> DEFINE m == NumberOf(seen[i])
               n == NumberOf(seen[i + 1])
    <3>3. /\ m \in 0..(Limit - 1) /\ seen[i] = KeyOf(kind, m)
          /\ n \in 0..(Limit - 1) /\ seen[i + 1] = KeyOf(kind, n)
      BY <2>1, <3>2, ShelfKey
    <3>4. m < n
      BY <3>1
    <3> HIDE DEF m, n
    <3> QED  BY <2>1, <3>3, <3>4, KeysInOrder
  <2> QED  BY <2>2, <2>3 DEF RangeInv, Ended, EndedBy
<1> QED  BY <1>1, RangeInvariant, PTL

\* Range with stopAtNil delivers consecutive keys and stops at a gap only.
THEOREM StopsAtGapAlways == Spec => []StopsAtGap
<1>1. RangeInv => StopsAtGap
  BY DEF Ranging, RangeInv, Delivered, Ended, EndedBy, GapFound, StopsAtGap
<1> QED  BY <1>1, RangeInvariant, PTL

\* A Range of Redis never counts past to and is always followed up to it.
THEOREM NeverPassesAlways == Spec => []NeverPasses
<1>1. ShelfInv /\ RangeInv => NeverPasses
  <2> SUFFICES ASSUME ShelfInv, RangeInv, Ranging, call.store = "redis", pc \in {"run", "visit"}
               PROVE  /\ ~Before(Bytes(kind, call.to), Bytes(kind, curr))
                      /\ curr # call.to => Followed
    BY DEF NeverPasses, Ranging
  <2> DEFINE c == NumberOf(curr)
             f == FromN
             t == ToN
  <2>1. /\ kind \in Kind /\ f \in 0..(Limit - 1) /\ t \in 0..(Limit - 1) /\ c \in f..t
        /\ call.from = KeyOf(kind, f) /\ call.to = KeyOf(kind, t) /\ curr = KeyOf(kind, c)
    BY DEF ShelfInv, Types, RangeInv, Bounds, Paging
  <2>2. curr # call.to => c + 1 \in f..t
    BY AdvanceNumber
  <2>3. kind # "uint32" => c = ValueOf(curr, Base)
    BY DEF NumberOf, Bytes
  <2> HIDE DEF c, f, t
  <2>4. c \in 0..(Limit - 1) /\ ~(t < c) /\ Limit \in Nat \ {0}
    BY <2>1, LimitType
  <2>5. ~Before(Bytes(kind, call.to), Bytes(kind, curr))
    BY <2>1, <2>4, KeysInOrder
  <2>6. ASSUME curr # call.to  PROVE Followed
    <3>1. c + 1 \in f..t /\ c + 1 \in 0..(Limit - 1) /\ c < Limit - 1 /\ c + 1 # f
      BY <2>1, <2>2, <2>4, <2>6
    <3>2. CASE kind = "uint32"
      <4>1. curr = c /\ call.from = f /\ (c + 1) % Limit = c + 1
        BY <2>1, <2>4, <3>1, <3>2 DEF KeyOf
      <4> QED  BY <3>1, <3>2, <4>1 DEF Followed, Uint32Next
    <3>3. CASE kind # "uint32"
      BY <2>3, <3>1, <3>3 DEF Followed
    <3> QED  BY <3>2, <3>3
  <2> QED  BY <2>5, <2>6
<1> QED  BY <1>1, RangeInvariant, PTL

\* The calls fail at the edges that FailsOnlyAtEdges names and nowhere else.
THEOREM FailsOnlyAtEdgesAlways == Spec => []FailsOnlyAtEdges
<1>1. RangeInv => FailsOnlyAtEdges
  BY DEF RangeInv, Ended, EndedBy, FailsOnlyAtEdges
<1> QED  BY <1>1, RangeInvariant, PTL

=============================================================================
