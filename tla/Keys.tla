-------------------------------- MODULE Keys --------------------------------
(***************************************************************************)
(* The key types of src/key.go: Uint32Key, HashKey and BytesKey.           *)
(*                                                                         *)
(* A byte has two hexadecimal digits of radix Nibble (16 in the code), a   *)
(* Uint32Key and a HashKey have Width bytes (4 and 32 in the code).  A     *)
(* Uint32Key is a number, the other two are sequences of bytes.  A string  *)
(* is the sequence of its digits.  Nil stands for the nil Key that is      *)
(* returned with an error, and for the panic of HashKey.Next.              *)
(***************************************************************************)
EXTENDS Integers, SequencesExt

CONSTANTS Nibble,       \* radix of a hexadecimal digit
          Width,        \* bytes of a Uint32Key and of a HashKey
          Nil           \* no key

ASSUME KeysAssumption == Nibble \in Nat \ {0, 1} /\ Width \in Nat \ {0}
ASSUME NilAssumption == Nil \notin Nat /\ Nil \notin Seq(Nat)

Kind == {"uint32", "hash", "bytes"}

Base == Nibble * Nibble

\* The number of Width-byte numbers, 2^32 for a Uint32Key.
Limit == LET power[i \in Nat] == IF i = 0 THEN 1 ELSE power[i - 1] * Base
         IN  power[Width]

-----------------------------------------------------------------------------
(* Numbers and digits: encoding/binary, encoding/hex, math/big, strconv. *)

\* The number that the digits ds denote, most significant first.
ValueOf(ds, radix) ==
    LET value[i \in 0..Len(ds)] ==
            IF i = 0 THEN 0 ELSE value[i - 1] * radix + ds[i]
    IN  value[Len(ds)]

\* For every i, n without its i least significant digits.
Shifted(n, radix) ==
    LET shifted[i \in Nat] == IF i = 0 THEN n ELSE shifted[i - 1] \div radix
    IN  shifted

\* The len least significant digits of n.
Digits(n, radix, len) == [i \in 1..len |-> Shifted(n, radix)[len - i] % radix]

\* n without leading zeros, as big.Int.Bytes gives it: 0 has no digits.
Numeral(n, radix) ==
    LET len == CHOOSE l \in 0..n : /\ Shifted(n, radix)[l] = 0
                                   /\ \A m \in 0..(l - 1) : Shifted(n, radix)[m] # 0
    IN  Digits(n, radix, len)

HexEncode(bs) ==
    [i \in 1..(2 * Len(bs)) |-> LET b == bs[(i + 1) \div 2]
                               IN  IF i % 2 = 1 THEN b \div Nibble ELSE b % Nibble]

\* An odd number of digits is an error.
HexDecode(ds) ==
    IF Len(ds) % 2 = 1 THEN Nil
    ELSE [i \in 1..(Len(ds) \div 2) |-> ds[2 * i - 1] * Nibble + ds[2 * i]]

-----------------------------------------------------------------------------
(* Uint32Key *)

Uint32FromBytes(bs) == IF Len(bs) # Width THEN Nil ELSE ValueOf(bs, Base)
Uint32String(u) == IF u = 0 THEN <<0>> ELSE Numeral(u, 10)
Uint32Bytes(u) == Digits(u, Base, Width)
Uint32Next(u) == (u + 1) % Limit

Uint32FromString_Narrow(ds) ==
    LET n == ValueOf(ds, 10) IN IF 4 * n >= Limit THEN Nil ELSE n

\* The string is parsed as a signed integer of the same size.
Uint32FromString(ds) ==
    LET n == ValueOf(ds, 10) IN IF 2 * n >= Limit THEN Nil ELSE n

(* HashKey *)

HashFromBytes(bs) == IF Len(bs) # Width THEN Nil ELSE bs

HashFromString(ds) ==
    LET bs == HexDecode(ds) IN IF bs = Nil THEN Nil ELSE HashFromBytes(bs)

\* Next slices Width bytes off a big.Int, which has no leading zeros: a key
\* with a zero in front panics, and the largest key is followed by 1 0 ... 0.
HashNext(h) ==
    LET bs == Numeral(ValueOf(h, Base) + 1, Base)
    IN  IF Len(bs) < Width THEN Nil ELSE SubSeq(bs, 1, Width)

(* BytesKey *)

BytesFromString(ds) == HexDecode(ds)

\* The big.Int loses the leading zeros of the key.
BytesNext(bs) == Numeral(ValueOf(bs, Base) + 1, Base)

(* Key: the method of the key's type. *)

Bytes(kind, k) == IF kind = "uint32" THEN Uint32Bytes(k) ELSE k

FromBytes(kind, bs) ==
    CASE kind = "uint32" -> Uint32FromBytes(bs)
      [] kind = "hash" -> HashFromBytes(bs)
      [] kind = "bytes" -> bs

String(kind, k) == IF kind = "uint32" THEN Uint32String(k) ELSE HexEncode(k)

FromString(kind, ds) ==
    CASE kind = "uint32" -> Uint32FromString(ds)
      [] kind = "hash" -> HashFromString(ds)
      [] kind = "bytes" -> BytesFromString(ds)

NextKey(kind, k) ==
    CASE kind = "uint32" -> Uint32Next(k)
      [] kind = "hash" -> HashNext(k)
      [] kind = "bytes" -> BytesNext(k)

\* bytes.Compare(a, b) < 0.
Before(a, b) ==
    \E n \in 0..Len(a) :
        /\ n < Len(b)
        /\ SubSeq(a, 1, n) = SubSeq(b, 1, n)
        /\ n < Len(a) => a[n + 1] < b[n + 1]

=============================================================================
