---------------------------- MODULE ZcashAddress ----------------------------
(***************************************************************************)
(* The check of an address that a person types into the waitlist           *)
(* (zec/server/zaddr.ts): Bech32 and Bech32m, their checksum and their     *)
(* padding, and the prefix and length of each kind of mainnet address.     *)
(*                                                                         *)
(* A number of 30 bits is the set of its bits, and what comes after the   *)
(* separator of an address a sequence of words 0 .. 31.  Left out:         *)
(* transparent addresses, whose checksum is a hash, and upper case.        *)
(***************************************************************************)
EXTENDS Integers, Sequences, FiniteSets, SequencesExt

CONSTANTS
  Addresses,       \* addresses, with their kinds: [hrp, words, kind]
  TypedWords       \* what a finger lands on

VARIABLES
  meant,           \* the address that a person has
  typed            \* the words they typed

addressVars == <<meant, typed>>

BitsOf(n, width) == {i \in 0 .. width - 1 : (n \div 2 ^ i) % 2 = 1}

\* BECH32 and BECH32M, whose 30 bits are given in two halves.
Number(high, low) == {i + 15 : i \in BitsOf(high, 15)} \cup BitsOf(low, 15)
Bech32 == {0}
Bech32m == Number(22416, 12451)
Generator ==
  [i \in 0 .. 4 |->
     CASE i = 0 -> Number(30420, 22450)
       [] i = 1 -> Number(19617, 3693)
       [] i = 2 -> Number(15682, 6650)
       [] i = 3 -> Number(31364, 13277)
       [] i = 4 -> Number(21544, 25267)]

\* The characters of a prefix, and what the checksum takes of them.
Codes(hrp) ==
  CASE hrp = "zs" -> <<122, 115>>
    [] hrp = "u" -> <<117>>
    [] hrp = "tex" -> <<116, 101, 120>>
HrpExpand(hrp) ==
  LET c == Codes(hrp)
  IN  [i \in DOMAIN c |-> c[i] \div 32] \o <<0>> \o [i \in DOMAIN c |-> c[i] % 32]

\* One step of the checksum: five bits in, and the generators of the five bits
\* that leave at the top.
Step(generator, chk, v) ==
  LET shifted == {i + 5 : i \in chk \cap 0 .. 24} \cup BitsOf(v, 5)
      out == {i \in 0 .. 4 : i + 25 \in chk}
      Sum(j) == Cardinality({i \in out : j \in generator[i]})
                  + Cardinality({j} \cap shifted)
  IN  {j \in 0 .. 29 : Sum(j) % 2 = 1}

\* The checksum, taken in halves to keep the recursion shallow.
Polymod(values) ==
  LET generator == Generator
      sum[chk \in SUBSET (0 .. 29), first, last \in DOMAIN values] ==
        LET middle == (first + last) \div 2
        IN  IF first = last THEN Step(generator, chk, values[first])
            ELSE sum[sum[chk, first, middle], middle + 1, last]
  IN  sum[{0}, 1, Len(values)]

\* Mutant: what the last word holds past the last byte is not looked at.
MutPadded(words) == TRUE

\* The words of the data end with fewer than five bits past the last byte, all
\* zero.
Padded(words) ==
  LET rest == (5 * Len(words)) % 8
  IN  rest < 5 /\ (rest = 0 \/ words[Len(words)] % 2 ^ rest = 0)

Data(words) == SubSeq(words, 1, Len(words) - 6)
Bytes(words) == (5 * Len(Data(words))) \div 8

\* zcashAddressKind, of an address in lower case.
KindOf(hrp, words) ==
  LET variant == Polymod(HrpExpand(hrp) \o words)
      n == Bytes(words)
  IN  CASE Len(words) < 6 \/ ~Padded(Data(words)) -> "none"
        [] hrp = "zs" /\ variant = Bech32 /\ n = 43 -> "sapling"
        [] hrp = "u" /\ variant = Bech32m /\ n >= 48 -> "unified"
        [] hrp = "tex" /\ variant = Bech32m /\ n = 20 -> "tex"
        [] OTHER -> "none"

-----------------------------------------------------------------------------
\* Typing an address

Substituted(w) == {[w EXCEPT ![i] = x] : i \in DOMAIN w, x \in TypedWords}
Swapped(w) == {[w EXCEPT ![i] = w[i + 1], ![i + 1] = w[i]] :
                 i \in 1 .. Len(w) - 1}
Inserted(w) == {InsertAt(w, i, x) : i \in 1 .. Len(w) + 1, x \in TypedWords}
LeftOut(w) == {RemoveAt(w, i) : i \in DOMAIN w}

\* One slip: a wrong character, two in the wrong order, one too many, or one
\* too few.
Slip ==
  /\ typed = meant.words
  /\ typed' \in Substituted(typed) \cup Swapped(typed) \cup Inserted(typed)
                   \cup LeftOut(typed)
  /\ UNCHANGED meant

AddressInit == meant \in Addresses /\ typed = meant.words

AddressNext == Slip

AddressSpec == AddressInit /\ [][AddressNext]_addressVars

-----------------------------------------------------------------------------
\* Properties

\* An address is of its kind, and with one slip it is refused (zaddr.ts:6: "A
\* typo fails the checksum here instead of losing a delivery later").  The
\* checksum alone would not do: of a Sapling address that ends in "p", it lets
\* a "q" pass that was typed before the "p"; the padding tells.
TypoRefused ==
  KindOf(meant.hrp, typed) = IF typed = meant.words THEN meant.kind ELSE "none"
=============================================================================
