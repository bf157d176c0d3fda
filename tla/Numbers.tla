------------------------------- MODULE Numbers -------------------------------
(***************************************************************************)
(* How numbers cross between Rust and JavaScript: the number types, BigInt *)
(* with its accessors and those of the deprecated JsBigInt, and the two    *)
(* ways through serde.  Widths are parameters: 8, 32, 53 and 64 bits in    *)
(* the code.                                                               *)
(***************************************************************************)
EXTENDS Integers, JsValues

CONSTANTS
    TinyBits,   \* of u8 and i8 (and, the same code, u16 and i16)
    SmallBits,  \* of u32 and i32
    SafeBits,   \* the precision of a double
    WordBits    \* of u64 and i64, the words of a BigInt

ASSUME BitsAssumption ==
    /\ TinyBits \in Nat \ {0} /\ SmallBits \in Nat
    /\ SafeBits \in Nat /\ WordBits \in Nat
    /\ TinyBits < SmallBits /\ SmallBits < SafeBits /\ SafeBits + 1 < WordBits

(* What proofs need to know of powers of two, and cannot derive            *)
ASSUME PowersAssumption ==
    /\ 2^0 = 1 /\ 2^1 = 2
    /\ \A a, b \in 0 .. 3 * WordBits :
          2^a \in Nat \ {0} /\ 2^(a + b) = 2^a * 2^b

Unsigned(bits) == 0 .. 2^bits - 1
Signed(bits) == -(2^(bits - 1)) .. 2^(bits - 1) - 1
Magnitude(n) == IF n < 0 THEN -n ELSE n
Negated(n, sign) == IF sign THEN -n ELSE n

(* "as", from an unsigned type to the signed one of that width             *)
AsSigned(n, bits) ==
    LET low == n % 2^bits IN IF low < 2^(bits - 1) THEN low ELSE low - 2^bits

(* The double nearest to an integer, the even one of two.                  *)
Double(n) ==
    LET size == Magnitude(n)
        binade == CHOOSE k \in 0 .. 2 * WordBits :
                      /\ size <= 2^(SafeBits + k)
                      /\ k > 0 => size > 2^(SafeBits + k - 1)
        below == size \div 2^binade
        rest == 2 * (size % 2^binade)
        up == rest > 2^binade \/ (rest = 2^binade /\ below % 2 = 1)
    IN Negated(IF up THEN (below + 1) * 2^binade ELSE below * 2^binade, n < 0)

(* The JavaScript number that an integer is given as                       *)
NumberOf(n) == Number(Double(n))

-----------------------------------------------------------------------------
(* napi_get_value_uint32 and napi_get_value_int32 of an integer            *)
GetUint32(js) == js[2] % 2^SmallBits
GetInt32(js) == AsSigned(js[2], SmallBits)

InRange(n, range) == IF n \in range THEN Ok(n) ELSE Err

(* Not like from: as instead of try_into.                                 *)
NumberAs_Wraps(bits, signed, js) ==
    IF js[1] # "number" THEN Err
    ELSE IF signed THEN Ok(AsSigned(GetInt32(js), bits))
    ELSE Ok(GetUint32(js) % 2^bits)

(* from_napi_value of the types of at most 32 bits                         *)
NumberAs(bits, signed, js) ==
    IF js[1] # "number" THEN Err
    ELSE IF signed THEN InRange(GetInt32(js), Signed(bits))
    ELSE InRange(GetUint32(js), Unsigned(bits))

(* The words of a non-negative integer, low word first; N-API gives as     *)
(* many as it has, and 0n has none, for which from_napi_value puts one.    *)
WordsOf(n) ==
    LET len == CHOOSE k \in 1 .. 4 :
                   /\ n < 2^(k * WordBits)
                   /\ k > 1 => n >= 2^((k - 1) * WordBits)
    IN [i \in 1 .. len |-> (n \div 2^((i - 1) * WordBits)) % 2^WordBits]

BigIntFromJs(js) == [sign |-> js[2] < 0, words |-> WordsOf(Magnitude(js[2]))]

(* From<i64> and From<u64>, From<i128> and From<u128>                      *)
BigIntFrom64(n) == [sign |-> n < 0, words |-> <<Magnitude(n)>>]
BigIntFrom128(n) ==
    [sign |-> n < 0,
     words |-> <<Magnitude(n) % 2^WordBits, Magnitude(n) \div 2^WordBits>>]

BigIntToJs(big) ==
    LET from[i \in 1 .. Len(big.words) + 1] ==
            IF i > Len(big.words) THEN 0
            ELSE big.words[i] + 2^WordBits * from[i + 1]
    IN BigInt(Negated(from[1], big.sign))

(* i128 and u128 go as two words; i128 calls 0 negative.                   *)
Wide(n) ==
    BigIntToJs([sign |-> n <= 0, words |-> BigIntFrom128(n).words])

GetU64(big) ==
    [signed |-> big.sign, value |-> big.words[1],
     lossless |-> ~big.sign /\ Len(big.words) = 1]

GetI64(big) ==
    LET word == big.words[1]
        low == AsSigned(word, WordBits)
    IN IF big.sign /\ word = 2^(WordBits - 1)
       THEN [value |-> -word, lossless |-> Len(big.words) = 1]
       ELSE [value |-> Negated(low, big.sign),
             lossless |-> Len(big.words) = 1 /\ low >= 0]

LowWords(big) == big.words[1] + 2^WordBits * big.words[2]

GetI128(big) ==
    LET len == Len(big.words)
        lowest == 2^(2 * WordBits - 1)
    IN IF len = 1
       THEN [value |-> Negated(big.words[1], big.sign), lossless |-> TRUE]
       ELSE IF big.sign /\ LowWords(big) = lowest
       THEN [value |-> -lowest, lossless |-> len > 2]
       ELSE [value |-> Negated(AsSigned(LowWords(big), 2 * WordBits), big.sign),
             lossless |-> len = 2 /\ AsSigned(big.words[2], WordBits) >= 0]

GetU128(big) ==
    LET len == Len(big.words)
    IN [signed |-> big.sign,
        value |-> IF len = 1 THEN big.words[1] ELSE LowWords(big),
        lossless |-> len <= 2]

(* JsBigInt: the words that there are, the sign by overflowing_neg, and    *)
(* the opposite flag.                                                      *)
JsBigIntI128(big) ==
    LET bits == 2 * WordBits
        low == IF Len(big.words) = 1 THEN big.words[1] ELSE LowWords(big)
        val == AsSigned(low, bits)
        overflow == big.sign /\ val = -(2^(bits - 1))
    IN [value |-> IF overflow THEN val ELSE Negated(val, big.sign),
        loss |-> overflow \/ Len(big.words) > 2]

-----------------------------------------------------------------------------
(* Not like to: integers beyond the safe ones go as numbers.               *)
SerdeNumberToJs_Plain(n) ==
    IF n \in Signed(WordBits) THEN NumberOf(n)
    ELSE BigIntToJs(BigIntFrom64(n))

(* serde_json::Number, an i64 or u64, to JavaScript                        *)
SerdeNumberToJs(n) ==
    IF n \in Signed(WordBits)
    THEN IF Magnitude(n) < 2^SafeBits
         THEN NumberOf(n)
         ELSE BigIntToJs(BigIntFrom64(n))
    ELSE IF n > 2^SmallBits - 1
    THEN BigIntToJs(BigIntFrom64(n))
    ELSE NumberOf(n)

(* and back: as u32, as i32 or as a float; not one of them reads a BigInt  *)
SerdeNumberFromJs(js) ==
    IF js[1] # "number" THEN Err
    ELSE IF js[2] \in 0 .. 2^SmallBits - 1 THEN Ok(Number(js[2]))
    ELSE IF js[2] \in -(2^(SmallBits - 1)) .. -1 THEN Ok(Number(js[2]))
    ELSE Ok(js)

(* serde_json::Value reads BigInts too, as a string those beyond i64 and   *)
(* u64.                                                                    *)
SerdeValueFromJs(js) ==
    IF js[1] # "bigint" THEN SerdeNumberFromJs(js)
    ELSE LET big == BigIntFromJs(js)
             got == IF big.sign THEN GetI64(big) ELSE GetU64(big)
         IN IF got.lossless THEN Ok(BigInt(got.value))
            ELSE Ok(String(js[2]))

(* Ser                                                                     *)
SerI64(n) == NumberOf(n)
SerU64(n) == IF n <= 2^SmallBits - 1 THEN NumberOf(n) ELSE BigInt(n)
SerI128(n) == Wide(n)

(* De, up to the call of the visitor: what a float becomes saturates.      *)
DeNumber(js) ==
    IF js[1] = "number"
    THEN LET top == 2^(WordBits - 1)
         IN IF js[2] >= top THEN top - 1
            ELSE IF js[2] < -top THEN -top ELSE js[2]
    ELSE LET big == BigIntFromJs(js)
         IN IF big.sign
            THEN IF Len(big.words) < 2 THEN GetI64(big).value
                                       ELSE GetI128(big).value
            ELSE IF Len(big.words) < 2 THEN GetU64(big).value
                                       ELSE GetU128(big).value

-----------------------------------------------------------------------------
(* One, two and three words                                                *)
BigInts == -(2^(2 * WordBits + 1)) .. 2^(2 * WordBits + 1)

(* The two low words of a negative BigInt are those of i128::MIN: get_i128 *)
(* has the flag of that case the wrong way round.                          *)
LooksLowest(big) ==
    /\ big.sign /\ Len(big.words) > 1
    /\ LowWords(big) = 2^(2 * WordBits - 1)

(* An accessor says lossless exactly for the BigInts that its type holds,  *)
(* and then its value is the BigInt; the deprecated one is right at least  *)
(* wherever its type holds the BigInt ("return true if the value is        *)
(* lossless").                                                             *)
AccessorsAreHonest(n) ==
    LET big == BigIntFromJs(BigInt(n))
        u64 == GetU64(big)
        i64 == GetI64(big)
        i128 == GetI128(big)
        u128 == GetU128(big)
    IN /\ u64.lossless <=> n \in Unsigned(WordBits)
       /\ u64.lossless => u64.value = n
       /\ i64.lossless <=> n \in Signed(WordBits)
       /\ i64.lossless => i64.value = n
       /\ ~LooksLowest(big) => (i128.lossless <=> n \in Signed(2 * WordBits))
       /\ n \in Signed(2 * WordBits) =>
             i128.value = n /\ JsBigIntI128(big).value = n
       /\ u128.lossless <=> Magnitude(n) \in Unsigned(2 * WordBits)
       /\ u128.lossless => Negated(u128.value, u128.signed) = n
       /\ BigIntToJs(big) = BigInt(n)

(* A negative integer of one word that i64 does not hold: De reads its     *)
(* BigInt with get_i64 all the same.                                       *)
Misread(n) == n \in -(2^WordBits - 1) .. -(2^(WordBits - 1)) - 1

(* An integer comes back as it went, whatever its size and on whichever    *)
(* side of it the code changes from numbers to BigInts: through serde_json *)
(* (its numbers become BigInts beyond the safe integers), and through Ser  *)
(* and De but for i64 beyond the safe integers, which go as doubles, and   *)
(* those that De misreads.                                                 *)
IntegerComesBack(n) ==
    /\ n \in Signed(WordBits) \cup Unsigned(WordBits) =>
          SerdeValueFromJs(SerdeNumberToJs(n)) \in {Ok(Number(n)), Ok(BigInt(n))}
    /\ n \in Signed(WordBits) /\ Magnitude(n) <= 2^SafeBits =>
          DeNumber(SerI64(n)) = n
    /\ n \in Unsigned(WordBits) => DeNumber(SerU64(n)) = n
    /\ n \in Signed(2 * WordBits) /\ ~Misread(n) => DeNumber(SerI128(n)) = n

(* A number within 32 bits is refused by a type that does not hold it,     *)
(* never cut to its width, and comes through otherwise; and all the above. *)
NumberIsExact(n) ==
    /\ \A bits \in {TinyBits, SmallBits} :
           /\ n \in Unsigned(SmallBits) =>
                 NumberAs(bits, FALSE, NumberOf(n)) = InRange(n, Unsigned(bits))
           /\ n \in Signed(SmallBits) =>
                 NumberAs(bits, TRUE, NumberOf(n)) = InRange(n, Signed(bits))
    /\ AccessorsAreHonest(n)
    /\ IntegerComesBack(n)

=============================================================================
