---------------------------- MODULE TrieEncoding ----------------------------
(***************************************************************************)
(* The three encodings of trie keys (src/trie/encoding.go): bytes, hex     *)
(* (one nibble per element, with a terminator if a value follows) and      *)
(* compact (bytes with a flag for the terminator and for odd length).      *)
(***************************************************************************)
EXTENDS Integers, Sequences, SequencesExt

Term == 16

hasTerm(hex) == hex # <<>> /\ Last(hex) = Term

\* Pairs of nibbles as bytes.
decodeNibbles(hex) == [i \in 1 .. Len(hex) \div 2 |-> 16 * hex[2 * i - 1] + hex[2 * i]]

\* The nibbles of a key, without its terminator.
Bare(hex) == IF hasTerm(hex) THEN Front(hex) ELSE hex

hexToCompact(hex) ==
    LET flag == IF hasTerm(hex) THEN 32 ELSE 0
        packed(bare) == IF Len(bare) % 2 = 1 THEN <<flag + 16 + bare[1]>> \o decodeNibbles(Tail(bare))
                        ELSE <<flag>> \o decodeNibbles(bare)
    IN packed(Bare(hex))

\* Where step k of the loop of hexToCompactInPlace writes.
WriteAt(k) == k + 1

\* hexToCompactInPlace: the buffer after the call, and the length of the result.  The
\* loop's step k reads the k-th pair and writes the byte WriteAt(k).
hexToCompactInPlace(hex) ==
    LET n == IF hasTerm(hex) THEN Len(hex) - 1 ELSE Len(hex)
        odd == n % 2
        flag == (IF hasTerm(hex) THEN 32 ELSE 0) + (IF odd = 1 THEN 16 + hex[1] ELSE 0)
        pair(buf, k) == 16 * buf[odd + 2 * k - 1] + buf[odd + 2 * k]
        step(buf, k) == [buf EXCEPT ![WriteAt(k)] = pair(buf, k)]
        body == FoldLeft(step, hex, [k \in 1 .. n \div 2 |-> k])
    IN [buf |-> [body EXCEPT ![1] = flag], len |-> n \div 2 + 1]

\* Mutant: the mask of the lower half is a bit short.
ShortMask(key) ==
    [i \in 1 .. 2 * Len(key) |-> IF i % 2 = 1 THEN key[(i + 1) \div 2] \div 16
                                 ELSE key[i \div 2] % 8] \o <<Term>>

keybytesToHex(key) ==
    [i \in 1 .. 2 * Len(key) |-> IF i % 2 = 1 THEN key[(i + 1) \div 2] \div 16
                                 ELSE key[i \div 2] % 16] \o <<Term>>

hexToKeybytes(hex) == decodeNibbles(Bare(hex))

compactToHex(compact) ==
    LET unflagged(base) ==
            SubSeq(base, 3 - (base[1] % 2), IF base[1] < 2 THEN Len(base) - 1 ELSE Len(base))
    IN IF compact = <<>> THEN <<>> ELSE unflagged(keybytesToHex(compact))

prefixLen(a, b) ==
    Cardinality({n \in DOMAIN a \cap DOMAIN b : \A i \in 1 .. n : a[i] = b[i]})
=============================================================================
