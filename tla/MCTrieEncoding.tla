-------------------------- MODULE MCTrieEncoding --------------------------
(***************************************************************************)
(* Every hex key up to a length, grown a nibble at a time.                 *)
(***************************************************************************)
EXTENDS TrieEncoding

CONSTANTS Nibbles, MaxLen

VARIABLE hex

Init == hex = <<>>

Grow == \E x \in Nibbles \cup {Term} : ~hasTerm(hex) /\ Len(hex) < MaxLen /\ hex' = Append(hex, x)

Spec == Init /\ [][Grow]_hex

\* What is stored under a compact key is found again: decoding undoes encoding, for odd
\* and even lengths, with and without a terminator.
CompactRoundTrip == compactToHex(hexToCompact(hex)) = hex

\* The encoding in place, which overwrites the nibbles it reads from, gives the bytes of
\* the one that copies.
InPlaceAgrees ==
    hex # <<>> => LET r == hexToCompactInPlace(hex)
                  IN SubSeq(r.buf, 1, r.len) = hexToCompact(hex)

\* The bytes of a key come back from its hex form, whenever it has whole bytes.
KeyRoundTrip ==
    (hasTerm(hex) /\ Len(hex) % 2 = 1) => keybytesToHex(hexToKeybytes(hex)) = hex
=============================================================================
