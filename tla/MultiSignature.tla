--------------------------- MODULE MultiSignature ---------------------------
(***************************************************************************)
(* Multi-signatures (crypto.go), their bitsets (bitset.go) and the         *)
(* signatures under them, which come from a Constructor such as bn256.     *)
(*                                                                         *)
(* A BLS signature is a sum of contributions, one per signer.  All that a  *)
(* verification tells apart is which ids the sum contains and whether it   *)
(* contains each of them once: [who, once].  A sum that counts an id twice *)
(* or is not a sum of signatures of the message at all has once = FALSE,   *)
(* and verifies against no set of keys.                                    *)
(*                                                                         *)
(* A MultiSignature is [len, bits, sig]: the bitset's length, the indices  *)
(* of its set bits (local to a range of ids) and the signature.            *)
(***************************************************************************)
EXTENDS Integers, FiniteSets

SignatureOf(id) == [who |-> {id}, once |-> TRUE]

\* The sum of the signatures f[k], for the k in its domain.
CombineAll(f) ==
    [ who  |-> UNION {f[k].who : k \in DOMAIN f},
      once |-> /\ \A k \in DOMAIN f : f[k].once
               /\ \A j, k \in DOMAIN f : j # k => f[j].who \cap f[k].who = {} ]

Combine2(a, b) == [ who  |-> a.who \cup b.who,
                    once |-> a.once /\ b.once /\ a.who \cap b.who = {} ]

-----------------------------------------------------------------------------
MS(len, bits, sig) == [len |-> len, bits |-> bits, sig |-> sig]

card(ms) == Cardinality(ms.bits)

\* VerifySignature of the aggregate of the keys at base + i, for the bits i
\* of the bitset, after the check of the bitset's length against the number
\* of keys (verifySignature for the range of a level, VerifyMultiSignature for
\* the whole registry).  parseSignatures refuses an empty bitset, so that an
\* aggregate of no key is never used.
Verifies(ms, base, size) ==
    /\ ms.len = size
    /\ ms.bits # {}
    /\ ms.sig.once
    /\ ms.sig.who = {base + i : i \in ms.bits}

\* The multi-signatures that verify at a range, one per non-empty set of bits.
ValidSigs(base, size) ==
    { MS(size, bits, [who |-> {base + i : i \in bits}, once |-> TRUE]) :
        bits \in (SUBSET (0 .. size - 1)) \ {{}} }
=============================================================================
