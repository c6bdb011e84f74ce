------------------------------ MODULE Encoding ------------------------------
(***************************************************************************)
(* The binary form of bitsets and multi-signatures (bitset.go, crypto.go). *)
(* Both write a length as a uint16: the number of bits of the bitset, and  *)
(* the number of bytes of its encoding.  Byte strings are records of what  *)
(* was written, with the sizes that decide where a reader cuts them.       *)
(***************************************************************************)
EXTENDS Naturals

uint16(n) == n % 65536

\* The library's bitset: its length on 8 bytes, then words of 64 bits.
words(l) == (l + 63) \div 64
libBytes(l) == 8 + 8 * words(l)

\* Reading it back needs all of the words that the length announces.
libUnmarshal(buff, bytes) == [err |-> bytes < libBytes(buff.length), bits |-> buff.set]

\* Mutant: the length on one byte.
bitsetMarshalByte(bs) == [len |-> bs.l % 256, lib |-> [length |-> bs.l, set |-> bs.bits],
                          bytes |-> 2 + libBytes(bs.l)]

bitsetMarshal(bs) == [len |-> uint16(bs.l), lib |-> [length |-> bs.l, set |-> bs.bits],
                      bytes |-> 2 + libBytes(bs.l)]

\* `bytes` of the buffer are left to the reader.
bitsetUnmarshal(buff, bytes) ==
    IF bytes < 2 THEN [err |-> TRUE, l |-> 0, bits |-> {}]
    ELSE LET lib == libUnmarshal(buff.lib, bytes - 2)
         IN  [err |-> lib.err, l |-> buff.len, bits |-> lib.bits]

MarshalBinary(ms) == LET bs == bitsetMarshal(ms.bs)
                     IN  [length |-> uint16(bs.bytes), bitset |-> bs, sig |-> ms.sig]

\* A wrong length also shifts the start of the signature, but the bitset is
\* read first and its error is returned.
Unmarshal(b) == LET bs == bitsetUnmarshal(b.bitset, b.length)
                IN  [err |-> bs.err, bs |-> [l |-> bs.l, bits |-> bs.bits], sig |-> b.sig]

\* What parseSignatures makes of a multi-signature for a level of `size` ids.
Accepted(b, size) == LET ms == Unmarshal(b)
                     IN  ~ms.err /\ ms.bs.l = size /\ ms.bs.bits # {}
=============================================================================
