--------------------------------- MODULE Crc ---------------------------------
(***************************************************************************)
(* The bytes of the web visualiser: CRC-16 as rtl/crc.eq26.v computes it,  *)
(* the body of a meter frame, the session record and the restart delay     *)
(* that a charger draws from the CRC of a frame.  Numbers are the code's   *)
(* own; a sequence of bytes is a sequence of 0..255.                       *)
(***************************************************************************)
EXTENDS Integers, Sequences, SequencesExt

\* FoldLeft, with the value so far computed before it is used: a lazy chain of
\* a whole scenario is deeper than TLC's stack.
Folded(Op(_, _), base, seq) ==
    LET f[k \in 0..Len(seq)] ==
            IF k = 0 THEN base
            ELSE CHOOSE r \in {Op(soFar, seq[k]) : soFar \in {f[k - 1]}} : TRUE
    IN  f[Len(seq)]

\* The function f, its values worked out once: TLC does so when it compares f,
\* and would else work out a value again each time it is asked for.
Tabled(f) == CHOOSE g \in {f} : g = f

F_LOW == 4950               \* 49.50 Hz
V_SAG == 2070               \* 207.0 V
I_MAX == 320                \* 32.0 A
HOLD_BASE == 2
CHARGER_ID == 1297678337    \* 0x4D590001

-----------------------------------------------------------------------------
(* crc.ts and binutil.ts.                                                  *)

\* x XOR w, for a power of two w.
Toggle(x, w) == IF (x \div w) % 2 = 1 THEN x - w ELSE x + w

\* The polynomial is 0x1021.
CrcBit(crc, bit) ==
    LET shifted == (2 * crc) % 65536
    IN  IF crc \div 32768 = bit THEN shifted
        ELSE Toggle(Toggle(Toggle(shifted, 4096), 32), 1)

CrcByte(crc, byte) ==
    Folded(LAMBDA s, i : CrcBit(s, (byte \div 2^i) % 2), crc, <<7, 6, 5, 4, 3, 2, 1, 0>>)

Crc16From(seed, data) == Folded(CrcByte, seed, data)
Crc16(data) == Crc16From(65535, data)

BytesLE(n, value) == [i \in 1..n |-> (value \div 256^(i - 1)) % 256]
U16(bytes, at) == bytes[at] + 256 * bytes[at + 1]

-----------------------------------------------------------------------------
(* Frames, corruption, records, restart delays.                            *)

FrameBody(sequence, voltage, current, frequency) ==
    LET data == <<sequence % 256>> \o BytesLE(2, voltage) \o BytesLE(2, current)
                                   \o BytesLE(2, frequency)
    IN  data \o BytesLE(2, Crc16(data))

\* corrupt: one bit of the voltage; the second time it is put back.
Corrupted(body) == [body EXCEPT ![2] = Toggle(@, 1)]

CrcField(body) == U16(body, 8)
CrcOk(body) == Crc16(SubSeq(body, 1, 7)) = CrcField(body)

RecordBytes(energy, status, frames) ==
    LET body == BytesLE(4, energy) \o <<status, frames>>
    IN  body \o BytesLE(2, Crc16(body))

RestartDelay(trigger, id) == HOLD_BASE + (Crc16From(trigger, BytesLE(4, id)) % 8)
=============================================================================
