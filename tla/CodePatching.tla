---------------------------- MODULE CodePatching ----------------------------
(* ModifiableCode::offset32, what the processor makes of the four bytes it    *)
(* writes, and where create_wrapper_space looks for room.  Addresses count    *)
(* from the base of the game's image.                                         *)
EXTENDS Integers

Granule  == 65536   \* VirtualAlloc's granularity, and the size of the wrapper space
PageSize == 4096
Tries    == 511     \* i < 0x200

Page(address) == address \div PageSize

Candidate(i) == -(i * Granule)

-----------------------------------------------------------------------------
(* A 32-bit value as its four bytes in memory, lowest first.                  *)

U32(n) == <<n % 256, (n \div 256) % 256, (n \div 65536) % 256, (n \div 16777216) % 256>>

\* What offset32(target) writes at `address`: the distance from the end of the
\* four bytes, cut to 32 bits.
Offset32(address, target) == U32(target - (address + 4))
FromStart(address, target) == U32(target - address)   \* mutant: from their beginning

\* The processor takes the bytes for a signed number and adds it to the address
\* of the next instruction.
Signed(b) == b[1] + 256 * b[2] + 65536 * b[3]
             + 16777216 * (IF b[4] >= 128 THEN b[4] - 256 ELSE b[4])

Follow(address, bytes) == address + 4 + Signed(bytes)
=============================================================================
