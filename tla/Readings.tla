------------------------------ MODULE Readings ------------------------------
(***************************************************************************)
(* What becomes of a reading on its way: tilt.h and ambient.c make 16-bit  *)
(* numbers of hundredths of a degree Celsius and of thousandths of gravity,*)
(* the SDK stores two bytes in which one pattern means null, and the host  *)
(* reads a number or finds none in chip-tool's output.                     *)
(***************************************************************************)
EXTENDS Integers

INT16_MIN == -32768
INT16_MAX == 32767
Int16 == INT16_MIN..INT16_MAX
UINT16_MAX == 65535
Uint16 == 0..UINT16_MAX

\* Division in C rounds towards zero.
Quotient(a, b) == IF a >= 0 THEN a \div b ELSE -((-a) \div b)

\* (int16_t) of an int, and back from the bits of one
ToInt16(x) == ((x + 32768) % 65536) - 32768
SignKept(x) == x      \* mutant
ToUint16(x) == x % 65536

-----------------------------------------------------------------------------
(* tilt.h *)

TILT_IBEACON_MIN_LEN == 25

\* An element of an advertisement: its length, whether it begins with the
\* prefix of the black Tilt, and the bytes at 20 to 23.
IsTilt(mfg) == mfg.len >= TILT_IBEACON_MIN_LEN /\ mfg.tilt

BigEndian(hi, lo) == hi * 256 + lo

Least(a, b) == IF a < b THEN a ELSE b
Greatest(a, b) == IF a < b THEN b ELSE a

CentiOf(tempF) == Greatest(INT16_MIN, Least(INT16_MAX, Quotient((tempF - 32) * 500, 9)))

TiltTempF(mfg) == BigEndian(mfg.bytes[1], mfg.bytes[2])
TiltGravity(mfg) == BigEndian(mfg.bytes[3], mfg.bytes[4])

\* tilt_black_decode of what IsTilt accepts
TiltSample(mfg) == [temp |-> CentiOf(TiltTempF(mfg)), gravity |-> TiltGravity(mfg)]

-----------------------------------------------------------------------------
(* ambient.c *)

Micro == 1000000
Val1(micro) == Quotient(micro, Micro)
Val2(micro) == micro - Micro * Val1(micro)

FractionAlwaysAdded(micro) ==      \* mutant
  ToInt16(Val1(micro) * 100 + (IF Val2(micro) < 0 THEN -Val2(micro) ELSE Val2(micro)) \div 10000)

\* ambient_read_centi_c of a sensor_value, which is kept in millionths
AmbientCenti(micro) == ToInt16(Val1(micro) * 100 + Quotient(Val2(micro), 10000))

-----------------------------------------------------------------------------
(* The two bytes of a nullable attribute, and what the host makes of them *)

NullBits(signed) == IF signed THEN 32768 ELSE 65535
Bytes(bits) == <<bits % 256, bits \div 256>>
Bits(bytes) == bytes[1] + 256 * bytes[2]

\* ...::MeasuredValue::Set refuses the value whose bits mean null.
Representable(signed, x) == ToUint16(x) # NullBits(signed)

Unread == 1000000      \* what _read has when it raises: no number of 16 bits

\* chip-tool prints a number or null, ChipTool._read finds the number.
HostReads(signed, bits) ==
  IF bits = NullBits(signed) THEN Unread
  ELSE IF signed THEN ToInt16(bits) ELSE bits

-----------------------------------------------------------------------------
(* How far the numbers may be from what was measured *)

\* A hundredth of a degree, towards zero, up to the largest 16-bit number
TempAccurate(centi, tempF) ==
  LET error == 9 * centi - 500 * (tempF - 32)
  IN  \/ error \in -8..8
      \/ centi = INT16_MAX /\ error < 0

AmbientAccurate(centi, micro) == 10000 * centi - micro \in -9999..9999
=============================================================================
