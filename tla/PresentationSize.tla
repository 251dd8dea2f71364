--------------------------- MODULE PresentationSize ---------------------------
(***************************************************************************)
(* The size policy of src/src/capture/mod.rs: how a requested desktop size *)
(* becomes the presentation size of a stream.  A size is <<width, height>>.*)
(*                                                                         *)
(* The code scales with f64 factors.  A product that is a whole number may *)
(* come out one ulp low and be floored to the integer below it; "under"    *)
(* says that it did, and every property is stated for both roundings.      *)
(***************************************************************************)
EXTENDS Integers

CONSTANTS MaxLong,      \* H264_SOFTWARE_MAX_LONG_DIMENSION (3840 in the code)
          MaxShort      \* H264_SOFTWARE_MAX_SHORT_DIMENSION (2160)

ASSUME LimitsAssumption ==
  /\ MaxLong \in Nat /\ MaxShort \in Nat
  /\ MaxLong >= MaxShort /\ MaxShort >= 2
  /\ MaxLong % 2 = 0 /\ MaxShort % 2 = 0

Even(n) == n - (n % 2)

AtLeast(n, least) == IF n < least THEN least ELSE n

Longer(size) == IF size[1] < size[2] THEN size[2] ELSE size[1]

Shorter(size) == IF size[1] < size[2] THEN size[1] ELSE size[2]

IsEmpty(size) == size[1] = 0 \/ size[2] = 0

(* floor(n as f64 * (num as f64 / den as f64)) *)
ScaledFloor(n, num, den, under) ==
  LET exact == (n * num) \div den
  IN  IF under /\ (n * num) % den = 0 THEN exact - 1 ELSE exact

(* clamp_to_h264_software_limits: even dimensions inside the encoder       *)
(* limits, the tighter of the two factors applied to both dimensions.      *)
ClampToLimits(size, under) ==
  LET even  == <<Even(size[1]), Even(size[2])>>
      long  == Longer(even)
      short == Shorter(even)
      byLong == MaxLong * short <= MaxShort * long
      fit(n) == Even(AtLeast(IF byLong THEN ScaledFloor(n, MaxLong, long, under)
                                       ELSE ScaledFloor(n, MaxShort, short, under), 2))
  IN  IF IsEmpty(even) \/ (long <= MaxLong /\ short <= MaxShort)
      THEN even
      ELSE <<fit(even[1]), fit(even[2])>>

(* Mutants of FitToSource: no lower bound on the source, and no shrink.    *)
FitUnbounded(size, source) ==
  LET fitW == Even(source[1])
      fitH == Even(source[2])
  IN  IF size[1] <= fitW \/ size[2] <= fitH THEN size
      ELSE IF size[1] * fitH <= size[2] * fitW
           THEN <<fitW, (size[2] * fitW) \div size[1]>>
           ELSE <<(size[1] * fitH) \div size[2], fitH>>
NeverFit(size, source) == size

(* The aspect-preserving shrink of normalize_presentation_size, before the *)
(* encoder limits.                                                         *)
FitToSource(size, source) ==
  LET fitW == Even(AtLeast(source[1], 2))
      fitH == Even(AtLeast(source[2], 2))
      padded == (size[1] * fitH) \div size[2]
  IN  IF size[1] <= fitW \/ size[2] <= fitH THEN size
      ELSE IF size[1] * fitH <= size[2] * fitW
           THEN <<fitW, (size[2] * fitW) \div size[1]>>
           ELSE <<padded - (padded % (IF padded >= 4 THEN 4 ELSE 2)), fitH>>

(* Mutant: the encoder limits first, the source second.                    *)
LimitsBeforeSource(size, source, under) ==
  LET even == <<Even(size[1]), Even(size[2])>>
  IN  IF IsEmpty(even) \/ IsEmpty(source) THEN <<0, 0>>
      ELSE FitToSource(ClampToLimits(even, under), source)

(* normalize_presentation_size *)
NormalizePresentationSize(size, source, under) ==
  LET even == <<Even(size[1]), Even(size[2])>>
  IN  IF IsEmpty(even) \/ IsEmpty(source) THEN <<0, 0>>
      ELSE ClampToLimits(FitToSource(even, source), under)

(* startup_presentation_size *)
StartupPresentationSize(physical, fixed, configured, source, under) ==
  IF ~physical THEN configured
  ELSE IF fixed THEN ClampToLimits(configured, under)
  ELSE NormalizePresentationSize(source, source, under)
===============================================================================
