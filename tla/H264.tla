---------------------------------- MODULE H264 ----------------------------------
(***************************************************************************)
(* The H.264 byte streams of the encoders (egfx/h264.rs and the writer of  *)
(* headers in egfx/vaapi.rs): bits and bytes as sequences of numbers, NAL  *)
(* units behind start codes, the parameter sets found in them and kept for *)
(* later frames, and the choice of a level.                                *)
(***************************************************************************)
EXTENDS Integers, Sequences, FiniteSets, SequencesExt

-----------------------------------------------------------------------------
(* BitWriter.                                                              *)

(* write_bits *)
Bits(value, n) == [i \in 1..n |-> (value \div 2^(n - i)) % 2]

(* The number of significant bits of a positive number.                    *)
SignificantBits(value) == CHOOSE n \in 1..32 : 2^(n - 1) <= value /\ value < 2^n

(* Mutant: one leading zero too few.                                       *)
UeShort(value) ==
  LET n == SignificantBits(value + 1) IN Bits(0, IF n > 2 THEN n - 2 ELSE n - 1) \o Bits(value + 1, n)
(* write_ue *)
Ue(value) == LET n == SignificantBits(value + 1) IN Bits(0, n - 1) \o Bits(value + 1, n)

(* write_se *)
Se(value) == Ue(IF value > 0 THEN value * 2 - 1 ELSE -value * 2)

(* write_rbsp_trailing_bits *)
Trailed(bits) == LET stop == Append(bits, 1) IN stop \o Bits(0, (8 - (Len(stop) % 8)) % 8)

Bytes(bits) ==
  LET padded == bits \o Bits(0, (8 - (Len(bits) % 8)) % 8)
      Byte(i) == FoldLeft(LAMBDA value, bit : value * 2 + bit, 0, SubSeq(padded, 8 * i - 7, 8 * i))
  IN [i \in 1..(Len(padded) \div 8) |-> Byte(i)]

(* Mutant: the stuffing leaves the bytes 3 alone.                          *)
StuffedBelow(bytes) ==
  LET Step(s, byte) ==
        LET stuff == s.zeros >= 2 /\ byte < 3
        IN [out |-> s.out \o (IF stuff THEN <<3, byte>> ELSE <<byte>>),
            zeros |-> IF byte = 0 THEN (IF stuff THEN 1 ELSE s.zeros + 1) ELSE 0]
  IN FoldLeft(Step, [out |-> <<>>, zeros |-> 0], bytes).out
(* finish_with_emulation_prevention *)
Stuffed(bytes) ==
  LET Step(s, byte) ==
        LET stuff == s.zeros >= 2 /\ byte <= 3
        IN [out |-> s.out \o (IF stuff THEN <<3, byte>> ELSE <<byte>>),
            zeros |-> IF byte = 0 THEN (IF stuff THEN 1 ELSE s.zeros + 1) ELSE 0]
  IN FoldLeft(Step, [out |-> <<>>, zeros |-> 0], bytes).out

-----------------------------------------------------------------------------
(* generate_packed_slice_header: the header's bits behind the start code.  *)
SliceHeader(idr, frameNum, idrPicId, poc) ==
  <<0, 1, 1>> \o Bits(IF idr THEN 5 ELSE 1, 5)
  \o Ue(0) \o Ue(IF idr THEN 7 ELSE 5) \o Ue(0) \o Bits(frameNum % 256, 8)
  \o (IF idr THEN Ue(idrPicId) ELSE <<>>) \o Bits(poc % 256, 8)
  \o (IF idr THEN <<0, 0>> ELSE <<0, 0, 0>> \o Ue(0))
  \o Se(0) \o Ue(0) \o Se(0) \o Se(0)

Macroblocks(pixels) == (pixels + 15) \div 16
(* Mutant: the crop counts pixels, not pairs of them.                      *)
CropPixels(pixels) == Macroblocks(pixels) * 16 - pixels
CropOf(pixels) == (Macroblocks(pixels) * 16 - pixels) \div 2

(* generate_sps_pps: the two sets behind their start codes.  A stream is   *)
(* [high, level, width, height, references, fps, picInitQp].               *)
Word(value) == Bits(0, 16) \o Bits(value, 16)
Vui(stream) ==
  <<1, 0, 0, 1>> \o Bits(5, 3) \o <<1, 1>> \o Bits(1, 8) \o Bits(1, 8) \o Bits(1, 8)
  \o <<0, 1>> \o Word(1) \o Word(stream.fps * 2) \o <<0, 0, 0, 0, 1, 1>>
  \o Ue(0) \o Ue(0) \o Ue(16) \o Ue(16) \o Ue(0) \o Ue(stream.references)
Sps(stream) ==
  LET crop == <<CropOf(stream.width), CropOf(stream.height)>>
  IN <<0, 1, 1>> \o Bits(7, 5) \o Bits(IF stream.high THEN 100 ELSE 77, 8) \o Bits(0, 8)
     \o Bits(stream.level, 8) \o Ue(0)
     \o (IF stream.high THEN Ue(1) \o Ue(0) \o Ue(0) \o <<0, 0>> ELSE <<>>)
     \o Ue(4) \o Ue(0) \o Ue(4) \o Ue(stream.references) \o <<0>>
     \o Ue(Macroblocks(stream.width) - 1) \o Ue(Macroblocks(stream.height) - 1) \o <<1, 1>>
     \o (IF crop = <<0, 0>> THEN <<0>> ELSE <<1>> \o Ue(0) \o Ue(crop[1]) \o Ue(0) \o Ue(crop[2]))
     \o Vui(stream)
Pps(stream) ==
  <<0, 1, 1>> \o Bits(8, 5) \o Ue(0) \o Ue(0) \o <<1, 0>> \o Ue(0) \o Ue(0) \o Ue(0) \o <<0, 0, 0>>
  \o Se(stream.picInitQp - 26) \o Se(0) \o Se(0) \o <<1, 0, 0>>
  \o (IF stream.high THEN <<1, 0>> ELSE <<0, 0>>) \o Se(0)
GenerateSpsPps(stream) ==
  <<0, 0, 0, 1>> \o Stuffed(Bytes(Trailed(Sps(stream)))) \o <<0, 0, 0, 1>> \o Stuffed(Bytes(Trailed(Pps(stream))))

-----------------------------------------------------------------------------
(* extract_sps_pps and annex_b_nal_types.                                  *)

Here(data, i, code) == i + Len(code) - 1 <= Len(data) /\ SubSeq(data, i, i + Len(code) - 1) = code
ShortCode == <<0, 0, 1>>
LongCode == <<0, 0, 0, 1>>
StartCodeLength(data, i) ==
  IF Here(data, i, LongCode) THEN 4 ELSE IF Here(data, i, ShortCode) THEN 3 ELSE 0

NalType(byte) == byte % 32
SpsType == 7
PpsType == 8

(* Mutant: the first zero of a long start code stays with the unit.        *)
NalEndLate(data, start) ==
  LET codes == {j \in (start + 1)..Len(data) : Here(data, j, ShortCode)}
  IN IF codes = {} THEN Len(data) + 1 ELSE CHOOSE j \in codes : \A k \in codes : j <= k
(* Where the unit that begins at start ends: before the next start code,   *)
(* less one zero byte before it.                                           *)
NalEnd(data, start) ==
  LET codes == {j \in (start + 1)..Len(data) : Here(data, j, ShortCode) \/ Here(data, j, LongCode)}
      next == CHOOSE j \in codes : \A k \in codes : j <= k
  IN IF codes = {} THEN Len(data) + 1 ELSE IF data[next - 1] = 0 THEN next - 1 ELSE next

RECURSIVE ParameterSetsFrom(_, _)
ParameterSetsFrom(data, i) ==
  IF i > Len(data) THEN <<>>
  ELSE LET code == StartCodeLength(data, i)
           start == i + code
           end == NalEnd(data, start)
       IN IF code = 0 THEN ParameterSetsFrom(data, i + 1)
          ELSE IF start > Len(data) THEN <<>>
          ELSE (IF NalType(data[start]) \in {SpsType, PpsType} THEN SubSeq(data, i, end - 1) ELSE <<>>)
               \o ParameterSetsFrom(data, end)

ExtractSpsPps(data) == ParameterSetsFrom(data, 1)

RECURSIVE NalTypesFrom(_, _)
NalTypesFrom(data, i) ==
  IF i > Len(data) THEN <<>>
  ELSE LET code == StartCodeLength(data, i)
       IN IF code = 0 THEN NalTypesFrom(data, i + 1)
          ELSE IF i + code > Len(data) THEN <<>>
          ELSE <<NalType(data[i + code])>> \o NalTypesFrom(data, i + code + 1)

AnnexBNalTypes(data) == NalTypesFrom(data, 1)

-----------------------------------------------------------------------------
(* h264_level: level, MaxMBPS, MaxFS, MaxDpbMbs and MaxBR.                 *)
Levels ==
  <<<<30, 40500, 1620, 8100, 10000>>, <<31, 108000, 3600, 18000, 14000>>,
    <<32, 216000, 5120, 20480, 20000>>, <<40, 245760, 8192, 32768, 20000>>,
    <<41, 245760, 8192, 32768, 50000>>, <<42, 522240, 8704, 34816, 50000>>,
    <<50, 589824, 22080, 110400, 135000>>, <<51, 983040, 36864, 184320, 240000>>,
    <<52, 2073600, 36864, 184320, 240000>>>>

(* Mutant: "selecting by MaxMBPS alone".                                   *)
AdmitsRate(row, stream) == Macroblocks(stream.width) * Macroblocks(stream.height) * stream.fps <= row[2]
Admits(row, stream) ==
  LET w == Macroblocks(stream.width)
      h == Macroblocks(stream.height)
      factor == IF stream.high THEN 1500 ELSE 1200
  IN /\ w * h * stream.fps <= row[2] /\ w * h <= row[3]
     /\ w * w <= 8 * row[3] /\ h * h <= 8 * row[3]
     /\ stream.references <= row[4] \div (w * h) /\ stream.references <= 16
     /\ stream.bitrate <= row[5] * factor

NoLevel == 0
H264Level(stream) ==
  LET rows == {i \in DOMAIN Levels : Admits(Levels[i], stream)}
  IN IF stream.width = 0 \/ stream.height = 0 \/ stream.fps = 0 \/ rows = {} THEN NoLevel
     ELSE Levels[CHOOSE i \in rows : \A j \in rows : i <= j][1]

(* vaapi_rate_control_policy and vaapi_rate_control_parameters.            *)
RateControl(bitrate, quality, mode) ==
  LET qp == IF quality > 51 THEN 51 ELSE quality
  IN IF mode = "vbr"
     THEN [bitrate |-> bitrate, picInitQp |-> 26, min |-> 0, max |-> IF qp < 1 THEN 1 ELSE qp,
           hrd |-> bitrate > 0]
     ELSE [bitrate |-> 0, picInitQp |-> qp, min |-> qp, max |-> qp, hrd |-> FALSE]
===============================================================================
