------------------------------ MODULE VideoEncoder ------------------------------
(***************************************************************************)
(* The AVC420 encoders (egfx/vaapi.rs and H264Encoder of egfx/h264.rs) and *)
(* what the capture threads do with their result (capture/frame.rs and     *)
(* wayland/dmabuf_capture.rs).  Pictures are numbered; a reconstruction    *)
(* surface holds the number of a picture, or Garbage after a failed        *)
(* rendering; parameter sets are numbered by the picture that made them.   *)
(* The VA-API driver and OpenH264 are external: either may fail, and the   *)
(* second may skip a frame.                                                *)
(***************************************************************************)
EXTENDS Integers, Sequences, FiniteSets

CONSTANTS
  IdrInterval,   \* IDR_INTERVAL
  MaxFrameNum,   \* 2 ^ 8, of frame_num and pic_order_cnt_lsb
  IdrPicIds,     \* the 16 of h264_idr_pic_id
  MaxPictures    \* bound on the encoded pictures

ASSUME EncoderAssumption ==
  /\ IdrInterval \in Nat \ {0} /\ MaxFrameNum \in Nat /\ 2 * IdrInterval <= MaxFrameNum
  /\ IdrPicIds \in Nat /\ IdrPicIds > 1 /\ MaxPictures \in Nat

NoEntry == [surface |-> 0, num |-> 0, poc |-> 0]
NoPicture == 0
Garbage == -1
NoSets == 0
NothingSent ==
  [idr |-> FALSE, num |-> 0, poc |-> 0, id |-> 0, picture |-> NoPicture, reference |-> NoPicture, sets |-> NoSets]

VARIABLES
  backend,    \* "vaapi" or "software"
  venc,       \* the encoder: [force, count, base, idrs, recon, coded, last, cached, packed]
  content,    \* the picture in each reconstruction surface; the software encoder's in 1
  pictures,   \* count of pictures, to number them
  sentFrame,  \* the last frame the client was sent
  idrSets,    \* history: the parameter sets of the last IDR picture sent
  lostIdrs    \* history: IDR pictures started since the last one sent

encoderVars == <<backend, venc, content, pictures, sentFrame, idrSets, lostIdrs>>

Surfaces == 1..2      \* recon_surface_pool_size
CodedBuffers == 1..3  \* CODED_BUFFER_COUNT
After(n, pool) == IF n + 1 \in pool THEN n + 1 ELSE 1

EncoderInit ==
  /\ backend \in {"vaapi", "software"}
  /\ \E packed \in BOOLEAN :
       venc = [force |-> TRUE, count |-> 0, base |-> 0, idrs |-> 0, recon |-> 1, coded |-> 1,
               last |-> NoEntry, cached |-> NoSets, packed |-> packed]
  /\ content = [s \in Surfaces |-> NoPicture]
  /\ pictures = 0 /\ sentFrame = NothingSent /\ idrSets = NoSets /\ lostIdrs = 0

-----------------------------------------------------------------------------
(* is_idr_frame *)
IsIdrFrame == venc.force \/ venc.count % IdrInterval = 0

(* slice_numbering *)
Numbering(e) == <<(e.count - e.base) % MaxFrameNum, ((e.count - e.base) * 2) % MaxFrameNum>>

(* Mutant: the identifier is the frame's number.                           *)
IdFromFrameNum(e) == (e.count - e.base) % IdrPicIds
(* h264_idr_pic_id *)
IdrPicId(e) == e.idrs % IdrPicIds

(* The counters and pools when the input surface is chosen, and when the   *)
(* picture's parameters are made: an IDR picture rebases the numbers and   *)
(* forgets the reference.                                                  *)
Advanced(e) == [e EXCEPT !.recon = After(@, Surfaces), !.coded = After(@, CodedBuffers)]
Started(e, idr) ==
  IF idr THEN [e EXCEPT !.base = e.count, !.last = NoEntry] ELSE e

(* What the caller does after an error or a frame that was not sent.       *)
(* Mutant: nothing.                                                        *)
KeepGoing(e) == e
ForceIdr(e) == [e EXCEPT !.force = TRUE]

(* A picture that the client receives, and one that is lost.               *)
Transmitted(frame, sent) ==
  IF sent
  THEN /\ sentFrame' = frame /\ lostIdrs' = (IF frame.idr THEN 0 ELSE lostIdrs)
       /\ idrSets' = (IF frame.idr THEN frame.sets ELSE idrSets)
  ELSE /\ UNCHANGED <<sentFrame, idrSets>>
       /\ lostIdrs' = (IF frame.idr THEN lostIdrs + 1 ELSE lostIdrs)

(* encode and encode_dmabuf, to the end.  An IDR picture gets parameter    *)
(* sets, the driver's or synthesized ones; later frames repeat them.       *)
EncodeVaapi(sent) ==
  LET idr == IsIdrFrame
      started == Started(Advanced(venc), idr)
      numbering == Numbering(started)
      picture == pictures + 1
      cached == IF idr THEN picture ELSE venc.cached
      e == [started EXCEPT !.idrs = IF idr THEN @ + 1 ELSE @,
                           !.last = [surface |-> venc.recon, num |-> numbering[1], poc |-> numbering[2]],
                           !.cached = cached, !.force = FALSE, !.count = @ + 1]
  IN /\ backend = "vaapi" /\ pictures < MaxPictures /\ pictures' = picture
     /\ content' = [content EXCEPT ![venc.recon] = picture]
     /\ venc' = IF sent THEN e ELSE ForceIdr(e)
     /\ Transmitted([idr |-> idr, num |-> numbering[1], poc |-> numbering[2], id |-> IdrPicId(started),
                     picture |-> picture, sets |-> cached,
                     reference |-> IF started.last = NoEntry THEN NoPicture
                                   ELSE content'[started.last.surface]], sent)
     /\ UNCHANGED backend

(* The input cannot be converted or imported; its image cannot be made; a  *)
(* buffer cannot be created; the rendering fails; the output is cut short. *)
FailVaapi(at) ==
  LET idr == IsIdrFrame
      advanced == IF at = "import" THEN venc ELSE Advanced(venc)
      started == IF at \in {"import", "image"} THEN advanced
                 ELSE [Started(advanced, idr) EXCEPT !.idrs = IF idr THEN @ + 1 ELSE @,
                         !.cached = IF idr /\ venc.packed /\ at # "buffer" THEN pictures + 1 ELSE @]
      numbering == Numbering(started)
      recorded == IF at # "output" THEN started
                  ELSE [started EXCEPT !.last = [surface |-> venc.recon, num |-> numbering[1], poc |-> numbering[2]]]
  IN /\ backend = "vaapi" /\ pictures < MaxPictures /\ pictures' = pictures + 1
     /\ content' = IF at \in {"import", "image", "buffer"} THEN content
                   ELSE [content EXCEPT ![venc.recon] = IF at = "output" THEN pictures + 1 ELSE Garbage]
     /\ venc' = ForceIdr(recorded)
     /\ lostIdrs' = IF idr /\ at \notin {"import", "image"} THEN lostIdrs + 1 ELSE lostIdrs
     /\ UNCHANGED <<backend, sentFrame, idrSets>>

-----------------------------------------------------------------------------
(* H264Encoder::encode: an IDR picture, whose sets are cached, when        *)
(* forced; a delta frame with the cached sets before it; or none.          *)
EncodeSoftware(kind, sent) ==
  LET picture == pictures + 1
      idr == kind = "idr"
      e == [venc EXCEPT !.force = IF kind = "skip" THEN @ ELSE FALSE,
                        !.cached = IF idr THEN picture ELSE @]
  IN /\ backend = "software" /\ pictures < MaxPictures /\ pictures' = picture
     /\ venc.force => kind # "delta"
     /\ kind = "skip" => ~sent
     /\ content' = IF kind = "skip" THEN content ELSE [content EXCEPT ![1] = picture]
     /\ venc' = IF sent \/ kind = "skip" THEN e ELSE ForceIdr(e)
     /\ IF kind = "skip" THEN UNCHANGED <<sentFrame, idrSets, lostIdrs>>
        ELSE Transmitted([idr |-> idr, num |-> 0, poc |-> 0, id |-> 0, picture |-> picture,
                          reference |-> IF idr THEN NoPicture ELSE content[1],
                          sets |-> IF idr THEN picture ELSE venc.cached], sent)
     /\ UNCHANGED backend

(* A buffer of the wrong size, or an error of OpenH264.                    *)
FailSoftware ==
  /\ backend = "software" /\ pictures < MaxPictures /\ pictures' = pictures + 1
  /\ venc' = ForceIdr(venc)
  /\ UNCHANGED <<backend, content, sentFrame, idrSets, lostIdrs>>

EncoderNext ==
  \/ \E sent \in BOOLEAN : EncodeVaapi(sent)
  \/ \E at \in {"import", "image", "buffer", "render", "output"} : FailVaapi(at)
  \/ \E kind \in {"idr", "delta", "skip"}, sent \in BOOLEAN : EncodeSoftware(kind, sent)
  \/ FailSoftware

EncoderSpec == EncoderInit /\ [][EncoderNext]_encoderVars

-----------------------------------------------------------------------------
(* The client can decode every frame it is sent, after any pattern of      *)
(* failures and frames that were not sent: a delta frame predicts from     *)
(* exactly the picture the client received last, which is still in its     *)
(* surface, with the next frame number and a later output order; an IDR    *)
(* picture starts at number 0; and both come with the parameter sets of    *)
(* the sequence they belong to.                                            *)
DecoderFollows ==
  LET frame == sentFrame'
  IN /\ frame.sets # NoSets /\ frame.sets = idrSets'
     /\ IF frame.idr THEN frame.num = 0
        ELSE /\ frame.reference = sentFrame.picture
             /\ backend = "vaapi" =>
                  frame.num = sentFrame.num + 1 /\ frame.poc > sentFrame.poc

(* "H.264 requires consecutive IDR pictures to carry different idr_pic_id  *)
(* values" (vaapi.rs:61): in the stream the client receives too, unless as *)
(* many IDR pictures as there are identifiers were lost in between.        *)
IdrIdsDiffer ==
  (sentFrame.idr /\ sentFrame'.idr /\ backend = "vaapi" /\ lostIdrs < IdrPicIds - 1)
    => sentFrame'.id # sentFrame.id

(* A decoder that gets only some of the encoded frames can decode all it   *)
(* gets.                                                                   *)
StreamDecodable ==
  [][sentFrame' # sentFrame => DecoderFollows /\ IdrIdsDiffer]_encoderVars
===============================================================================
