---------------------------- MODULE ClipboardFormats ----------------------------
(***************************************************************************)
(* Conversions between the clipboard formats of RDP and the MIME types of  *)
(* Wayland (clipboard/formats.rs, and the offers of clipboard/wayland.rs). *)
(* Text is a sequence of "cr", "lf" and other characters; an image is a    *)
(* sequence of 32-bit words.                                               *)
(***************************************************************************)
EXTENDS Naturals, Sequences

TextMimes == {"text/plain;charset=utf-8", "UTF8_STRING", "text/plain"}
Latin1 == "STRING"
FileMimes == {"text/uri-list", "x-special/gnome-copied-files"}

(* accepts_wayland_mime *)
Accepts(kind, mime) ==
  CASE kind = "text" -> mime \in TextMimes
    [] kind = "image" -> mime = "image/png"
    [] kind = "files" -> mime \in FileMimes

(* offered_wayland_mime: the first that fits; Latin-1 only for want of     *)
(* better.                                                                 *)
OfferedMime(kind, mimes) ==
  LET fitting == SelectSeq(mimes, LAMBDA mime : Accepts(kind, mime))
      latin1 == SelectSeq(mimes, LAMBDA mime : mime = Latin1)
  IN CASE fitting # <<>> -> Head(fitting)
       [] fitting = <<>> /\ kind = "text" /\ latin1 # <<>> -> Latin1
       [] OTHER -> "none"

(* What the watcher offers the desktop for a pending write, and what it    *)
(* sends for a MIME type it is asked for (data_for_mime).                  *)
Offers(kind) ==
  CASE kind = "text" -> <<"text/plain;charset=utf-8", "UTF8_STRING", "text/plain">>
    [] kind = "image" -> <<"image/png">>
    [] kind = "files" -> <<"text/uri-list", "x-special/gnome-copied-files">>

(* Mutant: only the list of the files themselves.                          *)
DataOnlyForUris(kind, mime) ==
  CASE kind \in {"text", "image"} /\ Accepts(kind, mime) -> kind
    [] kind = "files" /\ mime = "text/uri-list" -> "uri_list"
    [] OTHER -> "none"
DataForMime(kind, mime) ==
  CASE kind \in {"text", "image"} /\ Accepts(kind, mime) -> kind
    [] kind = "files" /\ mime = "text/uri-list" -> "uri_list"
    [] kind = "files" /\ mime = "x-special/gnome-copied-files" -> "gnome_copied_files"
    [] OTHER -> "none"

(* The RDP format a local kind is announced in, the kind a request for a   *)
(* format is served from, and the format asked for of those a client has   *)
(* (files are found by IronRDP).                                           *)
LocalFormat(kind) == CASE kind = "text" -> "CF_UNICODETEXT" [] kind = "image" -> "CF_DIB"
                       [] OTHER -> "none"
LocalKind(format) == CASE format = "CF_UNICODETEXT" -> "text" [] format = "CF_DIB" -> "image"
                       [] OTHER -> "none"
RemoteFormat(formats) ==
  CASE "CF_UNICODETEXT" \in formats -> "CF_UNICODETEXT"
    [] "CF_UNICODETEXT" \notin formats /\ "CF_DIBV5" \in formats -> "CF_DIBV5"
    [] formats \cap {"CF_UNICODETEXT", "CF_DIBV5"} = {} /\ "CF_DIB" \in formats -> "CF_DIB"
    [] OTHER -> "none"

-----------------------------------------------------------------------------
(* Mutant: CR and LF are one line ending each, also together.              *)
EachLineEnding(text, i) == 1
(* A CR takes the LF after it along.                                       *)
LineEnding(text, i) ==
  IF text[i] = "cr" /\ i < Len(text) /\ text[i + 1] = "lf" THEN 2 ELSE 1

(* The text with its line endings, those given, replaced by ending.        *)
Replace(text, endings, ending) ==
  LET from[i \in 1..(Len(text) + 2)] ==
        IF i > Len(text) THEN <<>>
        ELSE IF text[i] \in endings THEN ending \o from[i + LineEnding(text, i)]
        ELSE <<text[i]>> \o from[i + 1]
  IN from[1]

NormalizeLf(text) == Replace(text, {"cr"}, <<"lf">>)
ToCrlf(text) == Replace(text, {"cr", "lf"}, <<"cr", "lf">>)

(* on_format_data_request and handle_format_data_response: text as it is   *)
(* sent, and as it is understood.                                          *)
SentText(text) == ToCrlf(text) \o <<"nul">>

(* utf16le_to_utf8 stops at the terminator.                                *)
UntilNul(text) ==
  LET nuls == {i \in DOMAIN text : text[i] = "nul"}
  IN IF nuls = {} THEN text ELSE SubSeq(text, 1, (CHOOSE i \in nuls : \A j \in nuls : i <= j) - 1)

ReceivedText(sent) == NormalizeLf(UntilNul(sent))

(* Mutant: the limit is on what was read.                                  *)
DecodeUnbounded(mime, bytes, limit) ==
  LET Encoded[i \in 0..Len(bytes)] ==
        IF i = 0 THEN <<>>
        ELSE Encoded[i - 1] \o (IF bytes[i] = "high" THEN <<"c3", "tail">> ELSE <<bytes[i]>>)
  IN [ok |-> Len(bytes) <= limit, bytes |-> IF mime = Latin1 THEN Encoded[Len(bytes)] ELSE bytes]
(* decode_wayland_text_offer: a Latin-1 character above 0x7f takes two     *)
(* bytes.                                                                  *)
DecodeOffer(mime, bytes, limit) ==
  LET wide == Len(bytes) + Len(SelectSeq(bytes, LAMBDA b : b = "high"))
      Encoded[i \in 0..Len(bytes)] ==
        IF i = 0 THEN <<>>
        ELSE Encoded[i - 1] \o (IF bytes[i] = "high" THEN <<"c3", "tail">> ELSE <<bytes[i]>>)
      Decoded(text) == [ok |-> TRUE, bytes |-> text]
  IN CASE Len(bytes) <= limit /\ mime \in TextMimes -> Decoded(bytes)
       [] Len(bytes) <= limit /\ mime = Latin1 /\ wide <= limit -> Decoded(Encoded[Len(bytes)])
       [] OTHER -> [ok |-> FALSE, bytes |-> <<>>]

-----------------------------------------------------------------------------
HeaderWords == 10
MaskWords == 3
BiRgb == 0
BiBitfields == 3

(* Mutant: the masks are taken for the first pixels.                       *)
OnlyCompression(dib) ==
  IF Len(dib) < HeaderWords + MaskWords \/ dib[1] # 40 \/ dib[4] # "32bpp" \/ dib[5] # BiBitfields
  THEN <<>> ELSE [dib EXCEPT ![5] = BiRgb]
(* fix_bitfields_dib: the colour masks go, the pixels follow the header.   *)
(* Words 1, 4 and 5 are the header's size, its planes with the bit count,  *)
(* and the compression.                                                    *)
FixBitfieldsDib(dib) ==
  IF Len(dib) < HeaderWords + MaskWords \/ dib[1] # 40 \/ dib[4] # "32bpp" \/ dib[5] # BiBitfields
  THEN <<>>
  ELSE SubSeq(dib, 1, 4) \o <<BiRgb>> \o SubSeq(dib, 6, HeaderWords)
       \o SubSeq(dib, HeaderWords + MaskWords + 1, Len(dib))
===============================================================================
