------------------------------- MODULE Base64 -------------------------------
(***************************************************************************)
(* b64.c and the procedure base64-decode of main.c.  A text is a sequence  *)
(* of the values that decode_tab has for its characters, 0 to 63, and of   *)
(* PAD for "=".  Other characters do not occur.                            *)
(***************************************************************************)
EXTENDS Integers, Sequences

PAD == 64

(* Fault: the bytes of a block that padding ends are lost.                 *)
base64_decodeFull(src) ==
  LET out[k \in 0 .. Len(src)] ==
        IF k < 4 THEN << >>
        ELSE LET blk == SubSeq(src, k - 3, k)
             IN  out[k - 1] \o
                 IF k % 4 # 0 \/ PAD \in {blk[x] : x \in 1 .. 4} THEN << >>
                 ELSE <<4 * blk[1] + (blk[2] \div 16), 16 * (blk[2] % 16) + (blk[3] \div 4),
                        64 * (blk[3] % 4) + blk[4]>>
  IN  out[Len(src)]

(* Padding ends the text.                                                  *)
Unpadded(src) ==
  LET ends == {k \in 1 .. Len(src) : src[k] = PAD}
  IN  IF ends = {} THEN src
      ELSE SubSeq(src, 1, (CHOOSE k \in ends : \A j \in ends : k <= j) - 1)

(* Each value but the first of a block of four completes a byte.           *)
Completed(text, k) ==
  CASE k % 4 = 1 -> << >>
    [] k % 4 = 2 -> <<(4 * text[k - 1]) + (text[k] \div 16)>>
    [] k % 4 = 3 -> <<(16 * (text[k - 1] % 16)) + (text[k] \div 4)>>
    [] k % 4 = 0 -> <<(64 * (text[k - 1] % 4)) + text[k]>>

Decoding(text) ==
  LET out[k \in 0 .. Len(text)] ==
        IF k = 0 THEN << >> ELSE out[k - 1] \o Completed(text, k)
  IN out

base64_decode(src) == LET text == Unpadded(src) IN Decoding(text)[Len(text)]

(* The size of the buffer that scheme_base64_decode allocates.             *)
BufferSize(src) == ((Len(src) * 3) \div 4) + 1

(* mk_string copies up to the first zero byte.                             *)
mk_string(s) ==
  LET zeros == {k \in 1 .. Len(s) : s[k] = 0}
  IN  IF zeros = {} THEN s
      ELSE SubSeq(s, 1, (CHOOSE k \in zeros : \A j \in zeros : k <= j) - 1)

scheme_base64_decode(src) ==
  [string |-> mk_string(base64_decode(src)),
   written |-> Len(base64_decode(src)) + 1, size |-> BufferSize(src)]
=============================================================================
