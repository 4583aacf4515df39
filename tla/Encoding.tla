------------------------------ MODULE Encoding ------------------------------
(***************************************************************************)
(* The character codecs of src/encoding.c, built with                      *)
(* SCM_STRICT_ENCODING_CHECK (the default of configure.ac and              *)
(* meson.build).  A byte string is a sequence of bytes.  A codec is named  *)
(* by what its encoding method returns; its three methods are scan_char,   *)
(* which finds the first character, str2int and int2str, which convert a   *)
(* character between its bytes and its code.                               *)
(***************************************************************************)
EXTENDS Integers, Sequences

Byte == 0 .. \hFF

Codecs == {"UTF-8", "EUC-JP", "EUC-CN", "EUC-KR", "Shift_JIS", "ISO-8859-1"}

SCM_MB_MAX_LEN == 4

SCM_ICHAR_EOF == -1

(***************************************************************************)
(* ScmMultibyteCharInfo: how many bytes the character takes, and whether   *)
(* it is broken or needs more bytes (RETURN, RETURN_ERROR and              *)
(* RETURN_INCOMPLETE).                                                     *)
(***************************************************************************)
Return(n) == [size |-> n, flag |-> "none"]

ReturnError == [size |-> 1, flag |-> "error"]

ReturnIncomplete(n) == [size |-> n, flag |-> "incomplete"]

(***************************************************************************)
(* The regions of ISO/IEC 2022, of RFC 3629 and of Shift_JIS.              *)
(***************************************************************************)
ASCII == 0 .. \h7F

GR94 == \hA1 .. \hFE

GR96 == \hA0 .. \hFF

GR_SPC_OR_DEL == {\hA0, \hFF}

SS2 == \h8E

SS3 == \h8F

IS_TRAILING == \h80 .. \hBF

IS_LEN2 == \hC0 .. \hDF

IS_LEN3 == \hE0 .. \hEF

IS_LEN4 == \hF0 .. \hF7

IS_KANA == \hA1 .. \hDF

IS_LEAD == (\h81 .. \hFC) \ (IS_KANA \cup {\hA0})

IS_TRAIL == (\h40 .. \hFC) \ {\h7E}

(***************************************************************************)
(* A character whose i-th byte is in form[i]: the scanners compare byte    *)
(* after byte and stop at the first one that does not fit, or when the     *)
(* string ends.                                                            *)
(***************************************************************************)
Match(s, form) ==
  IF \E i \in 1 .. Len(form) : i <= Len(s) /\ s[i] \notin form[i]
  THEN ReturnError
  ELSE IF Len(s) < Len(form) THEN ReturnIncomplete(Len(s))
  ELSE Return(Len(form))

utf8_scan_char(s) ==
  CASE s[1] \in ASCII   -> Match(s, <<ASCII>>)
    [] s[1] \in IS_LEN2 -> Match(s, <<IS_LEN2, IS_TRAILING>>)
    [] s[1] \in IS_LEN3 -> Match(s, <<IS_LEN3, IS_TRAILING, IS_TRAILING>>)
    [] s[1] \in IS_LEN4 ->
         Match(s, <<IS_LEN4, IS_TRAILING, IS_TRAILING, IS_TRAILING>>)
    [] OTHER            -> ReturnError

(* A single shift followed by a space or a delete of GR is a character of  *)
(* two bytes.                                                              *)
eucjp_scan_char(s) ==
  CASE s[1] \in ASCII               -> Match(s, <<ASCII>>)
    [] s[1] \in GR94 \cup {SS2}     -> Match(s, <<GR94 \cup {SS2}, GR96>>)
    [] s[1] = SS3 /\ Len(s) >= 2 /\ s[2] \in GR_SPC_OR_DEL ->
         Match(s, <<{SS3}, GR_SPC_OR_DEL>>)
    [] s[1] = SS3 /\ ~(Len(s) >= 2 /\ s[2] \in GR_SPC_OR_DEL) ->
         Match(s, <<{SS3}, GR94, GR94>>)
    [] OTHER                        -> ReturnError

(* euccn_scan_char and euckr_scan_char are the same function. *)
euc_scan_char(s) ==
  CASE s[1] \in ASCII -> Match(s, <<ASCII>>)
    [] s[1] \in GR94  -> Match(s, <<GR94, GR96>>)
    [] OTHER          -> ReturnError

sjis_scan_char(s) ==
  IF s[1] \in IS_LEAD THEN Match(s, <<IS_LEAD, IS_TRAIL>>) ELSE Return(1)

scan_char(codec, s) ==
  IF s = <<>> THEN Return(0)
  ELSE CASE codec = "UTF-8"      -> utf8_scan_char(s)
         [] codec = "EUC-JP"     -> eucjp_scan_char(s)
         [] codec = "EUC-CN"     -> euc_scan_char(s)
         [] codec = "EUC-KR"     -> euc_scan_char(s)
         [] codec = "Shift_JIS"  -> sjis_scan_char(s)
         [] codec = "ISO-8859-1" -> Return(1)

(* A mutant of utf8_str2int: a mask of the lead byte of two is too narrow. *)
utf8_str2int_masked(s) ==
  CASE Len(s) = 1 -> s[1]
    [] Len(s) = 2 -> (s[1] % 16) * 64 + (s[2] % 64)
    [] Len(s) = 3 -> (s[1] % 16) * 4096 + (s[2] % 64) * 64 + (s[3] % 64)
    [] Len(s) = 4 -> (s[1] % 8) * 262144 + (s[2] % 64) * 4096
                       + (s[3] % 64) * 64 + (s[4] % 64)
    [] OTHER      -> SCM_ICHAR_EOF

(***************************************************************************)
(* The code of the character in the bytes s.                               *)
(***************************************************************************)
utf8_str2int(s) ==
  CASE Len(s) = 1 -> s[1]
    [] Len(s) = 2 -> (s[1] % 32) * 64 + (s[2] % 64)
    [] Len(s) = 3 -> (s[1] % 16) * 4096 + (s[2] % 64) * 64 + (s[3] % 64)
    [] Len(s) = 4 -> (s[1] % 8) * 262144 + (s[2] % 64) * 4096
                       + (s[3] % 64) * 64 + (s[4] % 64)
    [] OTHER      -> SCM_ICHAR_EOF

(* eucjp_str2int; dbc_str2int and unibyte_str2int refuse the longer ones. *)
euc_str2int(s, max) ==
  CASE Len(s) = 1               -> s[1]
    [] Len(s) = 2 /\ max >= 2   -> s[1] * 256 + s[2]
    [] Len(s) = 3 /\ max >= 3   -> s[1] * 65536 + s[2] * 256 + s[3]
    [] OTHER                    -> SCM_ICHAR_EOF

str2int(codec, s) ==
  CASE codec = "UTF-8"      -> utf8_str2int(s)
    [] codec = "EUC-JP"     -> euc_str2int(s, 3)
    [] codec = "ISO-8859-1" -> euc_str2int(s, 1)
    [] OTHER                -> euc_str2int(s, 2)

(***************************************************************************)
(* The bytes of the character ch, or the empty string where int2str        *)
(* returns NULL.                                                           *)
(***************************************************************************)
Trailing(ch, i) ==
  \h80 + ((CASE i = 0 -> ch [] i = 1 -> ch \div 64 [] i = 2 -> ch \div 4096) % 64)

utf8_int2str(ch) ==
  CASE ch <= \h7F -> <<ch>>
    [] \h7F < ch /\ ch <= \h7FF -> <<\hC0 + (ch \div 64), Trailing(ch, 0)>>
    [] \h7FF < ch /\ ch <= \hFFFF ->
         <<\hE0 + (ch \div 4096), Trailing(ch, 1), Trailing(ch, 0)>>
    [] \hFFFF < ch /\ ch <= \h10FFFF ->
         <<\hF0 + (ch \div 262144), Trailing(ch, 2), Trailing(ch, 1),
           Trailing(ch, 0)>>
    [] OTHER -> <<>>

(* The bytes seq of a character if each one is in its region. *)
Checked(seq, form) ==
  IF \A i \in 1 .. Len(form) : seq[i] \in form[i] THEN seq ELSE <<>>

eucjp_int2str(ch) ==
  CASE ch <= \h7F -> <<ch>>
    [] \h7F < ch /\ ch <= \hFFFF ->
         Checked(<<ch \div 256, ch % 256>>, <<GR94 \cup {SS2}, GR96>>)
    [] \hFFFF < ch /\ ch <= \h8FFFFF ->
         Checked(<<ch \div 65536, (ch \div 256) % 256, ch % 256>>,
                 <<{SS3}, GR94, GR94>>)
    [] OTHER -> <<>>

euc_int2str(ch) ==
  CASE ch <= \h7F -> <<ch>>
    [] \h7F < ch /\ ch <= \hFFFF ->
         Checked(<<ch \div 256, ch % 256>>, <<GR94, GR96>>)
    [] OTHER -> <<>>

(* The check of the trail byte is applied to the lead byte, so that it     *)
(* never fails, and a high byte that is no lead byte is dropped.           *)
sjis_int2str(ch) ==
  LET high == (ch \div 256) % 256
      low  == ch % 256
  IN  CASE ch > \hFFFF -> <<>>
        [] ch <= \hFFFF /\ high \in IS_LEAD ->
             IF high \in IS_TRAIL THEN <<high, low>> ELSE <<>>
        [] OTHER -> <<low>>

unibyte_int2str(ch) == IF ch <= \hFF THEN <<ch>> ELSE <<>>

int2str(codec, ch) ==
  CASE codec = "UTF-8"      -> utf8_int2str(ch)
    [] codec = "EUC-JP"     -> eucjp_int2str(ch)
    [] codec = "EUC-CN"     -> euc_int2str(ch)
    [] codec = "EUC-KR"     -> euc_int2str(ch)
    [] codec = "Shift_JIS"  -> sjis_int2str(ch)
    [] codec = "ISO-8859-1" -> unibyte_int2str(ch)

(***************************************************************************)
(* The number of characters of s: a broken character counts as one of one  *)
(* byte, an incomplete one at the end as one.                              *)
(***************************************************************************)
scm_mb_strlen(codec, s) ==
  LET len[k \in 1 .. Len(s) + SCM_MB_MAX_LEN] ==
        IF k > Len(s) THEN 0
        ELSE 1 + len[k + scan_char(codec, SubSeq(s, k, Len(s))).size]
  IN  len[1]

(* What C's string functions see of a buffer: the bytes before the first 0. *)
CString(s) ==
  IF \E i \in 1 .. Len(s) : s[i] = 0
  THEN SubSeq(s, 1, (CHOOSE i \in 1 .. Len(s) :
                       s[i] = 0 /\ \A j \in 1 .. (i - 1) : s[j] # 0) - 1)
  ELSE s

(***************************************************************************)
(* The characters whose bytes are read back as the same character: all     *)
(* that int2str accepts, except for Shift_JIS, where int2str accepts codes *)
(* that are no character of the encoding.                                  *)
(***************************************************************************)
Encodable(codec, ch) ==
  /\ int2str(codec, ch) # <<>>
  /\ codec = "Shift_JIS" =>
       \/ ch \in Byte \ IS_LEAD
       \/ ch \div 256 \in IS_LEAD /\ ch % 256 \in IS_TRAIL
=============================================================================
