----------------------------- MODULE PortProofs -----------------------------
(* Proofs that the buffer of the multibyte port never holds more than one  *)
(* character and that buffered ports implement TextStream, for every input *)
(* and every order of calls and failures; that the codecs read back the    *)
(* characters they write.                                                  *)
EXTENDS Port, SequenceTheorems, WellFoundedInduction, TLAPS

-----------------------------------------------------------------------------
(* The scanners.                                                           *)

(* A character of the given form is found, refused or awaited by its bytes *)
(* alone, whatever follows them.                                           *)
LEMMA MatchStable ==
    ASSUME NEW s \in Seq(Byte), NEW t \in Seq(Byte), NEW form, form \in Seq(SUBSET Byte),
           Match(s, form).flag # "incomplete"
    PROVE  Match(s \o t, form) = Match(s, form)
<1>1. Len(s) \in Nat /\ Len(t) \in Nat /\ Len(form) \in Nat
    OBVIOUS
<1>2. Len(s \o t) = Len(s) + Len(t)
    OBVIOUS
<1>3. \A i \in 1 .. Len(s) : (s \o t)[i] = s[i]
    OBVIOUS
<1>4. CASE \E i \in 1 .. Len(form) : i <= Len(s) /\ s[i] \notin form[i]
  <2>1. \E i \in 1 .. Len(form) : i <= Len(s \o t) /\ (s \o t)[i] \notin form[i]
      BY <1>1, <1>2, <1>3, <1>4
  <2> QED BY <1>4, <2>1 DEF Match
<1>5. CASE ~\E i \in 1 .. Len(form) : i <= Len(s) /\ s[i] \notin form[i]
  <2>1. Len(s) >= Len(form)
      BY <1>1, <1>5 DEF Match, ReturnIncomplete
  <2>2. ~\E i \in 1 .. Len(form) : i <= Len(s \o t) /\ (s \o t)[i] \notin form[i]
      BY <1>1, <1>2, <1>3, <1>5, <2>1
  <2> QED BY <1>1, <1>2, <1>5, <2>1, <2>2 DEF Match
<1> QED BY <1>4, <1>5

(* What Match returns for a string that is not empty.                      *)
LEMMA MatchCases ==
    ASSUME NEW s \in Seq(Byte), s # <<>>, NEW form, form \in Seq(SUBSET Byte)
    PROVE  \/ Match(s, form) = ReturnError
           \/ /\ Match(s, form) = ReturnIncomplete(Len(s))
              /\ Len(s) < Len(form)
              /\ \A i \in 1 .. Len(s) : s[i] \in form[i]
           \/ /\ Match(s, form) = Return(Len(form))
              /\ Len(form) <= Len(s)
              /\ \A i \in 1 .. Len(form) : s[i] \in form[i]
BY DEF Match

(* The regions of bytes.                                                   *)
LEMMA Regions ==
    /\ ASCII \in SUBSET Byte /\ GR94 \in SUBSET Byte /\ GR96 \in SUBSET Byte
    /\ GR_SPC_OR_DEL \in SUBSET Byte /\ {SS3} \in SUBSET Byte
    /\ GR94 \cup {SS2} \in SUBSET Byte
    /\ IS_TRAILING \in SUBSET Byte /\ IS_LEN2 \in SUBSET Byte /\ IS_LEN3 \in SUBSET Byte
    /\ IS_LEN4 \in SUBSET Byte /\ IS_LEAD \in SUBSET Byte /\ IS_TRAIL \in SUBSET Byte
BY DEF Byte, ASCII, GR94, GR96, GR_SPC_OR_DEL, SS2, SS3, IS_TRAILING, IS_LEN2, IS_LEN3,
       IS_LEN4, IS_LEAD, IS_TRAIL, IS_KANA

(* The forms of characters that the scanners look for.                     *)
Forms ==
    {<<ASCII>>, <<IS_LEN2, IS_TRAILING>>, <<IS_LEN3, IS_TRAILING, IS_TRAILING>>,
     <<IS_LEN4, IS_TRAILING, IS_TRAILING, IS_TRAILING>>,
     <<GR94 \cup {SS2}, GR96>>, <<{SS3}, GR_SPC_OR_DEL>>, <<{SS3}, GR94, GR94>>,
     <<GR94, GR96>>, <<IS_LEAD, IS_TRAIL>>}

(* They have one to four bytes.                                            *)
LEMMA FormsType ==
    ASSUME NEW form \in Forms
    PROVE  form \in Seq(SUBSET Byte) /\ Len(form) \in 1 .. 4
<1> DEFINE R == SUBSET Byte
<1>1. /\ ASCII \in R /\ GR94 \in R /\ GR96 \in R /\ GR_SPC_OR_DEL \in R /\ {SS3} \in R
      /\ GR94 \cup {SS2} \in R /\ IS_TRAILING \in R /\ IS_LEN2 \in R /\ IS_LEN3 \in R
      /\ IS_LEN4 \in R /\ IS_LEAD \in R /\ IS_TRAIL \in R
    BY Regions
<1> HIDE DEF R
<1>2. <<ASCII>> \in Seq(R) /\ Len(<<ASCII>>) \in 1 .. 4
    BY <1>1
<1>3. \A A, B \in R : <<A, B>> \in Seq(R) /\ Len(<<A, B>>) \in 1 .. 4
    OBVIOUS
<1>4. \A A, B, C \in R : <<A, B, C>> \in Seq(R) /\ Len(<<A, B, C>>) \in 1 .. 4
    OBVIOUS
<1>5. \A A, B, C, D \in R : <<A, B, C, D>> \in Seq(R) /\ Len(<<A, B, C, D>>) \in 1 .. 4
    OBVIOUS
<1>6. form \in Seq(R) /\ Len(form) \in 1 .. 4
  <2>1. CASE form = <<ASCII>>
      BY <1>2, <2>1
  <2>2. CASE form = <<IS_LEN2, IS_TRAILING>>
      BY <1>1, <1>3, <2>2
  <2>3. CASE form = <<IS_LEN3, IS_TRAILING, IS_TRAILING>>
      BY <1>1, <1>4, <2>3
  <2>4. CASE form = <<IS_LEN4, IS_TRAILING, IS_TRAILING, IS_TRAILING>>
      BY <1>1, <1>5, <2>4
  <2>5. CASE form = <<GR94 \cup {SS2}, GR96>>
      BY <1>1, <1>3, <2>5
  <2>6. CASE form = <<{SS3}, GR_SPC_OR_DEL>>
      BY <1>1, <1>3, <2>6
  <2>7. CASE form = <<{SS3}, GR94, GR94>>
      BY <1>1, <1>4, <2>7
  <2>8. CASE form = <<GR94, GR96>> \/ form = <<IS_LEAD, IS_TRAIL>>
      BY <1>1, <1>3, <2>8
  <2> QED BY <2>1, <2>2, <2>3, <2>4, <2>5, <2>6, <2>7, <2>8 DEF Forms
<1> QED BY <1>6 DEF R

(* Every scanner returns the same for a string that is continued, uses one *)
(* form for it, or has no form for its first byte.                         *)
LEMMA ScanForm ==
    ASSUME NEW c \in Codecs, NEW s \in Seq(Byte), NEW t \in Seq(Byte), s # <<>>
    PROVE  \/ \E form \in Forms :
                 /\ scan_char(c, s) = Match(s, form)
                 /\ \/ scan_char(c, s \o t) = Match(s \o t, form)
                    \/ s = <<SS3>> /\ form = <<{SS3}, GR94, GR94>>
                         /\ scan_char(c, s \o t) = Match(s \o t, <<{SS3}, GR_SPC_OR_DEL>>)
           \/ scan_char(c, s) = ReturnError /\ scan_char(c, s \o t) = ReturnError
           \/ scan_char(c, s) = Return(1) /\ scan_char(c, s \o t) = Return(1)
<1>1. /\ Len(s) \in Nat \ {0} /\ Len(t) \in Nat
      /\ s \o t \in Seq(Byte) /\ Len(s \o t) = Len(s) + Len(t) /\ s \o t # <<>>
    BY EmptySeq
<1>2. \A i \in 1 .. Len(s) : (s \o t)[i] = s[i]
    OBVIOUS
<1>3. (s \o t)[1] = s[1]
    BY <1>1, <1>2
<1>4. CASE c = "UTF-8"
  <2>1. scan_char(c, s) = utf8_scan_char(s) /\ scan_char(c, s \o t) = utf8_scan_char(s \o t)
      BY <1>1, <1>4 DEF scan_char
  <2>2. CASE s[1] \in ASCII
      BY <1>3, <2>1, <2>2 DEF utf8_scan_char, Forms, ASCII, IS_LEN2, IS_LEN3, IS_LEN4
  <2>3. CASE s[1] \in IS_LEN2
      BY <1>3, <2>1, <2>3 DEF utf8_scan_char, Forms, ASCII, IS_LEN2, IS_LEN3, IS_LEN4
  <2>4. CASE s[1] \in IS_LEN3
      BY <1>3, <2>1, <2>4 DEF utf8_scan_char, Forms, ASCII, IS_LEN2, IS_LEN3, IS_LEN4
  <2>5. CASE s[1] \in IS_LEN4
      BY <1>3, <2>1, <2>5 DEF utf8_scan_char, Forms, ASCII, IS_LEN2, IS_LEN3, IS_LEN4
  <2>6. CASE s[1] \notin ASCII \cup IS_LEN2 \cup IS_LEN3 \cup IS_LEN4
      BY <1>3, <2>1, <2>6 DEF utf8_scan_char
  <2> QED BY <2>2, <2>3, <2>4, <2>5, <2>6
<1>5. CASE c = "EUC-JP"
  <2>1. scan_char(c, s) = eucjp_scan_char(s) /\ scan_char(c, s \o t) = eucjp_scan_char(s \o t)
      BY <1>1, <1>5 DEF scan_char
  <2>2. CASE s[1] \in ASCII
    <3>1. s[1] \notin GR94 \cup {SS2} /\ s[1] # SS3
      <4> DEFINE b == s[1]
      <4>1. b \in ASCII
          BY <2>2
      <4> HIDE DEF b
      <4>2. b \notin GR94 /\ b # SS2 /\ b # SS3
          BY <4>1 DEF ASCII, GR94, SS2, SS3
      <4> QED BY <4>2 DEF b
    <3> QED BY <1>3, <2>1, <2>2, <3>1 DEF eucjp_scan_char, Forms
  <2>3. CASE s[1] \in GR94 \cup {SS2}
    <3>1. s[1] \notin ASCII /\ s[1] # SS3
      <4> DEFINE b == s[1]
      <4>1. b \in GR94 \cup {SS2}
          BY <2>3
      <4> HIDE DEF b
      <4>2. b \notin ASCII /\ b # SS3
          BY <4>1 DEF ASCII, GR94, SS2, SS3
      <4> QED BY <4>2 DEF b
    <3> QED BY <1>3, <2>1, <2>3, <3>1 DEF eucjp_scan_char, Forms
  <2>4. CASE s[1] = SS3
    <3>1. s[1] \notin ASCII /\ s[1] \notin GR94 \cup {SS2}
        BY <2>4 DEF ASCII, GR94, SS2, SS3
    <3>2. CASE Len(s) >= 2
      <4>1. (s \o t)[2] = s[2] /\ Len(s \o t) >= 2
          BY <1>1, <1>2, <3>2
      <4> QED BY <1>3, <2>1, <2>4, <3>1, <3>2, <4>1 DEF eucjp_scan_char, Forms
    <3>3. CASE Len(s) < 2
      <4>1. Len(s) = 1
          BY <1>1, <3>3
      <4>2. s = <<SS3>>
          BY <2>4, <4>1
      <4>3. scan_char(c, s) = Match(s, <<{SS3}, GR94, GR94>>)
          BY <2>1, <2>4, <3>1, <4>1 DEF eucjp_scan_char
      <4>4. \/ scan_char(c, s \o t) = Match(s \o t, <<{SS3}, GR94, GR94>>)
            \/ scan_char(c, s \o t) = Match(s \o t, <<{SS3}, GR_SPC_OR_DEL>>)
          BY <1>3, <2>1, <2>4, <3>1 DEF eucjp_scan_char
      <4> QED BY <4>2, <4>3, <4>4 DEF Forms
    <3>4. Len(s) >= 2 \/ Len(s) < 2
        BY <1>1
    <3> QED BY <3>2, <3>3, <3>4
  <2>5. CASE s[1] \notin ASCII \cup GR94 \cup {SS2, SS3}
      BY <1>3, <2>1, <2>5 DEF eucjp_scan_char
  <2> QED BY <2>2, <2>3, <2>4, <2>5
<1>6. CASE c \in {"EUC-CN", "EUC-KR"}
  <2>1. scan_char(c, s) = euc_scan_char(s) /\ scan_char(c, s \o t) = euc_scan_char(s \o t)
      BY <1>1, <1>6 DEF scan_char
  <2>2. CASE s[1] \in ASCII
      BY <1>3, <2>1, <2>2 DEF euc_scan_char, Forms, ASCII, GR94
  <2>3. CASE s[1] \in GR94
      BY <1>3, <2>1, <2>3 DEF euc_scan_char, Forms, ASCII, GR94
  <2>4. CASE s[1] \notin ASCII \cup GR94
      BY <1>3, <2>1, <2>4 DEF euc_scan_char
  <2> QED BY <2>2, <2>3, <2>4
<1>7. CASE c = "Shift_JIS"
    BY <1>1, <1>3, <1>7 DEF scan_char, sjis_scan_char, Forms
<1>8. CASE c = "ISO-8859-1"
    BY <1>1, <1>8 DEF scan_char
<1> QED BY <1>4, <1>5, <1>6, <1>7, <1>8 DEF Codecs

(* What a scanner returns for a string that is not empty: an error, the    *)
(* wish for more bytes, or a character at the beginning of the string.     *)
LEMMA ScanCases ==
    ASSUME NEW c \in Codecs, NEW s \in Seq(Byte), s # <<>>
    PROVE  \/ scan_char(c, s) = ReturnError
           \/ scan_char(c, s) = ReturnIncomplete(Len(s)) /\ Len(s) < SCM_MB_MAX_LEN
           \/ \E n \in 1 .. SCM_MB_MAX_LEN : n <= Len(s) /\ scan_char(c, s) = Return(n)
<1>1. Len(s) \in Nat \ {0}
    BY EmptySeq
<1>2. \/ \E form \in Forms : scan_char(c, s) = Match(s, form)
      \/ scan_char(c, s) = ReturnError
      \/ scan_char(c, s) = Return(1)
    BY ScanForm
<1>3. CASE \E form \in Forms : scan_char(c, s) = Match(s, form)
  <2>1. PICK form \in Forms : scan_char(c, s) = Match(s, form)
      BY <1>3
  <2>2. form \in Seq(SUBSET Byte) /\ Len(form) \in 1 .. 4
      BY FormsType
  <2>3. \/ Match(s, form) = ReturnError
        \/ Match(s, form) = ReturnIncomplete(Len(s)) /\ Len(s) < Len(form)
        \/ Match(s, form) = Return(Len(form)) /\ Len(form) <= Len(s)
      BY <2>2, MatchCases
  <2>4. CASE Match(s, form) = Return(Len(form)) /\ Len(form) <= Len(s)
      BY <2>1, <2>2, <2>4 DEF SCM_MB_MAX_LEN
  <2>5. CASE Match(s, form) = ReturnIncomplete(Len(s)) /\ Len(s) < Len(form)
      BY <1>1, <2>1, <2>2, <2>5 DEF SCM_MB_MAX_LEN
  <2> QED BY <2>1, <2>3, <2>4, <2>5
<1> QED BY <1>1, <1>2, <1>3 DEF SCM_MB_MAX_LEN

(* A character that is found or refused stays so, whatever bytes follow.   *)
LEMMA ScanStable ==
    ASSUME NEW c \in Codecs, NEW s \in Seq(Byte), NEW t \in Seq(Byte), s # <<>>,
           scan_char(c, s).flag # "incomplete"
    PROVE  scan_char(c, s \o t) = scan_char(c, s)
<1>1. CASE \E form \in Forms : /\ scan_char(c, s) = Match(s, form)
                               /\ scan_char(c, s \o t) = Match(s \o t, form)
    BY <1>1, MatchStable, FormsType
<1>2. CASE s = <<SS3>> /\ scan_char(c, s) = Match(s, <<{SS3}, GR94, GR94>>)
  <2>1. Match(s, <<{SS3}, GR94, GR94>>) = ReturnIncomplete(1)
      BY <1>2 DEF Match
  <2> QED BY <1>2, <2>1 DEF ReturnIncomplete
<1> QED BY <1>1, <1>2, ScanForm

(* One more byte for an unfinished character ends it at that byte, if it   *)
(* ends it.                                                                *)
LEMMA ScanGrows ==
    ASSUME NEW c \in Codecs, NEW s \in Seq(Byte), NEW b \in Byte,
           s = <<>> \/ scan_char(c, s).flag = "incomplete",
           scan_char(c, Append(s, b)).flag = "none"
    PROVE  scan_char(c, Append(s, b)).size = Len(s) + 1
<1>1. /\ Append(s, b) = s \o <<b>> /\ <<b>> \in Seq(Byte)
      /\ Append(s, b) \in Seq(Byte) /\ Append(s, b) # <<>> /\ Len(Append(s, b)) = Len(s) + 1
      /\ Len(s) \in Nat
    BY AppendProperties, AppendIsConcat
<1>2. PICK n \in 1 .. SCM_MB_MAX_LEN : n <= Len(s) + 1 /\ scan_char(c, Append(s, b)) = Return(n)
  <2>1. \/ scan_char(c, Append(s, b)) = ReturnError
        \/ scan_char(c, Append(s, b)) = ReturnIncomplete(Len(s) + 1)
        \/ \E n \in 1 .. SCM_MB_MAX_LEN : n <= Len(s) + 1 /\ scan_char(c, Append(s, b)) = Return(n)
      BY <1>1, ScanCases
  <2> QED BY <2>1 DEF ReturnError, ReturnIncomplete
<1>3. CASE s = <<>>
    BY <1>1, <1>2, <1>3 DEF Return, SCM_MB_MAX_LEN
<1>4. CASE s # <<>>
  <2>1. scan_char(c, s) = ReturnIncomplete(Len(s))
      BY <1>4, ScanCases DEF ReturnError, Return, ReturnIncomplete
  <2>2. PICK form \in Forms :
            /\ scan_char(c, s) = Match(s, form)
            /\ \/ scan_char(c, Append(s, b)) = Match(Append(s, b), form)
               \/ s = <<SS3>> /\ scan_char(c, Append(s, b))
                                    = Match(Append(s, b), <<{SS3}, GR_SPC_OR_DEL>>)
    <3>1. scan_char(c, s) # ReturnError /\ scan_char(c, s) # Return(1)
        BY <2>1 DEF ReturnError, Return, ReturnIncomplete
    <3> QED BY <1>1, <1>4, <3>1, ScanForm
  <2>3. form \in Seq(SUBSET Byte) /\ Len(form) \in 1 .. 4
      BY FormsType
  <2>4. Len(s) < Len(form)
      BY <1>4, <2>1, <2>2, <2>3, MatchCases DEF ReturnError, Return, ReturnIncomplete
  <2>5. CASE scan_char(c, Append(s, b)) = Match(Append(s, b), form)
    <3>1. Len(form) <= Len(s) + 1 /\ n = Len(form)
      <4>1. \/ Match(Append(s, b), form) = ReturnError
            \/ Match(Append(s, b), form) = ReturnIncomplete(Len(s) + 1)
            \/ Match(Append(s, b), form) = Return(Len(form)) /\ Len(form) <= Len(s) + 1
          BY <1>1, <2>3, MatchCases
      <4> QED BY <1>2, <2>5, <4>1 DEF ReturnError, Return, ReturnIncomplete
    <3> QED BY <1>1, <1>2, <2>3, <2>4, <3>1 DEF Return
  <2>6. CASE s = <<SS3>> /\ scan_char(c, Append(s, b))
                              = Match(Append(s, b), <<{SS3}, GR_SPC_OR_DEL>>)
    <3>1. <<{SS3}, GR_SPC_OR_DEL>> \in Forms /\ Len(<<{SS3}, GR_SPC_OR_DEL>>) = 2
        BY DEF Forms
    <3>2. n = 2 /\ Len(s) = 1
      <4>1. \/ scan_char(c, Append(s, b)) = ReturnError
            \/ scan_char(c, Append(s, b)) = ReturnIncomplete(Len(s) + 1)
            \/ scan_char(c, Append(s, b)) = Return(2)
          BY <1>1, <2>6, <3>1, FormsType, MatchCases
      <4> QED BY <1>2, <2>6, <4>1 DEF ReturnError, Return, ReturnIncomplete
    <3> QED BY <1>2, <3>2 DEF Return
  <2> QED BY <2>2, <2>5, <2>6
<1> QED BY <1>3, <1>4

-----------------------------------------------------------------------------
(* Characters and their bytes.                                             *)

(* A sequence whose bytes are all in the regions of a form is a character. *)
LEMMA MatchOne ==
    ASSUME NEW A \in SUBSET Byte, NEW a \in A
    PROVE  Match(<<a>>, <<A>>) = Return(1)
BY DEF Match

LEMMA MatchTwo ==
    ASSUME NEW A \in SUBSET Byte, NEW B \in SUBSET Byte, NEW a \in A, NEW b \in B
    PROVE  Match(<<a, b>>, <<A, B>>) = Return(2)
<1>1. \A i \in 1 .. 2 : i = 1 \/ i = 2
    OBVIOUS
<1> QED BY <1>1 DEF Match

LEMMA MatchThree ==
    ASSUME NEW A \in SUBSET Byte, NEW B \in SUBSET Byte, NEW C \in SUBSET Byte,
           NEW a \in A, NEW b \in B, NEW c \in C
    PROVE  Match(<<a, b, c>>, <<A, B, C>>) = Return(3)
<1>1. \A i \in 1 .. 3 : i = 1 \/ i = 2 \/ i = 3
    OBVIOUS
<1> QED BY <1>1 DEF Match

LEMMA MatchFour ==
    ASSUME NEW A \in SUBSET Byte, NEW B \in SUBSET Byte, NEW C \in SUBSET Byte, NEW D \in SUBSET Byte,
           NEW a \in A, NEW b \in B, NEW c \in C, NEW d \in D
    PROVE  Match(<<a, b, c, d>>, <<A, B, C, D>>) = Return(4)
<1>1. \A i \in 1 .. 4 : i = 1 \/ i = 2 \/ i = 3 \/ i = 4
    OBVIOUS
<1> QED BY <1>1 DEF Match

(* The digits of a number in base 64.                                      *)
LEMMA Digits ==
    ASSUME NEW ch \in Nat
    PROVE  /\ ch = (ch \div 64) * 64 + (ch % 64)
           /\ ch = (ch \div 4096) * 4096 + ((ch \div 64) % 64) * 64 + (ch % 64)
           /\ ch = (ch \div 262144) * 262144 + ((ch \div 4096) % 64) * 4096
                     + ((ch \div 64) % 64) * 64 + (ch % 64)
<1>1. ASSUME NEW n \in Nat
      PROVE  n = (n \div 64) * 64 + (n % 64) /\ n \div 64 \in Nat /\ n % 64 \in 0 .. 63
    BY SMT
<1>2. ch \div 4096 = (ch \div 64) \div 64
    BY SMT
<1>3. ch \div 262144 = (ch \div 4096) \div 64
    BY SMT
<1>4. ch = (ch \div 64) * 64 + (ch % 64) /\ ch \div 64 \in Nat
    BY <1>1
<1>5. ch \div 64 = (ch \div 4096) * 64 + ((ch \div 64) % 64) /\ ch \div 4096 \in Nat
    BY SMT, <1>1, <1>2, <1>4
<1>6. ch \div 4096 = (ch \div 262144) * 64 + ((ch \div 4096) % 64)
    BY SMT, <1>1, <1>3, <1>5
<1> QED BY SMT, <1>4, <1>5, <1>6

(* The trailing bytes of utf8_int2str() are trailing bytes, and keep six   *)
(* bits of the code each.                                                  *)
LEMMA TrailingBytes ==
    ASSUME NEW ch \in Nat
    PROVE  /\ Trailing(ch, 0) \in IS_TRAILING /\ Trailing(ch, 0) % 64 = ch % 64
           /\ Trailing(ch, 1) \in IS_TRAILING /\ Trailing(ch, 1) % 64 = (ch \div 64) % 64
           /\ Trailing(ch, 2) \in IS_TRAILING /\ Trailing(ch, 2) % 64 = (ch \div 4096) % 64
<1>1. ASSUME NEW n \in Nat
      PROVE  (128 + (n % 64)) \in 128 .. 191 /\ (128 + (n % 64)) % 64 = n % 64
    BY SMTT(10)
<1>2. Trailing(ch, 0) = 128 + (ch % 64)
    BY SMTT(10) DEF Trailing
<1>3. Trailing(ch, 1) = 128 + ((ch \div 64) % 64)
    BY SMTT(10) DEF Trailing
<1>4. Trailing(ch, 2) = 128 + ((ch \div 4096) % 64)
    BY SMTT(10) DEF Trailing
<1>5. ch \div 64 \in Nat /\ ch \div 4096 \in Nat
    BY SMTT(10)
<1>6. Trailing(ch, 0) \in IS_TRAILING /\ Trailing(ch, 0) % 64 = ch % 64
    BY SMTT(10), <1>1, <1>2 DEF IS_TRAILING
<1>7. Trailing(ch, 1) \in IS_TRAILING /\ Trailing(ch, 1) % 64 = (ch \div 64) % 64
    BY SMTT(10), <1>1, <1>3, <1>5 DEF IS_TRAILING
<1>8. Trailing(ch, 2) \in IS_TRAILING /\ Trailing(ch, 2) % 64 = (ch \div 4096) % 64
    BY SMTT(10), <1>1, <1>4, <1>5 DEF IS_TRAILING
<1> QED BY SMTT(10), <1>6, <1>7, <1>8

(* The lead bytes of UTF-8 tell the lengths apart.                         *)
LEMMA LeadBytes ==
    ASSUME NEW a
    PROVE  /\ a \in ASCII => a \notin IS_LEN2 /\ a \notin IS_LEN3 /\ a \notin IS_LEN4
           /\ a \in IS_LEN2 => a \notin ASCII /\ a \notin IS_LEN3 /\ a \notin IS_LEN4
           /\ a \in IS_LEN3 => a \notin ASCII /\ a \notin IS_LEN2 /\ a \notin IS_LEN4
           /\ a \in IS_LEN4 => a \notin ASCII /\ a \notin IS_LEN2 /\ a \notin IS_LEN3
BY DEF ASCII, IS_LEN2, IS_LEN3, IS_LEN4

(* UTF-8 reads back every code that it accepts.                            *)
LEMMA Utf8RoundTrip ==
    ASSUME NEW ch \in Nat, utf8_int2str(ch) # <<>>
    PROVE  /\ utf8_int2str(ch) \in Seq(Byte)
           /\ utf8_scan_char(utf8_int2str(ch)) = Return(Len(utf8_int2str(ch)))
           /\ Len(utf8_int2str(ch)) \in 1 .. 4
           /\ utf8_str2int(utf8_int2str(ch)) = ch
<1> DEFINE s == utf8_int2str(ch)
<1>0. IS_TRAILING \subseteq Byte
    BY Regions
<1>1. CASE ch <= 127
  <2>0. ch \in ASCII
      BY SMTT(10), <1>1 DEF ASCII
  <2>1. s = <<ch>> /\ ch \in ASCII
      BY SMTT(10), <1>1, <2>0 DEF utf8_int2str
  <2>2. utf8_scan_char(<<ch>>) = Return(1)
    <3>1. Match(<<ch>>, <<ASCII>>) = Return(1)
        BY <2>1, Regions, MatchOne
    <3> QED BY SMTT(10), <2>1, <3>1, LeadBytes DEF utf8_scan_char
  <2>3. ch \in Byte
      BY <2>1, Regions
  <2>4. utf8_str2int(<<ch>>) = ch
      BY SMTT(10) DEF utf8_str2int
  <2> QED BY SMTT(10), <2>1, <2>2, <2>3, <2>4
<1>2. CASE 127 < ch /\ ch <= 2047
  <2> DEFINE a == 192 + (ch \div 64)
             b == Trailing(ch, 0)
  <2>1. s = <<a, b>>
      BY SMTT(10), <1>2 DEF utf8_int2str
  <2>2. a \in IS_LEN2 /\ a % 32 = ch \div 64
    <3>1. ch \div 64 \in 0 .. 31
        BY SMT, <1>2
    <3> QED BY SMT, <3>1 DEF IS_LEN2
  <2>3. b \in IS_TRAILING /\ b % 64 = ch % 64
      BY SMT, TrailingBytes
  <2>4. ch = (ch \div 64) * 64 + (ch % 64)
      BY SMT, Digits
  <2> HIDE DEF a, b
  <2>5. a \in Byte /\ a \notin ASCII
      BY SMTT(10), <2>2 DEF IS_LEN2, ASCII, Byte
  <2>6. utf8_scan_char(<<a, b>>) = Return(2)
    <3>1. Match(<<a, b>>, <<IS_LEN2, IS_TRAILING>>) = Return(2)
        BY SMT, <2>2, <2>3, Regions, MatchTwo
    <3> QED BY SMTT(10), <2>2, <3>1, LeadBytes DEF utf8_scan_char
  <2>7. utf8_str2int(<<a, b>>) = ch
      BY SMTT(10), <2>2, <2>3, <2>4 DEF utf8_str2int
  <2> QED BY SMTT(10), <1>0, <2>1, <2>3, <2>5, <2>6, <2>7
<1>3. CASE 2047 < ch /\ ch <= 65535
  <2> DEFINE a == 224 + (ch \div 4096)
             b == Trailing(ch, 1)
             c == Trailing(ch, 0)
  <2>1. s = <<a, b, c>>
      BY SMTT(10), <1>3 DEF utf8_int2str
  <2>2. a \in IS_LEN3 /\ a % 16 = ch \div 4096
    <3>1. ch \div 4096 \in 0 .. 15
        BY SMT, <1>3
    <3> QED BY SMT, <3>1 DEF IS_LEN3
  <2>3. /\ b \in IS_TRAILING /\ b % 64 = (ch \div 64) % 64
        /\ c \in IS_TRAILING /\ c % 64 = ch % 64
      BY SMT, TrailingBytes
  <2>4. ch = (ch \div 4096) * 4096 + ((ch \div 64) % 64) * 64 + (ch % 64)
      BY SMT, Digits
  <2> HIDE DEF a, b, c
  <2>5. a \in Byte
      BY SMTT(10), <2>2 DEF IS_LEN3, Byte
  <2>6. utf8_scan_char(<<a, b, c>>) = Return(3)
    <3>1. Match(<<a, b, c>>, <<IS_LEN3, IS_TRAILING, IS_TRAILING>>) = Return(3)
        BY SMT, <2>2, <2>3, Regions, MatchThree
    <3> QED BY SMTT(10), <2>2, <3>1, LeadBytes DEF utf8_scan_char
  <2>7. utf8_str2int(<<a, b, c>>) = ch
      BY SMTT(10), <2>2, <2>3, <2>4 DEF utf8_str2int
  <2> QED BY SMTT(10), <1>0, <2>1, <2>3, <2>5, <2>6, <2>7
<1>4. CASE 65535 < ch /\ ch <= 1114111
  <2> DEFINE a == 240 + (ch \div 262144)
             b == Trailing(ch, 2)
             c == Trailing(ch, 1)
             d == Trailing(ch, 0)
  <2>1. s = <<a, b, c, d>>
      BY SMTT(10), <1>4 DEF utf8_int2str
  <2>2. a \in IS_LEN4 /\ a % 8 = ch \div 262144
    <3>1. ch \div 262144 \in 0 .. 7
        BY SMT, <1>4
    <3> QED BY SMT, <3>1 DEF IS_LEN4
  <2>3. /\ b \in IS_TRAILING /\ b % 64 = (ch \div 4096) % 64
        /\ c \in IS_TRAILING /\ c % 64 = (ch \div 64) % 64
        /\ d \in IS_TRAILING /\ d % 64 = ch % 64
      BY SMT, TrailingBytes
  <2>4. ch = (ch \div 262144) * 262144 + ((ch \div 4096) % 64) * 4096
               + ((ch \div 64) % 64) * 64 + (ch % 64)
      BY SMT, Digits
  <2> HIDE DEF a, b, c, d
  <2>5. a \in Byte
      BY SMTT(10), <2>2 DEF IS_LEN4, Byte
  <2>6. utf8_scan_char(<<a, b, c, d>>) = Return(4)
    <3>1. Match(<<a, b, c, d>>, <<IS_LEN4, IS_TRAILING, IS_TRAILING, IS_TRAILING>>) = Return(4)
        BY SMT, <2>2, <2>3, Regions, MatchFour
    <3> QED BY SMTT(10), <2>2, <3>1, LeadBytes DEF utf8_scan_char
  <2>7. utf8_str2int(<<a, b, c, d>>) = ch
      BY SMTT(10), <2>2, <2>3, <2>4 DEF utf8_str2int
  <2> QED BY SMTT(10), <1>0, <2>1, <2>3, <2>5, <2>6, <2>7
<1>5. CASE ch > 1114111
    BY SMTT(10), <1>5 DEF utf8_int2str
<1> QED BY SMTT(10), <1>1, <1>2, <1>3, <1>4, <1>5

(* A checked sequence has its bytes in the regions of the form.            *)
LEMMA CheckedTwo ==
    ASSUME NEW a, NEW b, NEW A, NEW B, Checked(<<a, b>>, <<A, B>>) # <<>>
    PROVE  a \in A /\ b \in B /\ Checked(<<a, b>>, <<A, B>>) = <<a, b>>
<1>1. 1 \in 1 .. Len(<<A, B>>) /\ 2 \in 1 .. Len(<<A, B>>)
    OBVIOUS
<1>2. \A i \in 1 .. Len(<<A, B>>) : <<a, b>>[i] \in <<A, B>>[i]
    BY DEF Checked
<1>3. <<a, b>>[1] \in <<A, B>>[1] /\ <<a, b>>[2] \in <<A, B>>[2]
    BY <1>1, <1>2
<1> QED BY <1>2, <1>3 DEF Checked

LEMMA CheckedThree ==
    ASSUME NEW a, NEW b, NEW c, NEW A, NEW B, NEW C,
           Checked(<<a, b, c>>, <<A, B, C>>) # <<>>
    PROVE  a \in A /\ b \in B /\ c \in C /\ Checked(<<a, b, c>>, <<A, B, C>>) = <<a, b, c>>
<1>1. 1 \in 1 .. Len(<<A, B, C>>) /\ 2 \in 1 .. Len(<<A, B, C>>) /\ 3 \in 1 .. Len(<<A, B, C>>)
    OBVIOUS
<1>2. \A i \in 1 .. Len(<<A, B, C>>) : <<a, b, c>>[i] \in <<A, B, C>>[i]
    BY DEF Checked
<1>3. /\ <<a, b, c>>[1] \in <<A, B, C>>[1] /\ <<a, b, c>>[2] \in <<A, B, C>>[2]
      /\ <<a, b, c>>[3] \in <<A, B, C>>[3]
    BY <1>1, <1>2
<1> QED BY <1>2, <1>3 DEF Checked

(* The bytes of a number.                                                  *)
LEMMA ByteDigits ==
    ASSUME NEW ch \in Nat
    PROVE  /\ ch = (ch \div 256) * 256 + (ch % 256)
           /\ ch = (ch \div 65536) * 65536 + ((ch \div 256) % 256) * 256 + (ch % 256)
<1>1. ASSUME NEW n \in Nat
      PROVE  n = (n \div 256) * 256 + (n % 256) /\ n \div 256 \in Nat /\ n % 256 \in 0 .. 255
    BY SMT
<1>2. ch \div 65536 = (ch \div 256) \div 256
    BY SMT
<1>3. ch = (ch \div 256) * 256 + (ch % 256) /\ ch \div 256 \in Nat
    BY <1>1
<1>4. ch \div 256 = (ch \div 65536) * 256 + ((ch \div 256) % 256)
    BY SMT, <1>1, <1>2, <1>3
<1> QED BY SMT, <1>3, <1>4

(* The lead bytes of EUC-JP tell the code sets apart.                      *)
LEMMA EucLeadBytes ==
    ASSUME NEW a
    PROVE  /\ a \in ASCII => a \notin GR94 \cup {SS2} /\ a # SS3 /\ a \notin GR94
           /\ a \in GR94 \cup {SS2} => a \notin ASCII /\ a # SS3
           /\ a \in GR94 => a \notin GR_SPC_OR_DEL
           /\ a \in {SS3} => a \notin ASCII /\ a \notin GR94 \cup {SS2}
BY DEF ASCII, GR94, SS2, SS3, GR_SPC_OR_DEL

(* EUC-JP reads back every code that it accepts.                           *)
LEMMA EucjpRoundTrip ==
    ASSUME NEW ch \in Nat, eucjp_int2str(ch) # <<>>
    PROVE  /\ eucjp_int2str(ch) \in Seq(Byte)
           /\ eucjp_scan_char(eucjp_int2str(ch)) = Return(Len(eucjp_int2str(ch)))
           /\ Len(eucjp_int2str(ch)) \in 1 .. 4
           /\ euc_str2int(eucjp_int2str(ch), 3) = ch
<1> DEFINE s == eucjp_int2str(ch)
<1>1. CASE ch <= 127
  <2>0. ch \in ASCII
      BY SMTT(10), <1>1 DEF ASCII
  <2>1. s = <<ch>>
      BY SMTT(10), <1>1, <2>0 DEF eucjp_int2str
  <2>2. eucjp_scan_char(<<ch>>) = Return(1)
    <3>1. Match(<<ch>>, <<ASCII>>) = Return(1)
        BY <2>0, Regions, MatchOne
    <3> QED BY SMTT(10), <2>0, <3>1, EucLeadBytes DEF eucjp_scan_char
  <2>3. ch \in Byte
      BY <2>0, Regions
  <2>4. euc_str2int(<<ch>>, 3) = ch
      BY SMTT(10) DEF euc_str2int
  <2> QED BY SMTT(10), <2>1, <2>2, <2>3, <2>4
<1>2. CASE 127 < ch /\ ch <= 65535
  <2> DEFINE a == ch \div 256
             b == ch % 256
  <2>1. s = Checked(<<a, b>>, <<GR94 \cup {SS2}, GR96>>)
      BY SMTT(10), <1>2 DEF eucjp_int2str
  <2>2. a \in GR94 \cup {SS2} /\ b \in GR96 /\ s = <<a, b>>
      BY SMT, <2>1, CheckedTwo
  <2>3. ch = a * 256 + b
      BY SMT, ByteDigits
  <2> HIDE DEF a, b
  <2>4. a \in Byte /\ b \in Byte
      BY SMT, <2>2, Regions
  <2>5. eucjp_scan_char(<<a, b>>) = Return(2)
    <3>1. Match(<<a, b>>, <<GR94 \cup {SS2}, GR96>>) = Return(2)
        BY SMT, <2>2, Regions, MatchTwo
    <3> QED BY SMTT(10), <2>2, <3>1, EucLeadBytes DEF eucjp_scan_char
  <2>6. euc_str2int(<<a, b>>, 3) = ch
      BY SMTT(10), <2>3 DEF euc_str2int
  <2> QED BY SMTT(10), <2>2, <2>4, <2>5, <2>6
<1>3. CASE 65535 < ch /\ ch <= 9437183
  <2> DEFINE a == ch \div 65536
             b == (ch \div 256) % 256
             c == ch % 256
  <2>1. s = Checked(<<a, b, c>>, <<{SS3}, GR94, GR94>>)
      BY SMTT(10), <1>3 DEF eucjp_int2str
  <2>2. a \in {SS3} /\ b \in GR94 /\ c \in GR94 /\ s = <<a, b, c>>
      BY SMT, <2>1, CheckedThree
  <2>3. ch = a * 65536 + b * 256 + c
      BY SMT, ByteDigits
  <2> HIDE DEF a, b, c
  <2>4. a \in Byte /\ b \in Byte /\ c \in Byte
      BY SMT, <2>2, Regions
  <2>5. eucjp_scan_char(<<a, b, c>>) = Return(3)
    <3>1. Match(<<a, b, c>>, <<{SS3}, GR94, GR94>>) = Return(3)
        BY SMT, <2>2, Regions, MatchThree
    <3>2. a \notin ASCII /\ a \notin GR94 \cup {SS2} /\ a = SS3 /\ b \notin GR_SPC_OR_DEL
        BY SMT, <2>2, EucLeadBytes
    <3> QED BY SMTT(10), <3>1, <3>2 DEF eucjp_scan_char
  <2>6. euc_str2int(<<a, b, c>>, 3) = ch
      BY SMTT(10), <2>3 DEF euc_str2int
  <2> QED BY SMTT(10), <2>2, <2>4, <2>5, <2>6
<1>4. CASE ch > 9437183
    BY SMTT(10), <1>4 DEF eucjp_int2str
<1> QED BY SMTT(10), <1>1, <1>2, <1>3, <1>4

(* So do EUC-CN and EUC-KR.                                                *)
LEMMA EucRoundTrip ==
    ASSUME NEW ch \in Nat, euc_int2str(ch) # <<>>
    PROVE  /\ euc_int2str(ch) \in Seq(Byte)
           /\ euc_scan_char(euc_int2str(ch)) = Return(Len(euc_int2str(ch)))
           /\ Len(euc_int2str(ch)) \in 1 .. 4
           /\ euc_str2int(euc_int2str(ch), 2) = ch
<1> DEFINE s == euc_int2str(ch)
<1>1. CASE ch <= 127
  <2>0. ch \in ASCII
      BY SMTT(10), <1>1 DEF ASCII
  <2>1. s = <<ch>>
      BY SMTT(10), <1>1, <2>0 DEF euc_int2str
  <2>2. euc_scan_char(<<ch>>) = Return(1)
    <3>1. Match(<<ch>>, <<ASCII>>) = Return(1)
        BY <2>0, Regions, MatchOne
    <3> QED BY SMTT(10), <2>0, <3>1, EucLeadBytes DEF euc_scan_char
  <2>3. ch \in Byte
      BY <2>0, Regions
  <2>4. euc_str2int(<<ch>>, 2) = ch
      BY SMTT(10) DEF euc_str2int
  <2> QED BY SMTT(10), <2>1, <2>2, <2>3, <2>4
<1>2. CASE 127 < ch /\ ch <= 65535
  <2> DEFINE a == ch \div 256
             b == ch % 256
  <2>1. s = Checked(<<a, b>>, <<GR94, GR96>>)
      BY SMTT(10), <1>2 DEF euc_int2str
  <2>2. a \in GR94 /\ b \in GR96 /\ s = <<a, b>>
      BY SMT, <2>1, CheckedTwo
  <2>3. ch = a * 256 + b
      BY SMT, ByteDigits
  <2> HIDE DEF a, b
  <2>4. a \in Byte /\ b \in Byte
      BY SMT, <2>2, Regions
  <2>5. euc_scan_char(<<a, b>>) = Return(2)
    <3>1. Match(<<a, b>>, <<GR94, GR96>>) = Return(2)
        BY SMT, <2>2, Regions, MatchTwo
    <3> QED BY SMTT(10), <2>2, <3>1, EucLeadBytes DEF euc_scan_char
  <2>6. euc_str2int(<<a, b>>, 2) = ch
      BY SMTT(10), <2>3 DEF euc_str2int
  <2> QED BY SMTT(10), <2>2, <2>4, <2>5, <2>6
<1>3. CASE ch > 65535
    BY SMTT(10), <1>3 DEF euc_int2str
<1> QED BY SMTT(10), <1>1, <1>2, <1>3

(* Shift_JIS reads back the characters of the encoding.                    *)
LEMMA SjisRoundTrip ==
    ASSUME NEW ch \in Nat, ch \in Byte \ IS_LEAD \/ (ch \div 256 \in IS_LEAD /\ ch % 256 \in IS_TRAIL)
    PROVE  /\ sjis_int2str(ch) \in Seq(Byte)
           /\ sjis_scan_char(sjis_int2str(ch)) = Return(Len(sjis_int2str(ch)))
           /\ Len(sjis_int2str(ch)) \in 1 .. 4
           /\ euc_str2int(sjis_int2str(ch), 2) = ch
<1> DEFINE s == sjis_int2str(ch)
<1>1. CASE ch \in Byte \ IS_LEAD
  <2>1. ch <= 65535 /\ (ch \div 256) % 256 = 0 /\ ch % 256 = ch
      BY SMTT(10), <1>1 DEF Byte
  <2>2. 0 \notin IS_LEAD
      BY SMTT(10) DEF IS_LEAD
  <2>3. s = <<ch>>
      BY SMTT(10), <2>1, <2>2 DEF sjis_int2str
  <2>4. sjis_scan_char(<<ch>>) = Return(1)
      BY SMTT(10), <1>1 DEF sjis_scan_char
  <2>5. euc_str2int(<<ch>>, 2) = ch
      BY SMTT(10) DEF euc_str2int
  <2> QED BY SMTT(10), <1>1, <2>3, <2>4, <2>5
<1>2. CASE ch \div 256 \in IS_LEAD /\ ch % 256 \in IS_TRAIL
  <2> DEFINE a == ch \div 256
             b == ch % 256
  <2>1. a \in Byte /\ b \in Byte
      BY SMT, <1>2, Regions
  <2>2. ch = a * 256 + b
      BY SMT, ByteDigits
  <2>3. ch <= 65535 /\ a % 256 = a
      BY SMTT(10), <2>1, <2>2 DEF Byte
  <2>4. a \in IS_TRAIL
    <3> HIDE DEF a
    <3> QED BY SMTT(10), <1>2 DEF a, IS_LEAD, IS_TRAIL, IS_KANA
  <2>5. s = <<a, b>>
      BY SMTT(10), <1>2, <2>3, <2>4 DEF sjis_int2str
  <2>6. a \in IS_LEAD /\ b \in IS_TRAIL
      BY <1>2
  <2> HIDE DEF a, b
  <2>7. sjis_scan_char(<<a, b>>) = Return(2)
    <3>1. Match(<<a, b>>, <<IS_LEAD, IS_TRAIL>>) = Return(2)
        BY SMT, <2>6, Regions, MatchTwo
    <3> QED BY SMTT(10), <2>6, <3>1 DEF sjis_scan_char
  <2>8. euc_str2int(<<a, b>>, 2) = ch
      BY SMTT(10), <2>2 DEF euc_str2int
  <2> QED BY SMTT(10), <2>1, <2>5, <2>7, <2>8
<1> QED BY SMTT(10), <1>1, <1>2

(* Every codec reads back the characters it can encode: the bytes that     *)
(* int2str writes are bytes, the scanner takes exactly them whatever       *)
(* follows, and str2int makes of them the code they were written for.      *)
THEOREM CharactersReadBack ==
    ASSUME NEW c \in Codecs, NEW ch \in Nat, Encodable(c, ch), NEW t \in Seq(Byte)
    PROVE  LET s == int2str(c, ch)
           IN  /\ s \in Seq(Byte) /\ Len(s) \in 1 .. SCM_MB_MAX_LEN
               /\ scan_char(c, s \o t) = Return(Len(s))
               /\ str2int(c, SubSeq(s \o t, 1, Len(s))) = ch
<1> DEFINE s == int2str(c, ch)
<1>1. s # <<>> /\ (c = "Shift_JIS" => \/ ch \in Byte \ IS_LEAD
                                      \/ ch \div 256 \in IS_LEAD /\ ch % 256 \in IS_TRAIL)
    BY SMT DEF Encodable
<1>2. s \in Seq(Byte) /\ Len(s) \in 1 .. 4 /\ scan_char(c, s) = Return(Len(s)) /\ str2int(c, s) = ch
  <2>1. CASE c = "UTF-8"
    <3>1. s = utf8_int2str(ch)
        BY SMT, <2>1 DEF int2str
    <3> HIDE DEF s
    <3> QED BY SMT, <1>1, <2>1, <3>1, Utf8RoundTrip DEF scan_char, str2int
  <2>2. CASE c = "EUC-JP"
    <3>1. s = eucjp_int2str(ch)
        BY SMT, <2>2 DEF int2str
    <3> HIDE DEF s
    <3> QED BY SMT, <1>1, <2>2, <3>1, EucjpRoundTrip DEF scan_char, str2int
  <2>3. CASE c \in {"EUC-CN", "EUC-KR"}
    <3>1. s = euc_int2str(ch)
        BY SMT, <2>3 DEF int2str
    <3> HIDE DEF s
    <3> QED BY SMT, <1>1, <2>3, <3>1, EucRoundTrip DEF scan_char, str2int
  <2>4. CASE c = "Shift_JIS"
    <3>1. s = sjis_int2str(ch)
        BY SMT, <2>4 DEF int2str
    <3> HIDE DEF s
    <3>2. /\ s \in Seq(Byte) /\ Len(s) \in 1 .. 4 /\ euc_str2int(s, 2) = ch
          /\ sjis_scan_char(s) = Return(Len(s))
      <4>1. ch \in Byte \ IS_LEAD \/ (ch \div 256 \in IS_LEAD /\ ch % 256 \in IS_TRAIL)
          BY Zenon, <1>1, <2>4
      <4> QED BY Zenon, <3>1, <4>1, SjisRoundTrip
    <3> QED BY SMT, <1>1, <2>4, <3>2 DEF scan_char, str2int
  <2>5. CASE c = "ISO-8859-1"
    <3>0. s = unibyte_int2str(ch)
        BY SMT, <2>5 DEF int2str
    <3>1. s = <<ch>> /\ ch \in Byte
        BY SMT, <1>1, <3>0 DEF unibyte_int2str, Byte
    <3> HIDE DEF s
    <3> QED BY SMT, <2>5, <3>1 DEF scan_char, str2int, euc_str2int
  <2> QED BY SMT, <2>1, <2>2, <2>3, <2>4, <2>5 DEF Codecs
<1> HIDE DEF s
<1>3. s \in Seq(Byte) /\ Len(s) \in 1 .. 4
    BY Zenon, <1>2
<1>4. scan_char(c, s \o t) = Return(Len(s))
    BY SMT, <1>1, <1>2, ScanStable DEF Return
<1>5. SubSeq(s \o t, 1, Len(s)) = s
  <2>0. \A n \in 1 .. 4 : 1 \in 1 .. n /\ n \in 1 .. n
      OBVIOUS
  <2>1. 1 \in 1 .. Len(s) /\ Len(s) \in 1 .. Len(s)
      BY Zenon, <1>3, <2>0
  <2>2. SubSeq(s \o t, 1, Len(s)) = SubSeq(s, 1, Len(s))
      BY <1>3, <2>1, SubSeqOfConcat1
  <2> QED BY <1>3, <2>2, SubSeqFull
<1> QED BY Zenon, <1>2, <1>3, <1>4, <1>5 DEF s, SCM_MB_MAX_LEN

-----------------------------------------------------------------------------
(* Sequences of bytes.                                                     *)

(* A set of natural numbers that is not empty has a least element.         *)
LEMMA LeastElement ==
    ASSUME NEW S \in SUBSET Nat, S # {}
    PROVE  \E m \in S : \A n \in S : m <= n
<1>1. PICK m \in S : \A n \in S : <<n, m>> \notin OpToRel(<, Nat)
    BY WFMin, NatLessThanWellFounded
<1>2. \A n \in S : ~(n < m)
    BY <1>1 DEF OpToRel
<1> QED BY <1>2

(* A sequence and its two parts.                                           *)
LEMMA Parts ==
    ASSUME NEW S, NEW r \in Seq(S), NEW s \in Seq(S)
    PROVE  /\ SubSeq(r \o s, 1, Len(r)) = r
           /\ SubSeq(r \o s, Len(r) + 1, Len(r \o s)) = s
           /\ s # <<>> => Append(r, Head(s)) \o Tail(s) = r \o s
<1>1. /\ r \o s \in Seq(S) /\ Len(r) \in Nat /\ Len(s) \in Nat /\ Len(r \o s) = Len(r) + Len(s)
      /\ \A i \in 1 .. Len(r) : (r \o s)[i] = r[i]
      /\ \A i \in 1 .. Len(s) : (r \o s)[Len(r) + i] = s[i]
    OBVIOUS
<1>2. SubSeq(r \o s, 1, Len(r)) = r
    BY <1>1
<1>3. SubSeq(r \o s, Len(r) + 1, Len(r \o s)) = s
  <2> DEFINE t == SubSeq(r \o s, Len(r) + 1, Len(r \o s))
  <2>1. t \in Seq(S) /\ Len(t) = Len(s)
      BY <1>1, SubSeqProperties
  <2>2. \A i \in 1 .. Len(s) : t[i] = s[i]
      BY <1>1
  <2> QED BY <2>1, <2>2, SeqEqual
<1>4. ASSUME s # <<>> PROVE Append(r, Head(s)) \o Tail(s) = r \o s
  <2> DEFINE t == Append(r, Head(s)) \o Tail(s)
  <2>1. /\ Head(s) = s[1] /\ Head(s) \in S /\ Tail(s) \in Seq(S) /\ Len(Tail(s)) = Len(s) - 1
        /\ \A i \in 1 .. Len(Tail(s)) : Tail(s)[i] = s[i + 1]
      BY <1>4, HeadTailProperties
  <2>2. t \in Seq(S) /\ Len(t) = Len(r) + Len(s)
      BY <1>1, <2>1
  <2>3. \A i \in 1 .. Len(r) + Len(s) : t[i] = (r \o s)[i]
      BY <1>1, <2>1
  <2> QED BY <1>1, <2>2, <2>3, SeqEqual
<1> QED BY <1>2, <1>3, <1>4

(* What C sees of a buffer is the buffer, or the beginning of it; without  *)
(* a zero byte, all of it.                                                 *)
LEMMA CStringPrefix ==
    ASSUME NEW s \in Seq(Byte)
    PROVE  /\ CString(s) \in Seq(Byte)
           /\ CString(s) = s \/ \E t \in Seq(Byte) : t # <<>> /\ s = CString(s) \o t
           /\ (\A i \in 1 .. Len(s) : s[i] # 0) => CString(s) = s
           /\ \A i \in 1 .. Len(CString(s)) : CString(s)[i] # 0
<1>1. CASE \E i \in 1 .. Len(s) : s[i] = 0
  <2> DEFINE Z == {i \in 1 .. Len(s) : s[i] = 0}
             First(i) == s[i] = 0 /\ \A j \in 1 .. (i - 1) : s[j] # 0
             z == CHOOSE i \in 1 .. Len(s) : First(i)
  <2>1. PICK m \in Z : \A n \in Z : m <= n
    <3>1. Z \in SUBSET Nat /\ Z # {}
        BY <1>1
    <3> QED BY <3>1, LeastElement
  <2>2. z \in 1 .. Len(s) /\ First(z)
    <3>1. m \in 1 .. Len(s) /\ s[m] = 0
        OBVIOUS
    <3>2. \A j \in 1 .. (m - 1) : s[j] # 0
        BY <2>1, <3>1
    <3>3. First(m)
        BY <3>1, <3>2
    <3> HIDE DEF First
    <3> QED BY <3>1, <3>3
  <2>3. CString(s) = SubSeq(s, 1, z - 1)
      BY <1>1 DEF CString
  <2> HIDE DEF z
  <2> DEFINE r == SubSeq(s, 1, z - 1)
             t == SubSeq(s, z, Len(s))
  <2>4. /\ r \in Seq(Byte) /\ Len(r) = z - 1 /\ \A i \in 1 .. z - 1 : r[i] = s[i]
        /\ t \in Seq(Byte) /\ Len(t) = Len(s) - z + 1
      BY <2>2
  <2>5. s = r \o t
    <3>1. /\ 1 \in 1 .. Len(s) + 1 /\ z - 1 \in 1 - 1 .. Len(s) /\ Len(s) \in z - 1 .. Len(s)
          /\ (z - 1) + 1 = z
        BY <2>2
    <3>2. \A k \in 1 - 1 .. Len(s) : \A n \in k .. Len(s) :
             SubSeq(s, 1, k) \o SubSeq(s, k + 1, n) = SubSeq(s, 1, n)
        BY <3>1, ConcatAdjacentSubSeq
    <3>3. SubSeq(s, 1, z - 1) \o SubSeq(s, (z - 1) + 1, Len(s)) = SubSeq(s, 1, Len(s))
        BY <3>1, <3>2
    <3> QED BY <3>1, <3>3, SubSeqFull
  <2>6. t # <<>>
    <3>1. Len(t) # 0
        BY <2>2, <2>4
    <3> QED BY <3>1
  <2> HIDE DEF r, t
  <2>7. \A i \in 1 .. Len(r) : r[i] # 0
      BY <2>2, <2>4
  <2> QED BY <1>1, <2>3, <2>4, <2>5, <2>6, <2>7 DEF r
<1>2. CASE ~\E i \in 1 .. Len(s) : s[i] = 0
    BY <1>2 DEF CString
<1> QED BY <1>1, <1>2

(* FlattenSeq concatenates the elements one after the other.               *)
LEMMA FlattenSteps ==
    ASSUME NEW S, NEW q \in Seq(Seq(S)), q # <<>>
    PROVE  \E f \in [1 .. Len(q) -> Seq(S)] :
              /\ f[1] = q[1]
              /\ \A i \in 2 .. Len(q) : f[i] = f[i - 1] \o q[i]
              /\ FlattenSeq(q) = f[Len(q)]
<1> DEFINE n == Len(q)
           Step(f, i) == IF i = 1 THEN q[i] ELSE f[i - 1] \o q[i]
           Good(m, f) == \A i \in 1 .. m : f[i] = Step(f, i)
           Bad == {m \in Nat : m <= n /\ ~\E f \in [1 .. m -> Seq(S)] : Good(m, f)}
<1>1. n \in Nat /\ n >= 1 /\ \A i \in 1 .. n : q[i] \in Seq(S)
    BY EmptySeq, ElementOfSeq
<1>0. \A m \in Nat : m <= n /\ m \notin Bad => \E f \in [1 .. m -> Seq(S)] : Good(m, f)
    OBVIOUS
<1>2. Bad = {}
  <2> SUFFICES ASSUME Bad # {} PROVE FALSE
      OBVIOUS
  <2>1. PICK m \in Bad : \A k \in Bad : m <= k
      BY LeastElement
  <2>2. m \in Nat /\ m <= n /\ ~\E f \in [1 .. m -> Seq(S)] : Good(m, f)
      OBVIOUS
  <2>3. CASE m = 0
    <3>1. [i \in 1 .. m |-> <<>>] \in [1 .. m -> Seq(S)] /\ 1 .. m = {}
        BY <2>3
    <3> QED BY <2>2, <3>1
  <2>4. CASE m # 0
    <3>1. m - 1 \in Nat /\ m - 1 <= n /\ m - 1 \notin Bad
      <4> HIDE DEF Bad, n
      <4>1. m - 1 \in Nat /\ m - 1 <= n /\ ~(m <= m - 1)
          BY <1>1, <2>2, <2>4
      <4> QED BY <2>1, <4>1
    <3>2. PICK f \in [1 .. m - 1 -> Seq(S)] : Good(m - 1, f)
        BY <1>0, <3>1
    <3> DEFINE v == Step(f, m)
               g == [i \in 1 .. m |-> IF i = m THEN v ELSE f[i]]
    <3>3. v \in Seq(S)
        BY <1>1, <2>2, <2>4, <3>1
    <3>4. \A i \in 1 .. m - 1 : f[i] = Step(f, i)
        BY <3>2
    <3> HIDE DEF v
    <3>5. g \in [1 .. m -> Seq(S)]
        BY <2>2, <3>3
    <3>6. ASSUME NEW i \in 1 .. m PROVE g[i] = Step(g, i)
      <4>1. i - 1 \in 1 .. m - 1 \/ i = 1
          BY <2>2
      <4>2. i # 1 => g[i - 1] = f[i - 1]
          BY <2>2, <4>1
      <4>3. CASE i = m
          BY <4>2, <4>3 DEF v
      <4>4. CASE i # m
        <5>1. i \in 1 .. m - 1
            BY <2>2, <4>4
        <5> QED BY <3>4, <4>2, <4>4, <5>1
      <4> QED BY <4>3, <4>4
    <3> HIDE DEF g
    <3> QED BY <2>2, <3>5, <3>6
  <2> QED BY <2>3, <2>4
<1> DEFINE flatten == CHOOSE f : f = [i \in 1 .. n |-> Step(f, i)]
<1>3. flatten = [i \in 1 .. n |-> Step(flatten, i)]
  <2>1. PICK f \in [1 .. n -> Seq(S)] : Good(n, f)
    <3> HIDE DEF Bad, Good, n
    <3>1. n <= n /\ n \notin Bad
        BY <1>1, <1>2
    <3> QED BY <1>0, <1>1, <3>1
  <2>2. f = [i \in 1 .. n |-> Step(f, i)]
      BY <2>1
  <2> QED BY <2>2
<1>4. FlattenSeq(q) = flatten[n]
    BY <1>1 DEF FlattenSeq
<1> HIDE DEF flatten
<1>5. \A i \in 1 .. n : flatten[i] = Step(flatten, i)
    BY <1>3
<1>6. \A i \in 1 .. n : flatten[i] \in Seq(S)
  <2> DEFINE Untyped == {i \in 1 .. n : flatten[i] \notin Seq(S)}
  <2> SUFFICES ASSUME Untyped # {} PROVE FALSE
      OBVIOUS
  <2>1. Untyped \in SUBSET Nat
      BY <1>1
  <2>2. PICK m \in Untyped : \A k \in Untyped : m <= k
      BY <2>1, LeastElement
  <2>3. m \in 1 .. n /\ flatten[m] \notin Seq(S)
      OBVIOUS
  <2>4. m # 1 => m - 1 \in 1 .. n /\ m - 1 \notin Untyped
      BY <1>1, <2>2, <2>3
  <2>5. m # 1 => flatten[m - 1] \in Seq(S)
      BY <2>4
  <2>6. flatten[m] = Step(flatten, m)
      BY <1>5, <2>3
  <2>7. q[m] \in Seq(S)
      BY <1>1, <2>3
  <2>8. CASE m = 1
      BY <2>3, <2>6, <2>7, <2>8
  <2>9. CASE m # 1
    <3>1. flatten[m] = flatten[m - 1] \o q[m]
        BY <2>6, <2>9
    <3> QED BY <2>3, <2>5, <2>7, <2>9, <3>1
  <2> QED BY <2>8, <2>9
<1>7. flatten \in [1 .. n -> Seq(S)]
    BY <1>3, <1>6
<1>8. flatten[1] = q[1]
  <2>1. 1 \in 1 .. n
      BY <1>1
  <2> QED BY <1>5, <2>1
<1>9. ASSUME NEW i \in 2 .. n PROVE flatten[i] = flatten[i - 1] \o q[i]
  <2>1. i \in 1 .. n /\ i # 1
      BY <1>1
  <2>2. flatten[i] = Step(flatten, i)
      BY <1>5, <2>1
  <2> QED BY <2>1, <2>2
<1> QED BY <1>4, <1>7, <1>8, <1>9

LEMMA FlattenType ==
    ASSUME NEW S, NEW q \in Seq(Seq(S))
    PROVE  FlattenSeq(q) \in Seq(S)
<1>1. CASE q = <<>>
    BY <1>1 DEF FlattenSeq
<1>2. CASE q # <<>>
  <2>1. Len(q) \in 1 .. Len(q)
      BY <1>2, EmptySeq
  <2>2. PICK f \in [1 .. Len(q) -> Seq(S)] : FlattenSeq(q) = f[Len(q)]
      BY <1>2, FlattenSteps
  <2> QED BY <2>1, <2>2
<1> QED BY <1>1, <1>2

(* A concatenation of sequences is flattened part by part.                 *)
LEMMA FlattenConcat ==
    ASSUME NEW S, NEW q \in Seq(Seq(S)), NEW r \in Seq(Seq(S))
    PROVE  FlattenSeq(q \o r) = FlattenSeq(q) \o FlattenSeq(r)
<1>1. FlattenSeq(<<>>) = <<>>
    BY DEF FlattenSeq
<1>2. FlattenSeq(q) \in Seq(S) /\ FlattenSeq(r) \in Seq(S)
    BY FlattenType
<1>3. CASE q = <<>>
    BY <1>1, <1>2, <1>3, ConcatEmptySeq
<1>4. CASE r = <<>>
    BY <1>1, <1>2, <1>4, ConcatEmptySeq
<1>5. CASE q # <<>> /\ r # <<>>
  <2> DEFINE m == Len(q)
             n == Len(r)
             p == q \o r
  <2>1. /\ m \in Nat /\ m >= 1 /\ n \in Nat /\ n >= 1
        /\ p \in Seq(Seq(S)) /\ p # <<>> /\ Len(p) = m + n
        /\ \A i \in 1 .. m : p[i] = q[i]
        /\ \A i \in 1 .. n : p[m + i] = r[i] /\ r[i] \in Seq(S)
      BY <1>5, EmptySeq, ConcatProperties
  <2>2. PICK f \in [1 .. m -> Seq(S)] :
            f[1] = q[1] /\ (\A i \in 2 .. m : f[i] = f[i - 1] \o q[i]) /\ FlattenSeq(q) = f[m]
      BY <1>5, FlattenSteps
  <2>3. PICK g \in [1 .. n -> Seq(S)] :
            g[1] = r[1] /\ (\A i \in 2 .. n : g[i] = g[i - 1] \o r[i]) /\ FlattenSeq(r) = g[n]
      BY <1>5, FlattenSteps
  <2> HIDE DEF m, n, p
  <2>4. PICK h \in [1 .. m + n -> Seq(S)] :
            h[1] = p[1] /\ (\A i \in 2 .. m + n : h[i] = h[i - 1] \o p[i]) /\ FlattenSeq(p) = h[m + n]
    <3>1. \E h \in [1 .. Len(p) -> Seq(S)] :
            h[1] = p[1] /\ (\A i \in 2 .. Len(p) : h[i] = h[i - 1] \o p[i]) /\ FlattenSeq(p) = h[Len(p)]
        BY Zenon, <2>1, FlattenSteps
    <3> QED BY Zenon, <2>1, <3>1
  <2>5. \A i \in 1 .. m : h[i] = f[i]
    <3> DEFINE Bad == {i \in 1 .. m : h[i] # f[i]}
    <3> SUFFICES ASSUME Bad # {} PROVE FALSE
        OBVIOUS
    <3>1. Bad \in SUBSET Nat
        BY <2>1
    <3>2. PICK k \in Bad : \A i \in Bad : k <= i
        BY <3>1, LeastElement
    <3>3. k \in 1 .. m /\ h[k] # f[k]
        OBVIOUS
    <3>4. k # 1
        BY <2>1, <2>2, <2>4, <3>3
    <3>5. k - 1 \in 1 .. m /\ k \in 2 .. m /\ k \in 2 .. m + n /\ ~(k <= k - 1)
        BY <2>1, <3>3, <3>4
    <3>6. h[k - 1] = f[k - 1]
        BY <3>2, <3>5
    <3>7. f[k] = f[k - 1] \o q[k] /\ h[k] = h[k - 1] \o p[k] /\ p[k] = q[k]
        BY <2>1, <2>2, <2>4, <3>3, <3>5
    <3> QED BY <3>3, <3>6, <3>7
  <2>6. h[m] = f[m]
      BY <2>1, <2>5
  <2>7. \A i \in 1 .. n : h[m + i] = f[m] \o g[i]
    <3> DEFINE Bad == {i \in 1 .. n : h[m + i] # f[m] \o g[i]}
    <3> SUFFICES ASSUME Bad # {} PROVE FALSE
        OBVIOUS
    <3>1. Bad \in SUBSET Nat
        BY <2>1
    <3>2. PICK k \in Bad : \A i \in Bad : k <= i
        BY <3>1, LeastElement
    <3>3. k \in 1 .. n /\ h[m + k] # f[m] \o g[k]
        OBVIOUS
    <3>4. m + k \in 2 .. m + n /\ (m + k) - 1 = m + (k - 1) /\ p[m + k] = r[k]
        BY <2>1, <3>3
    <3>5. h[m + k] = h[m + (k - 1)] \o r[k]
        BY <2>4, <3>4
    <3>6. CASE k = 1
      <4>1. m + (k - 1) = m
          BY <2>1, <3>6
      <4> QED BY <2>3, <2>6, <3>3, <3>5, <3>6, <4>1
    <3>7. CASE k # 1
      <4>1. k - 1 \in 1 .. n /\ k \in 2 .. n /\ ~(k <= k - 1)
          BY <2>1, <3>3, <3>7
      <4>2. h[m + (k - 1)] = f[m] \o g[k - 1]
          BY <3>2, <4>1
      <4>3. g[k] = g[k - 1] \o r[k]
          BY <2>3, <4>1
      <4>4. f[m] \in Seq(S) /\ g[k - 1] \in Seq(S) /\ r[k] \in Seq(S)
        <5>1. m \in 1 .. m
            BY <2>1
        <5> QED BY Zenon, <2>1, <3>3, <4>1, <5>1
      <4>5. (f[m] \o g[k - 1]) \o r[k] = f[m] \o (g[k - 1] \o r[k])
        <5>1. \A x, y, z \in Seq(S) : (x \o y) \o z = x \o (y \o z)
            BY SMTT(30), ConcatAssociative
        <5> HIDE DEF Bad
        <5> QED BY <4>4, <5>1
      <4> QED BY <3>3, <3>5, <4>2, <4>3, <4>5
    <3> QED BY <3>6, <3>7
  <2>8. h[m + n] = f[m] \o g[n]
    <3>1. n \in 1 .. n
        BY <2>1
    <3> QED BY Zenon, <2>7, <3>1
  <2> QED BY <2>2, <2>3, <2>4, <2>8 DEF p
<1> QED BY <1>3, <1>4, <1>5

LEMMA FlattenOne ==
    ASSUME NEW S, NEW x \in Seq(S)
    PROVE  FlattenSeq(<<x>>) = x
<1>1. <<x>> \in Seq(Seq(S)) /\ <<x>> # <<>> /\ Len(<<x>>) = 1
    OBVIOUS
<1>2. PICK f \in [1 .. 1 -> Seq(S)] : f[1] = <<x>>[1] /\ FlattenSeq(<<x>>) = f[1]
    BY <1>1, FlattenSteps
<1> QED BY <1>2

-----------------------------------------------------------------------------
(* The types of what the codecs return.                                    *)

(* int2str() returns bytes, those of a code that is no character included. *)
LEMMA Int2strType ==
    ASSUME NEW c \in Codecs, NEW ch \in Nat
    PROVE  int2str(c, ch) \in Seq(Byte)
<1>1. CASE Encodable(c, ch)
  <2>1. <<>> \in Seq(Byte)
      OBVIOUS
  <2> QED BY Zenon, <1>1, <2>1, CharactersReadBack
<1>2. CASE int2str(c, ch) = <<>>
    BY SMT, <1>2
<1>3. CASE c = "Shift_JIS"
  <2> DEFINE high == (ch \div 256) % 256
             low == ch % 256
  <2>1. high \in Byte /\ low \in Byte
      BY SMT DEF Byte
  <2>2. int2str(c, ch) = sjis_int2str(ch)
      BY SMT, <1>3 DEF int2str
  <2>3. sjis_int2str(ch) \in {<<>>, <<high, low>>, <<low>>}
      BY SMT DEF sjis_int2str
  <2> HIDE DEF high, low
  <2>4. <<>> \in Seq(Byte) /\ <<high, low>> \in Seq(Byte) /\ <<low>> \in Seq(Byte)
      BY SMT, <2>1
  <2> QED BY Zenon, <2>2, <2>3, <2>4
<1>4. Encodable(c, ch) \/ int2str(c, ch) = <<>> \/ c = "Shift_JIS"
    BY Zenon DEF Encodable
<1> QED BY Zenon, <1>1, <1>2, <1>3, <1>4

LEMMA PutCharType ==
    ASSUME NEW ch \in Nat, codec \in Codecs
    PROVE  put_char(ch) \in Seq(Byte)
<1>1. ch % 256 \in Byte
    BY SMT DEF Byte
<1>2. <<ch % 256>> \in Seq(Byte)
    BY SMT, <1>1
<1> QED BY Zenon, <1>2, Int2strType DEF put_char

(* No codec takes more bytes for a character than its str2int() converts.  *)
LEMMA ScanSize ==
    ASSUME NEW c \in Codecs, NEW s \in Seq(Byte), s # <<>>, scan_char(c, s).flag = "none"
    PROVE  LET n == scan_char(c, s).size
           IN  /\ n \in 1 .. 4 /\ n <= Len(s) /\ scan_char(c, s) = Return(n)
               /\ c = "ISO-8859-1" => n = 1
               /\ c \in {"EUC-CN", "EUC-KR", "Shift_JIS"} => n <= 2
               /\ c = "EUC-JP" => n <= 3
<1> DEFINE n == scan_char(c, s).size
<1>1. PICK k \in 1 .. 4 : k <= Len(s) /\ scan_char(c, s) = Return(k)
    BY ScanCases DEF ReturnError, ReturnIncomplete, SCM_MB_MAX_LEN
<1>2. n = k
    BY <1>1 DEF Return
<1>3. ASSUME NEW form \in Seq(SUBSET Byte), scan_char(c, s) = Match(s, form)
      PROVE  k = Len(form)
    BY <1>1, <1>3, MatchCases DEF ReturnError, ReturnIncomplete, Return
<1>4. /\ <<ASCII>> \in Forms /\ <<GR94 \cup {SS2}, GR96>> \in Forms
      /\ <<{SS3}, GR_SPC_OR_DEL>> \in Forms /\ <<{SS3}, GR94, GR94>> \in Forms
      /\ <<GR94, GR96>> \in Forms /\ <<IS_LEAD, IS_TRAIL>> \in Forms
    BY Zenon DEF Forms
<1>5. \A form \in Forms : scan_char(c, s) = Match(s, form) => k = Len(form)
    BY <1>3, FormsType
<1>11. scan_char(c, s) # ReturnError
    BY <1>1 DEF ReturnError, Return
<1>12. scan_char(c, s) = Return(1) => k = 1
    BY <1>1 DEF Return
<1>6. c = "ISO-8859-1" => k = 1
    BY <1>1, <1>2 DEF scan_char, Return
<1>7. CASE c \in {"EUC-CN", "EUC-KR"}
  <2>1. scan_char(c, s) = euc_scan_char(s)
      BY <1>7 DEF scan_char
  <2>2. \/ scan_char(c, s) = Match(s, <<ASCII>>)
        \/ scan_char(c, s) = Match(s, <<GR94, GR96>>)
        \/ scan_char(c, s) = ReturnError
      BY <2>1 DEF euc_scan_char
  <2>3. k = Len(<<ASCII>>) \/ k = Len(<<GR94, GR96>>)
      BY Zenon, <1>4, <1>5, <1>11, <2>2
  <2> QED BY <1>1, <1>2, <1>7, <2>3
<1>8. CASE c = "EUC-JP"
  <2>1. scan_char(c, s) = eucjp_scan_char(s)
      BY <1>8 DEF scan_char
  <2>2. \/ scan_char(c, s) = Match(s, <<ASCII>>)
        \/ scan_char(c, s) = Match(s, <<GR94 \cup {SS2}, GR96>>)
        \/ scan_char(c, s) = Match(s, <<{SS3}, GR_SPC_OR_DEL>>)
        \/ scan_char(c, s) = Match(s, <<{SS3}, GR94, GR94>>)
        \/ scan_char(c, s) = ReturnError
      BY <2>1 DEF eucjp_scan_char
  <2>3. \/ k = Len(<<ASCII>>) \/ k = Len(<<GR94 \cup {SS2}, GR96>>)
        \/ k = Len(<<{SS3}, GR_SPC_OR_DEL>>) \/ k = Len(<<{SS3}, GR94, GR94>>)
      BY Zenon, <1>4, <1>5, <1>11, <2>2
  <2> QED BY <1>1, <1>2, <1>8, <2>3
<1>9. CASE c = "Shift_JIS"
  <2>1. scan_char(c, s) = Match(s, <<IS_LEAD, IS_TRAIL>>) \/ scan_char(c, s) = Return(1)
      BY <1>9 DEF scan_char, sjis_scan_char
  <2>2. k = Len(<<IS_LEAD, IS_TRAIL>>) \/ k = 1
      BY Zenon, <1>4, <1>5, <1>12, <2>1
  <2> QED BY <1>1, <1>2, <1>9, <2>2
<1>10. CASE c \in {"UTF-8", "ISO-8859-1"}
    BY <1>1, <1>2, <1>6, <1>10
<1> QED BY <1>7, <1>8, <1>9, <1>10 DEF Codecs

LEMMA CharType ==
    ASSUME NEW c \in Codecs, NEW s \in Seq(Byte), s # <<>>, scan_char(c, s).flag = "none"
    PROVE  str2int(c, SubSeq(s, 1, scan_char(c, s).size)) \in Nat
<1> DEFINE n == scan_char(c, s).size
           w == SubSeq(s, 1, n)
<1>1. /\ n \in 1 .. 4 /\ n <= Len(s)
      /\ c = "ISO-8859-1" => n = 1
      /\ c \in {"EUC-CN", "EUC-KR", "Shift_JIS"} => n <= 2
      /\ c = "EUC-JP" => n <= 3
    BY ScanSize
<1> HIDE DEF n
<1>2. w \in Seq(Byte) /\ Len(w) = n
    BY <1>1
<1>3. \A i \in 1 .. n : w[i] \in Nat
  <2>1. Byte \subseteq Nat
      BY DEF Byte
  <2> HIDE DEF w
  <2> QED BY <1>1, <1>2, <2>1, ElementOfSeq
<1> HIDE DEF w
<1>4. \A b \in Nat : b % 64 \in Nat /\ b % 32 \in Nat /\ b % 16 \in Nat /\ b % 8 \in Nat
    BY SMT
<1>5. CASE c = "UTF-8"
  <2>1. ASSUME n = 1 PROVE utf8_str2int(w) \in Nat
    <3>1. w[1] \in Nat
        BY SMT, <1>3, <2>1
    <3>3. utf8_str2int(w) = w[1]
        BY SMT, <1>2, <2>1 DEF utf8_str2int
    <3> QED BY Zenon, <3>1, <3>3
  <2>2. ASSUME n = 2 PROVE utf8_str2int(w) \in Nat
    <3>1. w[1] \in Nat /\ w[2] \in Nat
        BY SMT, <1>3, <2>2
    <3> DEFINE V(a, b) == (a % 32) * 64 + (b % 64)
    <3>2. \A a, b \in Nat : V(a, b) \in Nat
        BY SMT
    <3>3. utf8_str2int(w) = V(w[1], w[2])
        BY SMT, <1>2, <2>2 DEF utf8_str2int
    <3> HIDE DEF V
    <3> QED BY Zenon, <3>1, <3>2, <3>3
  <2>3. ASSUME n = 3 PROVE utf8_str2int(w) \in Nat
    <3>1. w[1] \in Nat /\ w[2] \in Nat /\ w[3] \in Nat
        BY SMT, <1>3, <2>3
    <3> DEFINE V(p, q, r) == (p % 16) * 4096 + (q % 64) * 64 + (r % 64)
    <3>2. \A p, q, r \in Nat : V(p, q, r) \in Nat
        BY SMT
    <3>3. utf8_str2int(w) = V(w[1], w[2], w[3])
        BY SMT, <1>2, <2>3 DEF utf8_str2int
    <3> HIDE DEF V
    <3> QED BY Zenon, <3>1, <3>2, <3>3
  <2>4. ASSUME n = 4 PROVE utf8_str2int(w) \in Nat
    <3>1. w[1] \in Nat /\ w[2] \in Nat /\ w[3] \in Nat /\ w[4] \in Nat
        BY SMT, <1>3, <2>4
    <3> DEFINE V(a, b, d, e) == (a % 8) * 262144 + (b % 64) * 4096 + (d % 64) * 64 + (e % 64)
    <3>2. \A a, b, d, e \in Nat : V(a, b, d, e) \in Nat
        BY SMT
    <3>3. utf8_str2int(w) = V(w[1], w[2], w[3], w[4])
        BY SMT, <1>2, <2>4 DEF utf8_str2int
    <3> HIDE DEF V
    <3>4. \A d, e \in Nat : V(w[1], w[2], d, e) \in Nat
        BY Zenon, <3>1, <3>2
    <3> QED BY Zenon, <3>1, <3>3, <3>4
  <2>5. utf8_str2int(w) \in Nat
      BY SMT, <1>1, <2>1, <2>2, <2>3, <2>4
  <2> QED BY SMT, <1>5, <2>5 DEF str2int, w, n
<1>6. ASSUME NEW max \in 1 .. 3, n <= max PROVE euc_str2int(w, max) \in Nat
  <2>1. n \in 1 .. 3
      BY SMT, <1>1, <1>6
  <2>2. w[1] \in Nat /\ (n >= 2 => w[2] \in Nat) /\ (n = 3 => w[3] \in Nat)
      BY SMT, <1>3, <2>1
  <2>3. \A a, b, d \in Nat : a * 256 + b \in Nat /\ a * 65536 + b * 256 + d \in Nat
      BY SMT
  <2>4. CASE n = 1
      BY SMT, <1>2, <2>2, <2>4 DEF euc_str2int
  <2>5. CASE n = 2
    <3>1. euc_str2int(w, max) = w[1] * 256 + w[2]
        BY SMT, <1>2, <1>6, <2>5 DEF euc_str2int
    <3>2. w[2] \in Nat
        BY SMT, <2>2, <2>5
    <3> QED BY SMT, <2>2, <2>3, <3>1, <3>2
  <2>6. CASE n = 3
    <3>1. euc_str2int(w, max) = w[1] * 65536 + w[2] * 256 + w[3]
        BY SMT, <1>2, <1>6, <2>6 DEF euc_str2int
    <3>2. w[2] \in Nat /\ w[3] \in Nat
        BY SMT, <2>2, <2>6
    <3> QED BY SMTT(30), <2>2, <2>3, <3>1, <3>2
  <2> QED BY SMT, <2>1, <2>4, <2>5, <2>6
<1>7. CASE c = "EUC-JP"
    BY SMT, <1>1, <1>6, <1>7 DEF str2int, w, n
<1>8. CASE c = "ISO-8859-1"
    BY SMT, <1>1, <1>6, <1>8 DEF str2int, w, n
<1>9. CASE c \in {"EUC-CN", "EUC-KR", "Shift_JIS"}
    BY SMT, <1>1, <1>6, <1>9 DEF str2int, w, n
<1> QED BY SMT, <1>5, <1>7, <1>8, <1>9 DEF Codecs

-----------------------------------------------------------------------------
(* The buffer of mbcport_fill_rbuf().                                      *)

(* What OneCharacterBuffered says of the buffer r of a port of codec c.    *)
Buffered(c, r) ==
    /\ r \in Seq(Byte)
    /\ Len(r) <= SCM_MB_MAX_LEN
    /\ scan_char(c, r).flag = "none" => scan_char(c, r).size = Len(r)
    /\ scan_char(c, r).flag = "incomplete" => Len(r) < SCM_MB_MAX_LEN

LEMMA BufferedMeans ==
    /\ TypeOK => (OneCharacterBuffered <=> (cport = "sb" => rbuf = <<>>) /\ Buffered(codec, rbuf))
    /\ TypeOK' => (OneCharacterBuffered' <=> (cport' = "sb" => rbuf' = <<>>) /\ Buffered(codec', rbuf'))
BY Zenon DEF TypeOK, OneCharacterBuffered, Buffered, Scanned

(* Buffers of at most one byte.                                            *)
LEMMA BufferedShort ==
    ASSUME NEW c \in Codecs, NEW r \in Seq(Byte), Len(r) <= 1
    PROVE  Buffered(c, r)
<1>1. CASE r = <<>>
    BY <1>1 DEF Buffered, scan_char, Return, SCM_MB_MAX_LEN
<1>2. CASE r # <<>>
  <2>1. Len(r) = 1
    <3>1. Len(r) \in Nat \ {0}
        BY <1>2, EmptySeq
    <3> QED BY <3>1
  <2>2. ASSUME scan_char(c, r).flag = "none" PROVE scan_char(c, r).size = Len(r)
    <3>1. scan_char(c, r).size \in 1 .. 4 /\ scan_char(c, r).size <= Len(r)
        BY <1>2, <2>2, ScanSize
    <3> QED BY <2>1, <3>1
  <2> QED BY <2>1, <2>2 DEF Buffered, SCM_MB_MAX_LEN
<1> QED BY <1>1, <1>2

LEMMA BufferedEmpty ==
    ASSUME NEW c \in Codecs
    PROVE  Buffered(c, <<>>)
<1>1. <<>> \in Seq(Byte) /\ Len(<<>>) <= 1
    OBVIOUS
<1> QED BY <1>1, BufferedShort

(* The beginning of an unfinished or broken buffer, or of a character.     *)
LEMMA BufferedCString ==
    ASSUME NEW c \in Codecs, NEW r, Buffered(c, r)
    PROVE  Buffered(c, CString(r)) /\ (r = <<>> => CString(r) = <<>>)
<1>1. r \in Seq(Byte) /\ Len(r) \in Nat
    BY DEF Buffered
<1>2. CString(r) \in Seq(Byte) /\ (CString(r) = r \/ \E t \in Seq(Byte) : t # <<>> /\ r = CString(r) \o t)
    BY <1>1, CStringPrefix
<1>3. CASE CString(r) = r
    BY <1>3
<1>4. CASE CString(r) # r
  <2> DEFINE p == CString(r)
  <2>1. PICK t \in Seq(Byte) : t # <<>> /\ r = p \o t
      BY <1>2, <1>4
  <2>2. p \in Seq(Byte)
      BY <1>2
  <2> HIDE DEF p
  <2>3. Len(r) = Len(p) + Len(t) /\ Len(p) \in Nat /\ Len(t) \in Nat /\ Len(t) > 0
      BY <2>1, <2>2, EmptySeq
  <2>4. r # <<>>
      BY <2>3
  <2>5. CASE p = <<>>
      BY <2>4, <2>5, BufferedEmpty DEF p
  <2>6. CASE p # <<>>
    <3>1. scan_char(c, p).flag # "incomplete" => scan_char(c, r) = scan_char(c, p)
        BY <2>1, <2>2, <2>6, ScanStable
    <3>2. scan_char(c, p).flag # "none"
      <4> SUFFICES ASSUME scan_char(c, p).flag = "none" PROVE FALSE
          OBVIOUS
      <4>1. scan_char(c, p).size \in 1 .. 4 /\ scan_char(c, p).size <= Len(p)
          BY <2>2, <2>6, ScanSize
      <4>2. scan_char(c, p).size = Len(r)
          BY <3>1 DEF Buffered
      <4> QED BY <2>3, <4>1, <4>2
    <3> QED BY <2>2, <2>3, <2>4, <3>2 DEF Buffered, SCM_MB_MAX_LEN, p
  <2> QED BY <2>5, <2>6
<1> QED BY <1>3, <1>4

(* One more byte.                                                          *)
LEMMA BufferedAppend ==
    ASSUME NEW c \in Codecs, NEW r, NEW b \in Byte, Buffered(c, r), Len(r) < SCM_MB_MAX_LEN,
           r = <<>> \/ scan_char(c, r).flag = "incomplete"
    PROVE  Buffered(c, Append(r, b))
<1>1. r \in Seq(Byte) /\ Len(r) \in Nat
    BY DEF Buffered
<1>2. Append(r, b) \in Seq(Byte) /\ Len(Append(r, b)) = Len(r) + 1 /\ Append(r, b) # <<>>
    BY <1>1, AppendProperties
<1>3. scan_char(c, Append(r, b)).flag = "none" => scan_char(c, Append(r, b)).size = Len(r) + 1
    BY <1>1, ScanGrows
<1>4. \/ scan_char(c, Append(r, b)) = ReturnError
      \/ Len(Append(r, b)) < SCM_MB_MAX_LEN
      \/ \E n \in 1 .. SCM_MB_MAX_LEN : scan_char(c, Append(r, b)) = Return(n)
    BY <1>2, ScanCases
<1>5. scan_char(c, Append(r, b)).flag = "incomplete" => Len(Append(r, b)) < SCM_MB_MAX_LEN
    BY <1>4 DEF ReturnError, Return
<1>6. Len(Append(r, b)) <= SCM_MB_MAX_LEN
    BY <1>1, <1>2 DEF SCM_MB_MAX_LEN
<1> QED BY <1>2, <1>3, <1>5, <1>6 DEF Buffered

(* What the buffer and the scanner say of each other.                      *)
LEMMA ScannedCases ==
    ASSUME TypeOK, OneCharacterBuffered
    PROVE  /\ Scanned.flag = "error" => rbuf # <<>>
           /\ Wanting => rbuf = <<>> \/ (rbuf # <<>> /\ Scanned.flag = "incomplete")
           /\ Wanting => Len(rbuf) < SCM_MB_MAX_LEN
           /\ Scanned.flag = "none" /\ Scanned.size > 0 =>
                /\ rbuf # <<>> /\ Scanned = Return(Len(rbuf)) /\ Len(rbuf) \in 1 .. 4
                /\ SubSeq(rbuf, 1, Scanned.size) = rbuf /\ str2int(codec, rbuf) \in Nat
<1>1. codec \in Codecs /\ rbuf \in Seq(Byte) /\ Buffered(codec, rbuf) /\ Len(rbuf) \in Nat
    BY BufferedMeans DEF TypeOK
<1>2. rbuf = <<>> => Scanned = Return(0)
    BY DEF Scanned, scan_char
<1>3. Scanned.flag = "error" => rbuf # <<>>
    BY <1>2 DEF Return
<1>4. ASSUME Wanting PROVE rbuf = <<>> \/ (rbuf # <<>> /\ Scanned.flag = "incomplete")
  <2>1. Scanned.flag = "incomplete" \/ Scanned.size = 0
      BY <1>4 DEF Wanting
  <2>2. CASE rbuf # <<>> /\ Scanned.flag # "incomplete"
    <3>1. \/ Scanned = ReturnError
          \/ \E n \in 1 .. SCM_MB_MAX_LEN : Scanned = Return(n)
        BY <1>1, <2>2, ScanCases DEF Scanned, ReturnIncomplete
    <3>2. Scanned.flag # "error"
        BY <1>4 DEF Wanting
    <3> QED BY <2>1, <2>2, <3>1, <3>2 DEF ReturnError, Return
  <2> QED BY <2>2
<1>5. ASSUME Wanting PROVE Len(rbuf) < SCM_MB_MAX_LEN
    BY <1>1, <1>4, <1>5 DEF Buffered, Scanned, SCM_MB_MAX_LEN
<1>6. ASSUME Scanned.flag = "none", Scanned.size > 0
      PROVE  /\ rbuf # <<>> /\ Scanned = Return(Len(rbuf)) /\ Len(rbuf) \in 1 .. 4
             /\ SubSeq(rbuf, 1, Scanned.size) = rbuf /\ str2int(codec, rbuf) \in Nat
  <2>1. rbuf # <<>>
      BY <1>2, <1>6 DEF Return
  <2>2. Scanned.size = Len(rbuf)
      BY <1>1, <1>6 DEF Buffered, Scanned
  <2>3. Scanned.size \in 1 .. 4 /\ Scanned = Return(Scanned.size)
      BY <1>1, <1>6, <2>1, ScanSize DEF Scanned
  <2>4. str2int(codec, SubSeq(rbuf, 1, Scanned.size)) \in Nat
      BY Zenon, <1>1, <1>6, <2>1, CharType DEF Scanned
  <2>5. SubSeq(rbuf, 1, Scanned.size) = rbuf
      BY <1>1, <2>2, SubSeqFull
  <2> QED BY Zenon, <2>1, <2>2, <2>3, <2>4, <2>5
<1> QED BY Zenon, <1>3, <1>4, <1>5, <1>6

-----------------------------------------------------------------------------
(* The invariant is inductive.                                             *)

LEMMA InitInv == Init => Inv
<1> SUFFICES ASSUME Init PROVE Inv
    OBVIOUS
<1>1. TypeOK
  <2>1. "ISO-8859-1" \in Codecs
      BY DEF Codecs
  <2>2. <<>> \in Seq(Byte) /\ <<>> \in Seq(Nat)
      OBVIOUS
  <2>3. cport \in {"mb", "sb"} /\ codec \in Codecs /\ (cport = "sb" => codec = "ISO-8859-1")
      BY <2>1 DEF Init
  <2>4. /\ source \in Seq(Byte) /\ impl \in {"unopened", "open"} /\ bport \in {"string", "file"}
        /\ back \in BOOLEAN
      BY <2>2, InputsAssumption DEF Init
  <2>5. seen \in [op : Procedures \cup {"none", "write-char", "set-codec", "close-port"},
                  kind : Kinds, ch : Nat]
      BY DEF Init, Kinds
  <2>6. loop \in Loops
      BY <2>2 DEF Init, NoLoop, Loops
  <2>7. op = "idle" /\ rbuf = <<>> /\ linenum = 1 /\ out = <<>> /\ buf_size = 0 /\ written = <<>>
      BY DEF Init
  <2> QED BY <2>2, <2>3, <2>4, <2>5, <2>6, <2>7 DEF TypeOK
<1>2. OneCharacterBuffered
  <2>1. rbuf = <<>> /\ codec \in Codecs
      BY <1>1 DEF Init, TypeOK
  <2> QED BY <1>1, <2>1, BufferedEmpty, BufferedMeans
<1>3. TerminatorFits /\ ScannerComplete /\ NoUseAfterClose
    BY DEF Init, TerminatorFits, ScannerComplete, NoUseAfterClose, NoLoop
<1> QED BY <1>1, <1>2, <1>3 DEF Inv

(* Most steps leave parts of the state alone.                              *)
LEMMA BufferKept ==
    ASSUME Inv, TypeOK', UNCHANGED <<ports, codec, rbuf>>
    PROVE  OneCharacterBuffered'
<1>1. (cport = "sb" => rbuf = <<>>) /\ Buffered(codec, rbuf)
    BY BufferedMeans DEF Inv
<1>2. cport' = cport /\ codec' = codec /\ rbuf' = rbuf
    BY DEF ports
<1> QED BY Zenon, <1>1, <1>2, BufferedMeans

LEMMA BufferEmptied ==
    ASSUME TypeOK', rbuf' = <<>>
    PROVE  OneCharacterBuffered'
<1>1. codec' \in Codecs
    BY DEF TypeOK
<1>2. Buffered(codec', rbuf')
    BY <1>1, BufferedEmpty
<1> QED BY <1>2, BufferedMeans

(* The output string port keeps room for the terminating zero.             *)
LEMMA AppendFits ==
    ASSUME Inv, NEW bytes \in Seq(Byte), ostrport_append(bytes)
    PROVE  TerminatorFits' /\ out' \in Seq(Byte) /\ buf_size' \in Nat
<1>1. /\ out \in Seq(Byte) /\ buf_size \in Nat /\ Len(out) \in Nat /\ Len(bytes) \in Nat
      /\ out # <<>> => Len(out) < buf_size
    BY DEF Inv, TypeOK, TerminatorFits
<1>2. out' = out \o bytes /\ out' \in Seq(Byte) /\ Len(out') = Len(out) + Len(bytes)
    BY <1>1 DEF ostrport_append
<1>3. buf_size' = Extended(Len(bytes))
    BY DEF ostrport_append
<1>4. buf_size' \in Nat /\ Len(out) + Len(bytes) + 1 <= buf_size'
    BY <1>1, <1>3 DEF Extended
<1> QED BY <1>1, <1>2, <1>4 DEF TerminatorFits

LEMMA InvWriteChar ==
    ASSUME Inv, NEW ch \in Chars, scm_p_write_char(ch)
    PROVE  Inv'
<1>1. TypeOK /\ ch \in Nat
    BY CharsAssumption DEF Inv
<1>2. put_char(ch) \in Seq(Byte)
    BY <1>1, PutCharType DEF TypeOK
<1>3. /\ UNCHANGED <<ports, codec, impl, source, rbuf, linenum, op, loop>>
      /\ seen' \in {[op |-> "write-char", kind |-> k, ch |-> 0] : k \in {"none", "invalid"}}
    BY DEF scm_p_write_char, Ended
<1>4. \/ UNCHANGED <<output, written, back>>
      \/ ostrport_append(put_char(ch)) /\ written' = Append(written, ch) /\ back' \in BOOLEAN
    BY <1>1 DEF scm_p_write_char, TypeOK
<1>5. TerminatorFits' /\ out' \in Seq(Byte) /\ buf_size' \in Nat
  <2>1. CASE UNCHANGED <<output, written, back>>
    <3>1. out' = out /\ buf_size' = buf_size
        BY <2>1 DEF output
    <3> QED BY <1>1, <3>1 DEF Inv, TypeOK, TerminatorFits
  <2>2. CASE ostrport_append(put_char(ch))
      BY <1>2, <2>2, AppendFits
  <2> QED BY <1>4, <2>1, <2>2
<1>6. written' \in Seq(Nat) /\ back' \in BOOLEAN
  <2>1. written \in Seq(Nat) /\ back \in BOOLEAN
      BY <1>1 DEF TypeOK
  <2>2. Append(written, ch) \in Seq(Nat)
      BY <1>1, <2>1, AppendProperties
  <2> QED BY <1>4, <2>1, <2>2
<1>7. TypeOK'
    BY <1>1, <1>3, <1>5, <1>6 DEF TypeOK, ports, Kinds
<1>8. ScannerComplete' /\ NoUseAfterClose'
    BY <1>3 DEF Inv, ScannerComplete, NoUseAfterClose
<1> QED BY <1>3, <1>5, <1>7, <1>8, BufferKept DEF Inv

(* The elements of a text that consists of characters are characters, or   *)
(* bytes.                                                                  *)
LEMMA BytesType ==
    ASSUME codec \in Codecs, NEW s \in Seq(Nat)
    PROVE  Bytes(s) \in Seq(Byte)
<1>1. \A i \in DOMAIN s : put_char(s[i]) \in Seq(Byte)
    BY PutCharType
<1>2. [i \in DOMAIN s |-> put_char(s[i])] \in Seq(Seq(Byte))
    BY <1>1
<1> QED BY <1>2, FlattenType DEF Bytes

LEMMA InvPutAll ==
    ASSUME Inv, NEW s \in Seq(Nat), PutAll(s)
    PROVE  Inv'
<1>1. TypeOK
    BY DEF Inv
<1>2. Bytes(s) \in Seq(Byte)
    BY <1>1, BytesType DEF TypeOK
<1>3. /\ UNCHANGED <<ports, codec, impl, source, rbuf, linenum, op, back, loop>>
      /\ seen' = [op |-> "write-char", kind |-> "none", ch |-> 0]
      /\ ostrport_append(Bytes(s)) /\ written' = written \o s
    BY DEF PutAll, Ended
<1>4. TerminatorFits' /\ out' \in Seq(Byte) /\ buf_size' \in Nat
    BY <1>2, <1>3, AppendFits
<1>5. written' \in Seq(Nat)
    BY <1>1, <1>3 DEF TypeOK
<1>6. TypeOK'
    BY <1>1, <1>3, <1>4, <1>5 DEF TypeOK, ports, Kinds
<1>7. ScannerComplete' /\ NoUseAfterClose'
    BY <1>3 DEF Inv, ScannerComplete, NoUseAfterClose
<1> QED BY <1>3, <1>4, <1>6, <1>7, BufferKept DEF Inv

LEMMA InvOpened ==
    ASSUME Inv, NEW bytes \in Seq(Byte), Opened(bytes)
    PROVE  Inv'
<1>1. TypeOK
    BY DEF Inv
<1>2. /\ UNCHANGED <<ports, codec, rbuf, linenum, op, seen, written, back, loop>>
      /\ impl' = "open" /\ source' = bytes /\ out' = <<>> /\ buf_size' = 0 /\ impl = "unopened"
    BY DEF Opened
<1>3. TypeOK'
    BY <1>1, <1>2 DEF TypeOK, ports
<1>4. TerminatorFits' /\ ScannerComplete'
    BY <1>2 DEF Inv, TerminatorFits, ScannerComplete
<1>5. NoUseAfterClose'
    BY <1>2 DEF Inv, NoUseAfterClose
<1> QED BY <1>2, <1>3, <1>4, <1>5, BufferKept DEF Inv

(* A procedure that starts cuts the buffer off at the first zero.          *)
LEMMA InvCall ==
    ASSUME Inv, NEW o \in Procedures, impl = "open", Call(o),
           loop' \in Loops
    PROVE  Inv'
<1>1. TypeOK /\ codec \in Codecs /\ Buffered(codec, rbuf) /\ (cport = "sb" => rbuf = <<>>)
    BY BufferedMeans DEF Inv, TypeOK
<1>2. /\ UNCHANGED <<ports, codec, impl, source, linenum, seen, output, written, back>>
      /\ op' = o
      /\ rbuf' = rbuf \/ rbuf' = CString(rbuf)
    BY DEF Call
<1>3. Buffered(codec, rbuf') /\ (cport = "sb" => rbuf' = <<>>)
    BY <1>1, <1>2, BufferedCString
<1>4. rbuf' \in Seq(Byte)
    BY <1>3 DEF Buffered
<1>5. UNCHANGED <<cport, bport, out, buf_size>>
    BY <1>2 DEF ports, output
<1>6. TypeOK'
    BY <1>1, <1>2, <1>4, <1>5 DEF TypeOK
<1>7. OneCharacterBuffered'
  <2>1. codec' = codec /\ cport' = cport
      BY <1>2, <1>5
  <2> QED BY Zenon, <1>3, <1>6, <2>1, BufferedMeans
<1>8. TerminatorFits' /\ ScannerComplete'
    BY <1>2, <1>5 DEF Inv, TerminatorFits, ScannerComplete
<1>9. NoUseAfterClose'
  <2>1. impl' = "open" /\ seen' = seen
      BY <1>2
  <2> QED BY <2>1 DEF Inv, NoUseAfterClose
<1> QED BY <1>6, <1>7, <1>8, <1>9 DEF Inv

(* A procedure that ends.                                                  *)
LEMMA InvReturn ==
    ASSUME Inv, NEW k \in Kinds \ {"scanner", "undefined"}, NEW c \in Nat, op \in Procedures, impl = "open",
           Return1(k, c), linenum' \in Nat, written' \in Seq(Nat), source' \in Seq(Byte),
           Buffered(codec, rbuf'), cport = "sb" => rbuf' = <<>>
    PROVE  Inv'
<1>1. /\ UNCHANGED <<ports, codec, impl, output, back, loop>>
      /\ op' = "idle" /\ seen' = [op |-> op, kind |-> k, ch |-> c]
    BY DEF Return1, Ended
<1>2. UNCHANGED <<cport, bport, codec, impl, out, buf_size, back, loop>>
    BY <1>1 DEF ports, output
<1>3. rbuf' \in Seq(Byte)
    BY DEF Buffered
<1>4. seen' \in [op : Procedures \cup {"none", "write-char", "set-codec", "close-port"},
                 kind : Kinds, ch : Nat]
    BY <1>1
<1>5. TypeOK'
    BY <1>1, <1>2, <1>3, <1>4 DEF Inv, TypeOK
<1>6. OneCharacterBuffered'
    BY Zenon, <1>2, <1>5, BufferedMeans
<1>7. TerminatorFits' /\ ScannerComplete'
    BY <1>1, <1>2 DEF Inv, TerminatorFits, ScannerComplete
<1>8. NoUseAfterClose'
  <2>1. impl' = "open" /\ seen'.kind # "undefined"
      BY <1>1, <1>2
  <2> QED BY <2>1 DEF NoUseAfterClose
<1> QED BY <1>5, <1>6, <1>7, <1>8 DEF Inv

(* A procedure in progress runs on an open port.                           *)
LEMMA InProgress ==
    ASSUME Inv, op \in Procedures
    PROVE  impl = "open"
<1>1. op # "idle"
    BY DEF Procedures
<1> QED BY <1>1 DEF Inv, NoUseAfterClose

LEMMA InvError ==
    ASSUME Inv, mbcport_error
    PROVE  Inv' /\ Scanned.flag = "error" /\ Return1("broken", 0)
<1>1. TypeOK /\ OneCharacterBuffered /\ op \in Procedures
    BY DEF Inv, mbcport_error, Filling
<1>2. Scanned.flag = "error"
  <2>1. Wanting => Len(rbuf) < SCM_MB_MAX_LEN
      BY <1>1, ScannedCases
  <2>2. ~(Wanting /\ Len(rbuf) = SCM_MB_MAX_LEN)
      BY <2>1 DEF SCM_MB_MAX_LEN
  <2> QED BY <2>2 DEF mbcport_error
<1>3. Return1("broken", 0) /\ UNCHANGED <<source, rbuf, linenum, written>>
    BY <1>2 DEF mbcport_error
<1>4. Buffered(codec, rbuf') /\ (cport = "sb" => rbuf' = <<>>)
    BY <1>1, <1>3, BufferedMeans
<1>5. "broken" \in Kinds \ {"scanner", "undefined"} /\ 0 \in Nat
    BY DEF Kinds
<1>6. linenum' \in Nat /\ written' \in Seq(Nat) /\ source' \in Seq(Byte)
    BY <1>1, <1>3 DEF TypeOK
<1> QED BY <1>1, <1>2, <1>3, <1>4, <1>5, <1>6, InProgress, InvReturn

(* The counters of a character that is taken from the port.                *)
LEMMA TakenType ==
    ASSUME TypeOK, NEW c, Taken(c)
    PROVE  linenum' \in Nat /\ written' \in Seq(Nat)
<1>1. linenum \in Nat /\ written \in Seq(Nat)
    BY DEF TypeOK
<1>2. linenum' \in Nat
    BY <1>1 DEF Taken
<1>3. written # <<>> => Tail(written) \in Seq(Nat)
    BY <1>1, HeadTailProperties
<1> QED BY <1>1, <1>2, <1>3 DEF Taken

LEMMA InvChar ==
    ASSUME Inv, mbcport_char
    PROVE  Inv'
<1>1. TypeOK /\ OneCharacterBuffered /\ op \in Procedures /\ cport = "mb" /\ codec \in Codecs
    BY DEF Inv, mbcport_char, Filling, TypeOK
<1> DEFINE ch == str2int(codec, SubSeq(rbuf, 1, Scanned.size))
<1>2. ch \in Nat
    BY <1>1, ScannedCases DEF mbcport_char
<1>3. /\ Return1("ready", 0) \/ Return1("char", ch)
      /\ Taken(ch)
      /\ rbuf' = <<>> \/ rbuf' = rbuf
      /\ source' = source
    BY DEF mbcport_char
<1> HIDE DEF ch
<1>4. linenum' \in Nat /\ written' \in Seq(Nat) /\ source' \in Seq(Byte)
    BY <1>1, <1>3, TakenType DEF TypeOK
<1>5. Buffered(codec, rbuf')
    BY <1>1, <1>3, BufferedMeans, BufferedEmpty
<1>6. {"ready", "char"} \subseteq Kinds \ {"scanner", "undefined"} /\ 0 \in Nat /\ cport # "sb"
    BY <1>1 DEF Kinds
<1> QED BY <1>1, <1>2, <1>3, <1>4, <1>5, <1>6, InProgress, InvReturn

LEMMA InvEof ==
    ASSUME Inv, mbcport_eof
    PROVE  Inv'
<1>1. TypeOK /\ op \in Procedures /\ cport = "mb" /\ codec \in Codecs
    BY DEF Inv, mbcport_eof, Wanting, Filling, TypeOK
<1>2. /\ Return1("ready", 0) \/ Return1("eof", 0)
      /\ rbuf' = <<>> /\ UNCHANGED <<source, linenum, written>>
    BY DEF mbcport_eof
<1>3. linenum' \in Nat /\ written' \in Seq(Nat) /\ source' \in Seq(Byte)
    BY <1>1, <1>2 DEF TypeOK
<1>4. Buffered(codec, rbuf')
    BY <1>1, <1>2, BufferedEmpty
<1>5. {"ready", "eof"} \subseteq Kinds \ {"scanner", "undefined"} /\ 0 \in Nat
    BY DEF Kinds
<1> QED BY <1>1, <1>2, <1>3, <1>4, <1>5, InProgress, InvReturn

LEMMA InvByte ==
    ASSUME Inv, mbcport_byte
    PROVE  Inv'
<1>1. /\ TypeOK /\ OneCharacterBuffered /\ op \in Procedures /\ cport = "mb" /\ codec \in Codecs
      /\ Wanting /\ Len(rbuf) < SCM_MB_MAX_LEN /\ source \in Seq(Byte) /\ source # <<>>
    BY DEF Inv, mbcport_byte, Wanting, Filling, TypeOK
<1>2. Head(source) \in Byte /\ Tail(source) \in Seq(Byte)
    BY <1>1, HeadTailProperties
<1>3. rbuf' = Append(rbuf, Head(source)) /\ source' = Tail(source) /\ UNCHANGED <<linenum, written>>
    BY DEF mbcport_byte
<1>4. Buffered(codec, rbuf')
  <2>1. Buffered(codec, rbuf) /\ (rbuf = <<>> \/ scan_char(codec, rbuf).flag = "incomplete")
      BY <1>1, BufferedMeans, ScannedCases DEF Scanned
  <2> QED BY <1>1, <1>2, <1>3, <2>1, BufferedAppend
<1>5. linenum' \in Nat /\ written' \in Seq(Nat) /\ source' \in Seq(Byte)
    BY <1>1, <1>2, <1>3 DEF TypeOK
<1>6. CASE Return1("unsupported", 0)
  <2>1. "unsupported" \in Kinds \ {"scanner", "undefined"} /\ 0 \in Nat
      BY DEF Kinds
  <2> QED BY <1>1, <1>4, <1>5, <1>6, <2>1, InProgress, InvReturn
<1>7. CASE UNCHANGED <<ports, codec, impl, op, seen, output, back, loop>>
  <2>1. UNCHANGED <<cport, bport, codec, impl, op, seen, out, buf_size, back, loop>>
      BY <1>7 DEF ports, output
  <2>2. rbuf' \in Seq(Byte)
      BY <1>4 DEF Buffered
  <2>3. TypeOK'
      BY <1>1, <1>5, <2>1, <2>2 DEF TypeOK
  <2>4. OneCharacterBuffered'
    <3>1. cport' # "sb" /\ Buffered(codec', rbuf')
        BY <1>1, <1>4, <2>1
    <3> QED BY <2>3, <3>1, BufferedMeans
  <2>5. TerminatorFits' /\ ScannerComplete'
      BY <2>1 DEF Inv, TerminatorFits, ScannerComplete
  <2>6. NoUseAfterClose'
    <3>1. impl' = "open" /\ seen' = seen
        BY <1>1, <2>1, InProgress
    <3> QED BY <3>1 DEF Inv, NoUseAfterClose
  <2> QED BY <2>3, <2>4, <2>5, <2>6 DEF Inv
<1> QED BY <1>6, <1>7 DEF mbcport_byte

(* The single-byte port has no buffer.                                     *)
LEMMA InvSbcport ==
    ASSUME Inv, sbcport_char \/ sbcport_eof \/ sbcport_readyp
    PROVE  Inv'
<1>1. TypeOK /\ op \in Procedures /\ cport = "sb" /\ rbuf = <<>> /\ codec \in Codecs
    BY DEF Inv, sbcport_char, sbcport_eof, sbcport_readyp, TypeOK, OneCharacterBuffered, Procedures
<1>2. rbuf' = <<>>
    BY <1>1 DEF sbcport_char, sbcport_eof, sbcport_readyp
<1>3. Buffered(codec, rbuf')
    BY <1>1, <1>2, BufferedEmpty
<1>4. {"char", "eof", "unsupported", "ready"} \subseteq Kinds \ {"scanner", "undefined"} /\ 0 \in Nat
    BY DEF Kinds
<1>5. CASE sbcport_char
  <2>1. Head(source) \in Byte /\ Tail(source) \in Seq(Byte)
      BY <1>1, <1>5, HeadTailProperties DEF sbcport_char, TypeOK
  <2>2. Head(source) \in Nat
    <3>1. \A b \in Byte : b \in Nat
        BY DEF Byte
    <3> QED BY Zenon, <2>1, <3>1
  <2>3. Return1("char", Head(source)) /\ Taken(Head(source)) /\ source' \in {source, Tail(source)}
      BY <1>5 DEF sbcport_char
  <2>4. linenum' \in Nat /\ written' \in Seq(Nat)
      BY <1>1, <2>3, TakenType
  <2>5. source' \in Seq(Byte)
      BY <1>1, <2>1, <2>3 DEF TypeOK
  <2> QED BY <1>1, <1>2, <1>3, <1>4, <2>2, <2>3, <2>4, <2>5, InProgress, InvReturn
<1>6. CASE sbcport_eof \/ sbcport_readyp
  <2>1. /\ Return1("eof", 0) \/ Return1("unsupported", 0) \/ Return1("ready", 0)
        /\ UNCHANGED <<source, linenum, written>>
      BY <1>6 DEF sbcport_eof, sbcport_readyp
  <2>2. linenum' \in Nat /\ written' \in Seq(Nat) /\ source' \in Seq(Byte)
      BY <1>1, <2>1 DEF TypeOK
  <2> QED BY <1>1, <1>2, <1>3, <1>4, <2>1, <2>2, InProgress, InvReturn
<1> QED BY <1>5, <1>6

LEMMA InvFails ==
    ASSUME Inv, fixup_read_char
    PROVE  Inv'
<1>1. TypeOK /\ OneCharacterBuffered /\ op \in Procedures
    BY DEF Inv, fixup_read_char, Wanting, Filling, Procedures
<1>2. Return1("ioerror", 0) /\ UNCHANGED <<source, rbuf, linenum, written>>
    BY DEF fixup_read_char
<1>3. Buffered(codec, rbuf') /\ (cport = "sb" => rbuf' = <<>>)
    BY <1>1, <1>2, BufferedMeans
<1>4. "ioerror" \in Kinds \ {"scanner", "undefined"} /\ 0 \in Nat
    BY DEF Kinds
<1>5. linenum' \in Nat /\ written' \in Seq(Nat) /\ source' \in Seq(Byte)
    BY <1>1, <1>2 DEF TypeOK
<1> QED BY <1>1, <1>2, <1>3, <1>4, <1>5, InProgress, InvReturn

(* The loops over characters.                                              *)
LEMMA InvLoop ==
    ASSUME Inv, loop' \in Loops, op = "idle", loop'.kind # "reading",
           UNCHANGED <<ports, codec, impl, source, rbuf, linenum, op, seen, output, written, back>>
    PROVE  Inv'
<1>1. UNCHANGED <<cport, bport, out, buf_size>>
    BY DEF ports, output
<1>2. TypeOK'
    BY <1>1 DEF Inv, TypeOK, Loops
<1>3. TerminatorFits' /\ ScannerComplete' /\ NoUseAfterClose'
    BY <1>1 DEF Inv, TerminatorFits, ScannerComplete, NoUseAfterClose
<1> QED BY <1>2, <1>3, BufferKept DEF Inv

LEMMA InvBegin ==
    ASSUME Inv, NEW n \in Int,
           NEW proc \in {"read-line", "read-string", "read-bytevector", "read-bytevector!"},
           Begin(proc, n)
    PROVE  Inv'
<1>1. TypeOK /\ op = "idle" /\ impl = "open"
    BY DEF Inv, Begin, Idle
<1>2. rbuf \o source \in Seq(Byte) /\ <<>> \in Seq(Byte) /\ <<>> \in Seq(Nat)
    BY <1>1, ConcatProperties DEF TypeOK
<1>3. loop' \in Loops /\ (n = 0 => loop'.kind # "reading")
    BY <1>2 DEF Begin, Loops
<1>4. CASE n = 0
    BY <1>1, <1>3, <1>4, InvLoop DEF Begin
<1>5. CASE n # 0
  <2>1. Call("read-char") /\ "read-char" \in Procedures
      BY <1>5 DEF Begin, Procedures
  <2> QED BY <1>1, <1>3, <2>1, InvCall
<1> QED BY <1>4, <1>5

LEMMA InvReadChars ==
    ASSUME Inv, read_chars
    PROVE  Inv'
<1>1. /\ TypeOK /\ op = "idle" /\ loop.kind = "reading" /\ impl = "open" /\ loop \in Loops
      /\ loop.got \in Seq(Nat) /\ loop.n \in Int /\ seen.ch \in Nat
    BY DEF Inv, read_chars, TypeOK, NoUseAfterClose, Loops
<1>2. Append(loop.got, seen.ch) \in Seq(Nat) /\ loop.n - 1 \in Int /\ <<>> \in Seq(Byte)
    BY <1>1, AppendProperties
<1>3. ASSUME NEW got \in Seq(Nat), NEW e \in BOOLEAN, Value(got, e), Stays PROVE Inv'
  <2>1. loop' = [loop EXCEPT !.got = got, !.n = 0, !.from = <<>>,
                             !.kind = IF got = <<>> /\ e THEN "eof" ELSE "value"]
      BY <1>3 DEF Value
  <2>2. PICK k \in {"eof", "value"} :
            loop' = [proc |-> loop.proc, n |-> 0, got |-> got, from |-> <<>>, kind |-> k]
      BY <1>1, <2>1 DEF Loops
  <2>3. loop' \in Loops /\ loop'.kind # "reading"
      BY <1>1, <1>2, <2>2 DEF Loops
  <2> QED BY <1>1, <1>3, <2>3, InvLoop DEF Stays
<1>4. ASSUME loop' = [NoLoop EXCEPT !.kind = "error"], Stays PROVE Inv'
  <2>1. loop' \in Loops /\ loop'.kind # "reading"
    <3>1. loop' = [proc |-> "none", n |-> 0, got |-> <<>>, kind |-> "error", from |-> <<>>]
        BY <1>4 DEF NoLoop
    <3> QED BY <3>1 DEF Loops
  <2> QED BY <1>1, <1>4, <2>1, InvLoop DEF Stays
<1>5. ASSUME loop' = [loop EXCEPT !.got = Append(@, seen.ch), !.n = @ - 1], Call("read-char") PROVE Inv'
  <2>1. loop' \in Loops
      BY <1>1, <1>2, <1>5 DEF Loops
  <2>2. "read-char" \in Procedures
      BY DEF Procedures
  <2> QED BY <1>1, <1>5, <2>1, <2>2, InvCall
<1>6. \/ \E got \in Seq(Nat), e \in BOOLEAN : Value(got, e) /\ Stays
      \/ loop' = [NoLoop EXCEPT !.kind = "error"] /\ Stays
      \/ loop' = [loop EXCEPT !.got = Append(@, seen.ch), !.n = @ - 1] /\ Call("read-char")
    BY <1>1, <1>2 DEF read_chars
<1> QED BY <1>3, <1>4, <1>5, <1>6

(* Procedures that are refused, the codec, and close.                      *)
LEMMA InvSetCodec ==
    ASSUME Inv, NEW c \in Codecs, ScmMultiByteCharPort_set_codec(c)
    PROVE  Inv'
<1>1. TypeOK /\ impl = "open" /\ cport = "mb" /\ rbuf \in Seq(Byte) /\ CString(rbuf) \in Seq(Byte)
    BY CStringPrefix DEF Inv, ScmMultiByteCharPort_set_codec, TypeOK
<1>2. /\ UNCHANGED <<ports, impl, source, linenum, op, output, written>>
      /\ codec' = c /\ back' = FALSE /\ loop' = NoLoop /\ op = "idle"
      /\ seen' = [op |-> "set-codec", kind |-> "none", ch |-> 0]
      /\ rbuf' = IF Len(CString(rbuf)) > 1 THEN <<>> ELSE CString(rbuf)
    BY DEF ScmMultiByteCharPort_set_codec, Ended, Idle
<1>3. UNCHANGED <<cport, bport, out, buf_size>>
    BY <1>2 DEF ports, output
<1>4. rbuf' \in Seq(Byte) /\ Len(rbuf') <= 1
    BY <1>1, <1>2
<1>5. loop' \in Loops /\ loop'.kind = "none"
    BY <1>2 DEF NoLoop, Loops
<1>6. seen' \in [op : Procedures \cup {"none", "write-char", "set-codec", "close-port"},
                 kind : Kinds, ch : Nat]
    BY <1>2 DEF Kinds
<1>7. TypeOK'
    BY <1>1, <1>2, <1>3, <1>4, <1>5, <1>6 DEF TypeOK, Loops
<1>8. OneCharacterBuffered'
    BY <1>1, <1>2, <1>3, <1>4, <1>7, BufferedShort, BufferedMeans
<1>9. TerminatorFits' /\ ScannerComplete'
    BY <1>2, <1>3 DEF Inv, TerminatorFits, ScannerComplete
<1>10. NoUseAfterClose'
    BY <1>1, <1>2, <1>5 DEF NoUseAfterClose
<1> QED BY <1>7, <1>8, <1>9, <1>10 DEF Inv

LEMMA InvClose ==
    ASSUME Inv, scm_port_close
    PROVE  Inv'
<1>1. TypeOK /\ op = "idle"
    BY DEF Inv, scm_port_close, Idle
<1>2. /\ UNCHANGED <<ports, codec, linenum, op, output, written>>
      /\ back' = FALSE /\ loop' = NoLoop /\ source' = <<>> /\ rbuf' = <<>>
      /\ seen' = [op |-> "close-port", kind |-> "none", ch |-> 0]
      /\ impl' \in {"null", "freed"} /\ (~ClosesFail => impl' = "null")
    BY DEF scm_port_close, Ended
<1>3. UNCHANGED <<cport, bport, out, buf_size>>
    BY <1>2 DEF ports, output
<1>4. loop' \in Loops /\ loop'.kind = "none"
    BY <1>2 DEF NoLoop, Loops
<1>5. seen' \in [op : Procedures \cup {"none", "write-char", "set-codec", "close-port"},
                 kind : Kinds, ch : Nat]
    BY <1>2 DEF Kinds
<1>6. TypeOK'
  <2>1. source' \in Seq(Byte) /\ rbuf' \in Seq(Byte) /\ impl' \in {"unopened", "open", "null", "freed"}
      BY <1>2
  <2> QED BY <1>1, <1>2, <1>3, <1>4, <1>5, <2>1 DEF TypeOK, Loops
<1>7. TerminatorFits' /\ ScannerComplete'
    BY <1>2, <1>3 DEF Inv, TerminatorFits, ScannerComplete
<1>8. NoUseAfterClose'
    BY <1>1, <1>2, <1>4 DEF NoUseAfterClose
<1> QED BY <1>2, <1>6, <1>7, <1>8, BufferEmptied DEF Inv

LEMMA InvRefused ==
    ASSUME Inv, CloseAgain \/ \E o \in Procedures : Refused(o)
    PROVE  Inv'
<1>1. TypeOK /\ impl \in {"null", "freed"} /\ op = "idle"
    BY DEF Inv, CloseAgain, Refused, Idle
<1>2. PICK o \in Procedures \cup {"close-port"}, k \in {"none", "closed", "undefined"} :
        /\ seen' = [op |-> o, kind |-> k, ch |-> 0]
        /\ k = "undefined" => impl = "freed"
        /\ loop' = NoLoop
        /\ UNCHANGED <<ports, codec, impl, source, rbuf, linenum, op, output, written, back>>
    BY DEF CloseAgain, Refused, Ended
<1>3. UNCHANGED <<cport, bport, out, buf_size>>
    BY <1>2 DEF ports, output
<1>4. loop' \in Loops /\ loop'.kind = "none"
    BY <1>2 DEF NoLoop, Loops
<1>5. seen' \in [op : Procedures \cup {"none", "write-char", "set-codec", "close-port"},
                 kind : Kinds, ch : Nat]
    BY <1>2 DEF Kinds
<1>6. TypeOK'
    BY <1>1, <1>2, <1>3, <1>4, <1>5 DEF TypeOK, Loops
<1>7. TerminatorFits' /\ ScannerComplete'
    BY <1>2, <1>3 DEF Inv, TerminatorFits, ScannerComplete
<1>8. NoUseAfterClose'
    BY <1>1, <1>2, <1>4 DEF Inv, NoUseAfterClose
<1> QED BY <1>2, <1>6, <1>7, <1>8, BufferKept DEF Inv

LEMMA NextInv == Inv /\ [Next]_vars => Inv'
<1> SUFFICES ASSUME Inv, [Next]_vars PROVE Inv'
    OBVIOUS
<1>1. TypeOK
    BY DEF Inv
<1>2. ASSUME NEW ch \in Chars, scm_p_write_char(ch) PROVE Inv'
    BY <1>2, InvWriteChar
<1>3. ASSUME NEW s \in Texts, NEW start \in 0 .. MaxWrites, NEW end \in 0 .. MaxWrites,
             start <= end, end <= Len(s),
             scm_p_write_string(s, start, end) \/ scm_p_write_bytevector(s, start, end)
      PROVE  Inv'
  <2>1. SubSeq(s, start + 1, end) \in Seq(Nat)
      BY <1>3, TextsAssumption, MaxWritesAssumption
  <2>2. PutAll(SubSeq(s, start + 1, end))
      BY <1>3 DEF scm_p_write_string, scm_p_write_bytevector
  <2> QED BY <2>1, <2>2, InvPutAll
<1>4. CASE scm_p_srfi6_open_input_string \/ scm_p_open_input_bytevector
  <2>1. out \in Seq(Byte) /\ CString(out) \in Seq(Byte)
      BY <1>1, CStringPrefix DEF TypeOK
  <2> QED BY <1>4, <2>1, InvOpened DEF scm_p_srfi6_open_input_string, scm_p_open_input_bytevector
<1>5. CASE scm_p_read_line
    BY <1>5, InvBegin DEF scm_p_read_line
<1>6. ASSUME NEW k \in Lengths, scm_p_read_string(k) \/ scm_p_read_bytevector(k) PROVE Inv'
    BY <1>6, TextsAssumption, InvBegin DEF scm_p_read_string, scm_p_read_bytevector
<1>7. ASSUME NEW start \in Lengths, NEW end \in Lengths, scm_p_read_bytevectorx(start, end) PROVE Inv'
  <2>1. end - start \in Int
      BY TextsAssumption
  <2> QED BY <1>7, <2>1, InvBegin DEF scm_p_read_bytevectorx
<1>8. ASSUME NEW o \in Procedures, Enter(o) PROVE Inv'
  <2>1. loop' \in Loops /\ Call(o) /\ impl = "open"
      BY <1>8 DEF Enter, NoLoop, Loops
  <2> QED BY <2>1, InvCall
<1>9. CASE CloseAgain \/ \E o \in Procedures : Refused(o)
    BY <1>9, InvRefused
<1>10. CASE Running
    BY <1>10, InvError, InvChar, InvEof, InvByte, InvSbcport, InvFails, InvReadChars DEF Running
<1>11. ASSUME NEW c \in Codecs, ScmMultiByteCharPort_set_codec(c) PROVE Inv'
    BY <1>11, InvSetCodec
<1>12. CASE scm_port_close
    BY <1>12, InvClose
<1>13. CASE UNCHANGED vars
  <2>1. UNCHANGED <<cport, bport, codec, impl, source, rbuf, linenum, op, seen, out, buf_size, written, back, loop>>
      BY <1>13 DEF vars, ports, output
  <2>2. TypeOK' /\ TerminatorFits' /\ ScannerComplete' /\ NoUseAfterClose'
      BY <2>1 DEF Inv, TypeOK, TerminatorFits, ScannerComplete, NoUseAfterClose
  <2>3. UNCHANGED <<ports, codec, rbuf>>
      BY <2>1 DEF ports
  <2> QED BY <2>2, <2>3, BufferKept DEF Inv
<1> QED BY <1>2, <1>3, <1>4, <1>5, <1>6, <1>7, <1>8, <1>9, <1>10, <1>11, <1>12, <1>13 DEF Next

(* The buffer of a multibyte port holds at most one character and never    *)
(* more than SCM_MB_MAX_LEN bytes, the scanner error is never raised, the  *)
(* output string has room for its terminating zero, and no freed port is   *)
(* used: for every input, codec, order of calls and failure of the byte    *)
(* port.                                                                   *)
THEOREM BufferInvariant == Spec => []Inv
<1>1. Init => Inv
    BY InitInv
<1>2. Inv /\ [Next]_vars => Inv'
    BY NextInv
<1> QED BY <1>1, <1>2, PTL DEF Spec

-----------------------------------------------------------------------------
(* The refinement of TextStream.                                           *)

(* The scanners of the abstract stream are those of the port.              *)
LEMMA StreamRegions ==
    /\ Stream!Byte = Byte /\ Stream!ASCII = ASCII /\ Stream!GR94 = GR94 /\ Stream!GR96 = GR96
    /\ Stream!GR_SPC_OR_DEL = GR_SPC_OR_DEL /\ Stream!SS2 = SS2 /\ Stream!SS3 = SS3
    /\ Stream!IS_TRAILING = IS_TRAILING /\ Stream!IS_LEN2 = IS_LEN2 /\ Stream!IS_LEN3 = IS_LEN3
    /\ Stream!IS_LEN4 = IS_LEN4 /\ Stream!IS_LEAD = IS_LEAD /\ Stream!IS_TRAIL = IS_TRAIL
    /\ Stream!ReturnError = ReturnError /\ Stream!Codecs = Codecs
    /\ Stream!SCM_MB_MAX_LEN = SCM_MB_MAX_LEN
BY Zenon DEF Stream!Byte, Byte, Stream!ASCII, ASCII, Stream!GR94, GR94, Stream!GR96, GR96,
       Stream!GR_SPC_OR_DEL, GR_SPC_OR_DEL, Stream!SS2, SS2, Stream!SS3, SS3,
       Stream!IS_TRAILING, IS_TRAILING, Stream!IS_LEN2, IS_LEN2, Stream!IS_LEN3, IS_LEN3,
       Stream!IS_LEN4, IS_LEN4, Stream!IS_LEAD, IS_LEAD, Stream!IS_TRAIL, IS_TRAIL,
       Stream!IS_KANA, IS_KANA, Stream!ReturnError, ReturnError, Stream!Codecs, Codecs,
       Stream!SCM_MB_MAX_LEN, SCM_MB_MAX_LEN

LEMMA StreamScan ==
    ASSUME NEW c \in Codecs, NEW s
    PROVE  Stream!scan_char(c, s) = scan_char(c, s)
<1>1. \A form : Stream!Match(s, form) = Match(s, form)
  <2> TAKE form
  <2>1. Stream!ReturnError = ReturnError
      BY StreamRegions
  <2> QED BY Zenon, <2>1 DEF Stream!Match, Match, Stream!Return, Return,
             Stream!ReturnIncomplete, ReturnIncomplete
<1>2. Stream!Return(0) = Return(0) /\ Stream!Return(1) = Return(1)
    BY Zenon DEF Stream!Return, Return
<1>3. Stream!utf8_scan_char(s) = utf8_scan_char(s)
    BY SMT, <1>1, StreamRegions DEF Stream!utf8_scan_char, utf8_scan_char
<1>4. Stream!eucjp_scan_char(s) = eucjp_scan_char(s)
    BY SMT, <1>1, StreamRegions DEF Stream!eucjp_scan_char, eucjp_scan_char
<1>5. Stream!euc_scan_char(s) = euc_scan_char(s)
    BY SMT, <1>1, StreamRegions DEF Stream!euc_scan_char, euc_scan_char
<1>6. Stream!sjis_scan_char(s) = sjis_scan_char(s)
    BY Zenon, <1>1, <1>2, StreamRegions DEF Stream!sjis_scan_char, sjis_scan_char
<1> QED BY SMT, <1>2, <1>3, <1>4, <1>5, <1>6 DEF Stream!scan_char, scan_char, Codecs

LEMMA StreamStr2int ==
    ASSUME NEW c, NEW s
    PROVE  Stream!str2int(c, s) = str2int(c, s)
<1>1. Stream!SCM_ICHAR_EOF = SCM_ICHAR_EOF
    BY DEF Stream!SCM_ICHAR_EOF, SCM_ICHAR_EOF
<1>2. Stream!utf8_str2int(s) = utf8_str2int(s)
    BY SMT, <1>1 DEF Stream!utf8_str2int, utf8_str2int
<1>3. \A max : Stream!euc_str2int(s, max) = euc_str2int(s, max)
    BY SMT, <1>1 DEF Stream!euc_str2int, euc_str2int
<1> QED BY SMT, <1>2, <1>3 DEF Stream!str2int, str2int

(* A string without zero bytes, and a port that has none.                  *)
NoZero(s) == \A i \in 1 .. Len(s) : s[i] # 0

NoZeros == cport = "mb" => NoZero(rbuf) /\ NoZero(source)

(* Only multibyte ports cut their bytes off at a zero.                     *)
LEMMA NoZerosKept ==
    ASSUME \A s \in Inputs : NoZero(s), Inv, NoZeros, [Next]_vars
    PROVE  NoZeros'
<1>1. TypeOK /\ source \in Seq(Byte) /\ rbuf \in Seq(Byte) /\ out \in Seq(Byte)
    BY DEF Inv, TypeOK
<1>2. NoZero(<<>>)
    BY DEF NoZero
<1>3. CString(rbuf) \in Seq(Byte) /\ NoZero(CString(rbuf)) /\ NoZero(CString(out))
    BY <1>1, CStringPrefix DEF NoZero
<1>4. cport' = cport
    BY DEF Next, vars, scm_p_write_char, scm_p_write_string, scm_p_write_bytevector, PutAll,
           scm_p_srfi6_open_input_string, scm_p_open_input_bytevector, Opened, scm_p_read_line,
           scm_p_read_string, scm_p_read_bytevector, scm_p_read_bytevectorx, Begin, Enter, Call,
           Refused, Running, mbcport_error, mbcport_char, mbcport_eof, mbcport_byte, sbcport_char,
           sbcport_eof, sbcport_readyp, fixup_read_char, read_chars, Return1, Stays,
           ScmMultiByteCharPort_set_codec, scm_port_close, CloseAgain, ports
<1>5. cport = "mb" => \/ source' = source
                      \/ source' = CString(out)
                      \/ source' = <<>>
                      \/ mbcport_byte
    BY DEF Next, vars, scm_p_write_char, scm_p_write_string, scm_p_write_bytevector, PutAll,
           scm_p_srfi6_open_input_string, scm_p_open_input_bytevector, Opened, scm_p_read_line,
           scm_p_read_string, scm_p_read_bytevector, scm_p_read_bytevectorx, Begin, Enter, Call,
           Refused, Running, mbcport_error, mbcport_char, mbcport_eof, sbcport_char,
           sbcport_eof, sbcport_readyp, fixup_read_char, read_chars, Return1, Stays,
           ScmMultiByteCharPort_set_codec, scm_port_close, CloseAgain, ports
<1>6. cport = "mb" => \/ rbuf' = rbuf
                      \/ rbuf' = CString(rbuf)
                      \/ rbuf' = <<>>
                      \/ mbcport_byte
    BY DEF Next, vars, scm_p_write_char, scm_p_write_string, scm_p_write_bytevector, PutAll,
           scm_p_srfi6_open_input_string, scm_p_open_input_bytevector, Opened, scm_p_read_line,
           scm_p_read_string, scm_p_read_bytevector, scm_p_read_bytevectorx, Begin, Enter, Call,
           Refused, Running, mbcport_error, mbcport_char, mbcport_eof, sbcport_char,
           sbcport_eof, sbcport_readyp, fixup_read_char, read_chars, Return1, Stays,
           ScmMultiByteCharPort_set_codec, scm_port_close, CloseAgain, ports
<1>7. CASE mbcport_byte /\ cport = "mb"
  <2>1. /\ source # <<>> /\ rbuf' = Append(rbuf, Head(source)) /\ source' = Tail(source)
        /\ NoZero(source) /\ NoZero(rbuf)
      BY <1>7 DEF mbcport_byte, NoZeros
  <2>2. /\ Head(source) = source[1] /\ Len(source) >= 1
        /\ Len(Tail(source)) = Len(source) - 1
        /\ \A i \in 1 .. Len(Tail(source)) : Tail(source)[i] = source[i + 1]
      BY <1>1, <2>1, HeadTailProperties, EmptySeq
  <2>3. NoZero(source')
      BY <1>1, <2>1, <2>2 DEF NoZero
  <2>4. Head(source) \in Byte /\ Head(source) # 0
      BY <1>1, <2>1, <2>2, HeadTailProperties DEF NoZero
  <2>5. NoZero(rbuf')
      BY <1>1, <2>1, <2>4, AppendProperties DEF NoZero
  <2> QED BY <2>3, <2>5 DEF NoZeros
<1>8. CASE ~mbcport_byte \/ cport # "mb"
    BY <1>2, <1>3, <1>4, <1>5, <1>6, <1>8 DEF NoZeros
<1> QED BY <1>7, <1>8

LEMMA InitNoZeros ==
    ASSUME \A s \in Inputs : NoZero(s), Init
    PROVE  NoZeros
<1>1. NoZero(<<>>)
    BY DEF NoZero
<1> QED BY <1>1 DEF Init, NoZeros

LEMMA NoZerosCString ==
    ASSUME Inv, NoZeros, cport = "mb"
    PROVE  CString(rbuf) = rbuf
BY CStringPrefix DEF Inv, TypeOK, NoZeros, NoZero

(* The stream of the port.                                                 *)
Left == IF impl = "open" THEN rbuf \o source ELSE <<>>

Status == IF impl \in {"null", "freed"} THEN "closed" ELSE impl

LEMMA StreamVars ==
    ASSUME Left' = Left, Status' = Status, UNCHANGED <<codec, seen, linenum>>
    PROVE  UNCHANGED Stream!vars
BY DEF Left, Status, Stream!vars

(* The first character of the stream of an open port.                      *)
LEMMA StreamFirst ==
    ASSUME Inv, impl = "open"
    PROVE  /\ Left = rbuf \o source /\ Left \in Seq(Byte) /\ Stream!First = scan_char(codec, Left)
           /\ rbuf # <<>> /\ Scanned.flag # "incomplete" => scan_char(codec, Left) = Scanned
<1>1. rbuf \in Seq(Byte) /\ source \in Seq(Byte) /\ codec \in Codecs
    BY DEF Inv, TypeOK
<1>2. Left = rbuf \o source /\ Left \in Seq(Byte)
    BY <1>1 DEF Left
<1>3. Stream!First = scan_char(codec, Left)
    BY Zenon, <1>1, StreamScan DEF Stream!First, Left
<1>4. rbuf # <<>> /\ Scanned.flag # "incomplete" => scan_char(codec, Left) = Scanned
    BY <1>1, <1>2, ScanStable DEF Scanned
<1> QED BY <1>2, <1>3, <1>4

LEMMA StreamWrites ==
    ASSUME Inv, impl = "unopened", UNCHANGED <<ports, codec, impl, source, rbuf, linenum>>,
           \E k \in {"none", "invalid"} : Ended("write-char", k, 0)
    PROVE  Stream!Elsewhere
BY DEF Stream!Elsewhere, Stream!Seen, Ended

LEMMA StreamOpens ==
    ASSUME Inv, NEW bytes \in Seq(Byte), Opened(bytes)
    PROVE  Stream!Open
<1>1. rbuf = <<>>
    BY DEF Opened, Inv, NoUseAfterClose
<1>2. rbuf' \o source' = bytes
    BY <1>1, ConcatEmptySeq DEF Opened
<1>3. bytes \in Seq(Stream!Byte)
    BY StreamRegions
<1> QED BY <1>2, <1>3 DEF Stream!Open, Opened

(* A procedure that starts changes nothing a reader can see.               *)
LEMMA StreamCall ==
    ASSUME Inv, NoZeros, NEW o, Call(o)
    PROVE  UNCHANGED Stream!vars
<1>1. rbuf' = rbuf
    BY NoZerosCString DEF Call
<1> QED BY <1>1 DEF Call, Stream!vars

LEMMA StreamKept ==
    ASSUME UNCHANGED <<impl, source, rbuf, codec, seen, linenum>>
    PROVE  UNCHANGED Stream!vars
BY DEF Stream!vars

(* A procedure that ends, having taken the first character or nothing.     *)
LEMMA StreamReturns ==
    ASSUME Inv, op \in Procedures, NEW k, NEW c, Return1(k, c)
    PROVE  /\ impl = "open" /\ impl' = "open" /\ codec' = codec
           /\ Left = rbuf \o source /\ Left' = rbuf' \o source'
           /\ Stream!Seen(op, k, c)
<1>1. impl = "open"
    BY InProgress
<1> QED BY <1>1 DEF Return1, Left, Stream!Seen, Ended

LEMMA StreamError ==
    ASSUME Inv, mbcport_error
    PROVE  Stream!Broken
<1>1. Scanned.flag = "error" /\ Return1("broken", 0) /\ UNCHANGED <<source, rbuf, linenum>>
    BY InvError DEF mbcport_error
<1>2. op \in Procedures /\ TypeOK /\ OneCharacterBuffered
    BY DEF mbcport_error, Filling, Inv
<1>3. /\ impl = "open" /\ impl' = "open" /\ codec' = codec
      /\ Stream!Seen(op, "broken", 0)
    BY <1>1, <1>2, StreamReturns
<1>4. Stream!First.flag = "error"
  <2>1. rbuf # <<>>
      BY <1>1, <1>2, ScannedCases
  <2> QED BY <1>1, <1>3, <2>1, StreamFirst
<1>5. op \in Stream!Procedures
    BY <1>2 DEF Procedures, Stream!Procedures
<1> QED BY <1>1, <1>3, <1>4, <1>5 DEF Stream!Broken

LEMMA StreamChar ==
    ASSUME Inv, mbcport_char
    PROVE  Stream!Read \/ Stream!Peek \/ Stream!Ready
<1>1. TypeOK /\ OneCharacterBuffered /\ op \in Procedures /\ codec \in Codecs
      /\ rbuf \in Seq(Byte) /\ source \in Seq(Byte)
    BY DEF Inv, mbcport_char, Filling, TypeOK
<1>2. /\ rbuf # <<>> /\ Scanned = Return(Len(rbuf)) /\ Len(rbuf) \in 1 .. 4
      /\ SubSeq(rbuf, 1, Scanned.size) = rbuf
    BY <1>1, ScannedCases DEF mbcport_char
<1> DEFINE ch == str2int(codec, rbuf)
<1>3. Return1(IF op = "char-ready?" THEN "ready" ELSE "char", IF op = "char-ready?" THEN 0 ELSE ch)
    BY <1>2 DEF mbcport_char
<1>4. /\ Taken(ch) /\ rbuf' = IF op = "read-char" THEN <<>> ELSE rbuf
      /\ source' = source
    BY <1>2 DEF mbcport_char
<1>5. /\ impl = "open" /\ impl' = "open" /\ codec' = codec
      /\ Left = rbuf \o source /\ Left' = rbuf' \o source'
      /\ Stream!Seen(op, IF op = "char-ready?" THEN "ready" ELSE "char", IF op = "char-ready?" THEN 0 ELSE ch)
    BY <1>1, <1>3, StreamReturns
<1>6. Stream!First = Return(Len(rbuf))
    BY <1>2, <1>5, StreamFirst DEF Return
<1>7. SubSeq(Left, 1, Len(rbuf)) = rbuf /\ SubSeq(Left, Len(rbuf) + 1, Len(Left)) = source
    BY <1>1, <1>5, Parts
<1>8. Stream!First.flag = "none" /\ Stream!First.size = Len(rbuf) /\ Stream!First.size > 0
    BY <1>2, <1>6 DEF Return
<1>9. Stream!str2int(codec, SubSeq(Left, 1, Stream!First.size)) = ch
    BY Zenon, <1>7, <1>8, StreamStr2int
<1> HIDE DEF ch
<1>10. CASE op = "read-char"
  <2>1. Stream!Seen("read-char", "char", ch) /\ seen'.ch = ch
      BY <1>5, <1>10 DEF Stream!Seen
  <2>2. Left' = source
      BY <1>1, <1>4, <1>5, <1>10, ConcatEmptySeq
  <2>3. Left' = SubSeq(Left, Stream!First.size + 1, Len(Left))
      BY <1>7, <1>8, <2>2
  <2>4. linenum' = linenum + (IF seen'.ch = Stream!Newline THEN 1 ELSE 0)
      BY <1>4, <1>10, <2>1 DEF Taken, Newline, Stream!Newline
  <2>5. Status = "open" /\ UNCHANGED <<codec, Status>>
      BY <1>5 DEF Status
  <2> QED BY Zenon, <1>8, <1>9, <2>1, <2>3, <2>4, <2>5 DEF Stream!Read, Left, Status
<1>11. CASE op # "read-char"
  <2>1. Left' = Left /\ linenum' = linenum
    <3>1. rbuf' = rbuf /\ linenum' = linenum + 0
        BY <1>4, <1>11 DEF Taken
    <3>2. linenum \in Nat
        BY <1>1 DEF TypeOK
    <3>3. Left' = Left
        BY <1>4, <1>5, <3>1
    <3> QED BY <3>1, <3>2, <3>3
  <2>2. Status = "open" /\ UNCHANGED <<codec, Status>>
      BY <1>5 DEF Status
  <2>3. CASE op = "peek-char"
    <3>1. Stream!Seen("peek-char", "char", ch)
        BY <1>5, <2>3
    <3>2. UNCHANGED <<Left, codec, Status, linenum>>
        BY <2>1, <2>2
    <3> QED BY Zenon, <1>8, <1>9, <2>2, <3>1, <3>2 DEF Stream!Peek, Left, Status
  <2>4. CASE op = "char-ready?"
    <3>1. Stream!Seen("char-ready?", "ready", 0)
        BY <1>5, <2>4
    <3>2. Stream!First.flag # "error" /\ Stream!First.flag # "incomplete"
        BY <1>8
    <3>3. Left' = IF Stream!First.flag = "incomplete" THEN <<>> ELSE Left
        BY <2>1, <3>2
    <3>4. UNCHANGED <<codec, Status, linenum>>
        BY <2>1, <2>2
    <3> QED BY Zenon, <2>2, <3>1, <3>2, <3>3, <3>4 DEF Stream!Ready, Left, Status
  <2> QED BY <1>1, <1>11, <2>3, <2>4 DEF Procedures
<1> QED BY <1>10, <1>11

LEMMA StreamEof ==
    ASSUME Inv, mbcport_eof
    PROVE  Stream!AtEnd \/ Stream!Ready
<1>1. /\ TypeOK /\ OneCharacterBuffered /\ op \in Procedures /\ codec \in Codecs
      /\ rbuf \in Seq(Byte) /\ Wanting
    BY DEF Inv, mbcport_eof, Wanting, Filling, TypeOK
<1>2. /\ Return1(IF op = "char-ready?" THEN "ready" ELSE "eof", 0)
      /\ rbuf' = <<>> /\ source' = <<>> /\ source = <<>> /\ linenum' = linenum
    BY DEF mbcport_eof
<1>3. /\ impl = "open" /\ impl' = "open" /\ codec' = codec
      /\ Left = rbuf \o source /\ Left' = rbuf' \o source'
      /\ Stream!Seen(op, IF op = "char-ready?" THEN "ready" ELSE "eof", 0)
    BY <1>1, <1>2, StreamReturns
<1>4. Left = rbuf /\ Left' = <<>>
    BY <1>1, <1>2, <1>3, ConcatEmptySeq
<1>5. Stream!First = Scanned
    BY <1>3, <1>4, StreamFirst DEF Scanned
<1>6. /\ Left = <<>> \/ Stream!First.flag = "incomplete"
      /\ Stream!First.flag # "error"
    BY <1>1, <1>4, <1>5, ScannedCases DEF Wanting
<1>7. Status = "open" /\ UNCHANGED <<codec, Status, linenum>>
    BY <1>2, <1>3 DEF Status
<1>8. CASE op = "char-ready?"
  <2>1. Stream!Seen("char-ready?", "ready", 0)
      BY <1>3, <1>8
  <2>2. Left' = IF Stream!First.flag = "incomplete" THEN <<>> ELSE Left
      BY <1>4, <1>6
  <2> QED BY Zenon, <1>6, <1>7, <2>1, <2>2 DEF Stream!Ready, Left, Status
<1>9. CASE op # "char-ready?"
  <2>1. op \in {"read-char", "peek-char"} /\ Stream!Seen(op, "eof", 0)
      BY <1>1, <1>3, <1>9 DEF Procedures
  <2> QED BY Zenon, <1>4, <1>6, <1>7, <2>1 DEF Stream!AtEnd, Left, Status
<1> QED BY <1>8, <1>9

(* A procedure that fails and takes nothing.                               *)
LEMMA StreamFails ==
    ASSUME Inv, op \in Procedures, NEW k \in {"ioerror", "unsupported"}, Return1(k, 0),
           rbuf' \o source' = rbuf \o source, linenum' = linenum
    PROVE  Stream!Fail
<1>1. /\ impl = "open" /\ impl' = "open" /\ codec' = codec
      /\ Left = rbuf \o source /\ Left' = rbuf' \o source'
      /\ Stream!Seen(op, k, 0)
    BY StreamReturns
<1>2. Status = "open" /\ UNCHANGED <<Left, codec, Status, linenum>>
    BY <1>1 DEF Status
<1>3. op \in Stream!Procedures
    BY DEF Procedures, Stream!Procedures
<1> QED BY Zenon, <1>1, <1>2, <1>3 DEF Stream!Fail, Left, Status

LEMMA StreamByte ==
    ASSUME Inv, mbcport_byte
    PROVE  Stream!Fail \/ UNCHANGED Stream!vars
<1>1. /\ op \in Procedures /\ rbuf \in Seq(Byte) /\ source \in Seq(Byte) /\ source # <<>>
    BY DEF Inv, mbcport_byte, Wanting, Filling, TypeOK
<1>2. rbuf' \o source' = rbuf \o source /\ linenum' = linenum
    BY <1>1, Parts DEF mbcport_byte
<1>3. CASE Return1("unsupported", 0)
    BY <1>1, <1>2, <1>3, StreamFails
<1>4. CASE UNCHANGED <<impl, codec, seen>>
  <2>1. Left' = Left /\ Status' = Status
      BY <1>2, <1>4 DEF Left, Status
  <2> QED BY <1>2, <1>4, <2>1, StreamVars
<1> QED BY <1>3, <1>4 DEF mbcport_byte

(* The single-byte port, whose characters are bytes.                       *)
LEMMA StreamSbcport ==
    ASSUME Inv, sbcport_char \/ sbcport_eof \/ sbcport_readyp
    PROVE  Stream!Read \/ Stream!Peek \/ Stream!AtEnd \/ Stream!Ready \/ Stream!Fail
<1>1. /\ TypeOK /\ op \in Procedures /\ cport = "sb" /\ rbuf = <<>> /\ rbuf' = <<>> /\ codec = "ISO-8859-1"
      /\ source \in Seq(Byte) /\ codec \in Codecs
    BY DEF Inv, sbcport_char, sbcport_eof, sbcport_readyp, TypeOK, OneCharacterBuffered, Procedures
<1>2. PICK k, c : k \in {"char", "eof", "unsupported", "ready"} /\ Return1(k, c)
    BY DEF sbcport_char, sbcport_eof, sbcport_readyp
<1>3. impl = "open" /\ impl' = "open" /\ codec' = codec
    BY <1>1, <1>2, StreamReturns
<1>4. source' \in Seq(Byte) /\ Left = source /\ Left' = source'
  <2>1. source # <<>> => Tail(source) \in Seq(Byte)
      BY <1>1, HeadTailProperties
  <2>2. source' \in {source, Tail(source)} /\ (source' # source => source # <<>>)
      BY DEF sbcport_char, sbcport_eof, sbcport_readyp
  <2>3. source' \in Seq(Byte)
      BY <1>1, <2>1, <2>2
  <2> QED BY <1>1, <1>3, <2>3, ConcatEmptySeq DEF Left
<1>5. Status = "open" /\ UNCHANGED <<codec, Status>>
    BY <1>3 DEF Status
<1>6. Stream!First = IF source = <<>> THEN Return(0) ELSE Return(1)
    BY <1>1, <1>3, <1>4, StreamFirst DEF scan_char
<1>7. CASE sbcport_char
  <2>1. /\ source # <<>> /\ op \in {"read-char", "peek-char"} /\ Return1("char", Head(source))
        /\ Taken(Head(source)) /\ source' = IF op = "read-char" THEN Tail(source) ELSE source
      BY <1>7 DEF sbcport_char
  <2>2. Stream!Seen(op, "char", Head(source))
      BY <1>1, <2>1, StreamReturns
  <2>3. Stream!First.flag = "none" /\ Stream!First.size = 1 /\ Stream!First.size > 0
      BY <1>6, <2>1 DEF Return
  <2>4. SubSeq(source, 1, 1) = <<Head(source)>> /\ SubSeq(source, 2, Len(source)) = Tail(source)
    <3>1. Len(source) \in Nat \ {0} /\ Head(source) = source[1]
        BY <1>1, <2>1, EmptySeq
    <3>2. SubSeq(source, 1, 1) \in Seq(Byte) /\ Len(SubSeq(source, 1, 1)) = 1
          /\ SubSeq(source, 1, 1)[1] = source[1]
        BY <1>1, <3>1
    <3>3. SubSeq(source, 1, 1) = <<Head(source)>>
      <4> DEFINE t == SubSeq(source, 1, 1)
      <4> HIDE DEF t
      <4>1. t \in Seq(Byte) /\ Len(t) = 1 /\ t[1] = source[1]
          BY Zenon, <3>2 DEF t
      <4>2. t = <<t[1]>>
          BY <4>1
      <4> QED BY Zenon, <3>1, <4>1, <4>2 DEF t
    <3>4. Tail(source) = SubSeq(source, 2, Len(source))
        BY <1>1, <2>1, TailIsSubSeq
    <3> QED BY <3>3, <3>4
  <2>5. Stream!str2int(codec, SubSeq(Left, 1, Stream!First.size)) = Head(source)
    <3>1. Stream!str2int(codec, SubSeq(Left, 1, Stream!First.size)) = str2int(codec, <<Head(source)>>)
        BY Zenon, <1>4, <2>3, <2>4, StreamStr2int
    <3>2. str2int(codec, <<Head(source)>>) = Head(source)
        BY SMT, <1>1 DEF str2int, euc_str2int
    <3> QED BY Zenon, <3>1, <3>2
  <2>6. CASE op = "read-char"
    <3>1. Stream!Seen("read-char", "char", Head(source)) /\ seen'.ch = Head(source)
        BY <2>2, <2>6 DEF Stream!Seen
    <3>2. Left' = SubSeq(Left, Stream!First.size + 1, Len(Left))
        BY <1>4, <2>1, <2>3, <2>4, <2>6
    <3>3. linenum' = linenum + (IF seen'.ch = Stream!Newline THEN 1 ELSE 0)
        BY <2>1, <2>6, <3>1 DEF Taken, Newline, Stream!Newline
    <3> QED BY Zenon, <1>5, <2>3, <2>5, <3>1, <3>2, <3>3 DEF Stream!Read, Left, Status
  <2>7. CASE op = "peek-char"
    <3>1. Stream!Seen("peek-char", "char", Head(source))
        BY <2>2, <2>7
    <3>2. linenum' = linenum /\ Left' = Left
      <4>1. linenum' = linenum + 0 /\ source' = source
          BY <2>1, <2>7 DEF Taken
      <4>2. linenum \in Nat
          BY <1>1 DEF TypeOK
      <4> QED BY <1>4, <4>1, <4>2
    <3> QED BY Zenon, <1>5, <2>3, <2>5, <3>1, <3>2 DEF Stream!Peek, Left, Status
  <2> QED BY <2>1, <2>6, <2>7
<1>8. CASE sbcport_eof
  <2>1. /\ op \in {"read-char", "peek-char"} /\ source = <<>> /\ Return1("eof", 0)
        /\ source' = source /\ linenum' = linenum
      BY <1>8 DEF sbcport_eof
  <2>2. Stream!Seen(op, "eof", 0)
      BY <1>1, <2>1, StreamReturns
  <2> QED BY Zenon, <1>4, <1>5, <2>1, <2>2 DEF Stream!AtEnd, Left, Status
<1>9. CASE sbcport_readyp
  <2>1. /\ op = "char-ready?" /\ source' = source /\ linenum' = linenum
        /\ Return1(IF bport = "file" THEN "unsupported" ELSE "ready", 0)
      BY <1>9 DEF sbcport_readyp
  <2>2. CASE bport = "file"
    <3>1. rbuf' \o source' = rbuf \o source /\ Return1("unsupported", 0)
        BY <1>1, <2>1, <2>2
    <3> QED BY <1>1, <2>1, <3>1, StreamFails
  <2>3. CASE bport # "file"
    <3>1. Stream!Seen("char-ready?", "ready", 0)
        BY <1>1, <2>1, <2>3, StreamReturns
    <3>2. Stream!First.flag # "error" /\ Stream!First.flag # "incomplete"
        BY <1>6 DEF Return
    <3>3. Left' = IF Stream!First.flag = "incomplete" THEN <<>> ELSE Left
        BY <1>4, <2>1, <3>2
    <3> QED BY Zenon, <1>5, <2>1, <3>1, <3>2, <3>3 DEF Stream!Ready, Left, Status
  <2> QED BY <2>2, <2>3
<1> QED BY <1>7, <1>8, <1>9

LEMMA StreamSetCodec ==
    ASSUME Inv, NoZeros, NEW c \in Codecs, ScmMultiByteCharPort_set_codec(c)
    PROVE  Stream!SetCodec
<1>1. /\ rbuf \in Seq(Byte) /\ source \in Seq(Byte) /\ impl = "open" /\ impl' = impl
      /\ source' = source /\ linenum' = linenum /\ codec' = c /\ cport = "mb"
      /\ Len(rbuf) \in Nat /\ Len(rbuf) <= 4 /\ Len(source) \in Nat
    BY DEF Inv, TypeOK, OneCharacterBuffered, SCM_MB_MAX_LEN, ScmMultiByteCharPort_set_codec
<1>2. rbuf' = IF Len(rbuf) > 1 THEN <<>> ELSE rbuf
    BY <1>1, NoZerosCString DEF ScmMultiByteCharPort_set_codec
<1>3. /\ Left = rbuf \o source /\ Left' = rbuf' \o source /\ Left \in Seq(Byte)
      /\ Len(Left) = Len(rbuf) + Len(source)
    BY <1>1, ConcatProperties DEF Left
<1>4. Status = "open" /\ UNCHANGED <<Status, linenum>> /\ codec' \in Stream!Codecs
    BY <1>1, StreamRegions DEF Status
<1>5. Stream!Seen("set-codec", "none", 0)
    BY DEF ScmMultiByteCharPort_set_codec, Ended, Stream!Seen
<1>6. \E n \in {0} \cup (2 .. Stream!SCM_MB_MAX_LEN) :
         n <= Len(Left) /\ Left' = SubSeq(Left, n + 1, Len(Left))
  <2>1. CASE Len(rbuf) > 1
    <3>1. Len(rbuf) \in {0} \cup (2 .. Stream!SCM_MB_MAX_LEN) /\ Len(rbuf) <= Len(Left)
      <4>1. Stream!SCM_MB_MAX_LEN = 4
          BY StreamRegions DEF SCM_MB_MAX_LEN
      <4>2. \A n \in Nat : n > 1 /\ n <= 4 => n \in {0} \cup (2 .. 4)
          OBVIOUS
      <4>3. Len(rbuf) \in {0} \cup (2 .. Stream!SCM_MB_MAX_LEN)
          BY Zenon, <1>1, <2>1, <4>1, <4>2
      <4> QED BY <1>1, <1>3, <4>3
    <3>2. Left' = source
        BY <1>1, <1>2, <1>3, <2>1, ConcatEmptySeq
    <3>3. SubSeq(Left, Len(rbuf) + 1, Len(Left)) = source
        BY <1>1, <1>3, Parts
    <3> QED BY <3>1, <3>2, <3>3
  <2>2. CASE ~(Len(rbuf) > 1)
    <3>1. Left' = Left
        BY <1>2, <1>3, <2>2
    <3>2. SubSeq(Left, 0 + 1, Len(Left)) = Left
        BY <1>3, SubSeqFull
    <3>3. 0 <= Len(Left)
        BY <1>1, <1>3
    <3> QED BY <3>1, <3>2, <3>3
  <2> QED BY <2>1, <2>2
<1> QED BY Zenon, <1>4, <1>5, <1>6 DEF Stream!SetCodec, Left, Status

LEMMA StreamCloses ==
    ASSUME Inv, ~ClosesFail
    PROVE  /\ scm_port_close => Stream!Close
           /\ CloseAgain => Stream!Closed
           /\ \A o \in Procedures : Refused(o) => Stream!Closed
<1>1. ASSUME scm_port_close PROVE Stream!Close
  <2>1. /\ impl = "open" /\ impl' = "null" /\ UNCHANGED <<codec, linenum>>
        /\ Stream!Seen("close-port", "none", 0)
      BY <1>1 DEF scm_port_close, Ended, Stream!Seen
  <2> QED BY <2>1 DEF Stream!Close
<1>2. impl # "freed"
    BY DEF Inv, NoUseAfterClose
<1>3. ASSUME CloseAgain PROVE Stream!Closed
  <2>1. /\ impl = "null" /\ impl' = "null" /\ UNCHANGED <<codec, linenum>>
        /\ Stream!Seen("close-port", "none", 0)
      BY <1>2, <1>3 DEF CloseAgain, Ended, Stream!Seen
  <2> QED BY <2>1 DEF Stream!Closed
<1>4. ASSUME NEW o \in Procedures, Refused(o) PROVE Stream!Closed
  <2>1. /\ impl = "null" /\ impl' = "null" /\ UNCHANGED <<codec, linenum>>
        /\ Stream!Seen(o, "closed", 0)
      BY <1>2, <1>4 DEF Refused, Ended, Stream!Seen
  <2>2. o \in Stream!Procedures
      BY DEF Procedures, Stream!Procedures
  <2> QED BY <2>1, <2>2 DEF Stream!Closed
<1> QED BY <1>1, <1>3, <1>4

LEMMA StreamInit == Init => Stream!Init
<1> SUFFICES ASSUME Init PROVE Stream!Init
    OBVIOUS
<1>1. source \in Seq(Byte) /\ rbuf = <<>> /\ impl \in {"unopened", "open"} /\ codec \in Codecs
    BY InitInv DEF Inv, TypeOK, Init
<1>2. rbuf \o source = source /\ <<>> \in Seq(Byte)
    BY <1>1, ConcatEmptySeq
<1>3. seen = [op |-> "none", kind |-> "none", ch |-> 0] /\ linenum = 1
    BY DEF Init
<1> QED BY <1>1, <1>2, <1>3, StreamRegions DEF Stream!Init

LEMMA StreamNext ==
    ASSUME Inv, NoZeros, ~ClosesFail, [Next]_vars
    PROVE  [Stream!Next]_(Stream!vars)
<1>1. ASSUME NEW ch \in Chars, scm_p_write_char(ch) PROVE Stream!Next
  <2>1. impl = "unopened" /\ UNCHANGED <<ports, codec, impl, source, rbuf, linenum>>
      BY <1>1 DEF scm_p_write_char
  <2>2. \E k \in {"none", "invalid"} : Ended("write-char", k, 0)
      BY <1>1 DEF scm_p_write_char
  <2> QED BY <2>1, <2>2, StreamWrites DEF Stream!Next
<1>2. ASSUME NEW s, PutAll(s) PROVE Stream!Next
  <2>1. /\ impl = "unopened" /\ UNCHANGED <<ports, codec, impl, source, rbuf, linenum>>
        /\ Ended("write-char", "none", 0)
      BY <1>2 DEF PutAll
  <2> QED BY <2>1, StreamWrites DEF Stream!Next
<1>3. CASE scm_p_srfi6_open_input_string \/ scm_p_open_input_bytevector
  <2>1. out \in Seq(Byte) /\ CString(out) \in Seq(Byte)
      BY CStringPrefix DEF Inv, TypeOK
  <2> QED BY <1>3, <2>1, StreamOpens DEF scm_p_srfi6_open_input_string, scm_p_open_input_bytevector, Stream!Next
<1>4. ASSUME NEW proc, NEW n, Begin(proc, n) PROVE UNCHANGED Stream!vars
    BY <1>4, StreamCall, StreamKept DEF Begin
<1>5. ASSUME NEW o, Enter(o) PROVE UNCHANGED Stream!vars
    BY <1>5, StreamCall DEF Enter
<1>6. CASE Running
  <2>1. CASE fixup_read_char
    <3>1. op \in Procedures /\ Return1("ioerror", 0) /\ UNCHANGED <<source, rbuf, linenum>>
        BY <2>1 DEF fixup_read_char, Wanting, Filling, Procedures
    <3> QED BY <3>1, StreamFails DEF Stream!Next
  <2>2. CASE read_chars
    <3>1. Stays \/ Call("read-char")
        BY <2>2 DEF read_chars
    <3>2. Stays => UNCHANGED <<impl, source, rbuf, codec, seen, linenum>>
        BY DEF Stays
    <3> QED BY <3>1, <3>2, StreamCall, StreamKept
  <2> QED BY <1>6, <2>1, <2>2, StreamError, StreamChar, StreamEof, StreamByte, StreamSbcport DEF Running, Stream!Next
<1>7. ASSUME NEW c \in Codecs, ScmMultiByteCharPort_set_codec(c) PROVE Stream!Next
    BY <1>7, StreamSetCodec DEF Stream!Next
<1>8. CASE scm_port_close \/ CloseAgain \/ \E o \in Procedures : Refused(o)
    BY <1>8, StreamCloses DEF Stream!Next
<1>9. CASE UNCHANGED vars
    BY <1>9, StreamKept DEF vars
<1> QED BY <1>1, <1>2, <1>3, <1>4, <1>5, <1>6, <1>7, <1>8, <1>9
       DEF Next, scm_p_write_string, scm_p_write_bytevector, scm_p_read_line, scm_p_read_string,
           scm_p_read_bytevector, scm_p_read_bytevectorx

(* Buffering is invisible: if fclose() succeeds and the inputs hold no     *)
(* zero byte (which mbcport_fill_rbuf() takes for the end of its buffer),  *)
(* every port is a stream of characters that are read one after the other, *)
(* each of them whole, whatever is peeked, asked for or interrupted.       *)
THEOREM PortIsTextStream ==
    ASSUME ~ClosesFail, \A s \in Inputs : NoZero(s)
    PROVE  Spec => DeliversStream
<1>1. Init => Stream!Init /\ NoZeros
    BY StreamInit, InitNoZeros
<1>2. Inv /\ NoZeros /\ [Next]_vars => NoZeros' /\ [Stream!Next]_(Stream!vars)
    BY NoZerosKept, StreamNext
<1> QED BY <1>1, <1>2, BufferInvariant, PTL DEF Spec, DeliversStream, Stream!Spec

-----------------------------------------------------------------------------
(* What is written is read back.                                           *)

(* A character port and its codec.                                         *)
PortKind(cp, cd) == cp \in {"mb", "sb"} /\ cd \in Codecs /\ (cp = "sb" => cd = "ISO-8859-1")

(* The characters that a port can write and read back; a zero would end    *)
(* the string the reading port is opened on.                               *)
Writable(cp, cd, ch) ==
    ch \in Nat /\ ch # 0 /\ Encodable(cd, ch) /\ (cp = "sb" => ch \in Byte)

(* put_char and Bytes of a port of the kind cp with the codec cd.          *)
CharBytes(cp, cd, ch) == IF cp = "sb" THEN <<ch % 256>> ELSE int2str(cd, ch)

TextBytes(cp, cd, w) == FlattenSeq([i \in DOMAIN w |-> CharBytes(cp, cd, w[i])])

LEMMA BytesOfPort ==
    /\ TypeOK => PortKind(cport, codec)
    /\ \A ch : put_char(ch) = CharBytes(cport, codec, ch)
    /\ \A w : Bytes(w) = TextBytes(cport, codec, w)
<1>1. \A ch : put_char(ch) = CharBytes(cport, codec, ch)
    BY Zenon DEF put_char, CharBytes
<1>2. TypeOK => PortKind(cport, codec)
    BY Zenon DEF TypeOK, PortKind
<1>3. \A w : Bytes(w) = TextBytes(cport, codec, w)
    BY <1>1 DEF Bytes, TextBytes
<1> QED BY <1>1, <1>2, <1>3

(* They are written as their bytes, none of which is a zero.               *)
LEMMA WritableBytes ==
    ASSUME NEW cp, NEW cd, PortKind(cp, cd), NEW ch, Writable(cp, cd, ch)
    PROVE  CharBytes(cp, cd, ch) = int2str(cd, ch) /\ CharBytes(cp, cd, ch) \in Seq(Byte \ {0})
<1>1. cd \in Codecs /\ ch \in Nat /\ ch # 0 /\ Encodable(cd, ch)
    BY DEF PortKind, Writable
<1>2. CharBytes(cp, cd, ch) = int2str(cd, ch)
  <2>1. CASE cp = "sb"
    <3>1. cd = "ISO-8859-1" /\ ch \in Byte
        BY <2>1 DEF PortKind, Writable
    <3>2. ch % 256 = ch /\ ch <= 255
        BY SMT, <3>1 DEF Byte
    <3> QED BY SMT, <2>1, <3>1, <3>2 DEF CharBytes, int2str, unibyte_int2str
  <2>2. CASE cp # "sb"
      BY <2>2 DEF CharBytes
  <2> QED BY <2>1, <2>2
<1> DEFINE s == int2str(cd, ch)
<1>3. /\ s \in Seq(Byte) /\ Len(s) \in 1 .. 4
      /\ scan_char(cd, s \o <<>>) = Return(Len(s))
      /\ str2int(cd, SubSeq(s \o <<>>, 1, Len(s))) = ch
  <2>1. <<>> \in Seq(Byte)
      OBVIOUS
  <2> QED BY Zenon, <1>1, <2>1, CharactersReadBack DEF SCM_MB_MAX_LEN
<1> HIDE DEF s
<1>4. scan_char(cd, s) = Return(Len(s)) /\ str2int(cd, s) = ch /\ s # <<>>
  <2>1. s \o <<>> = s
      BY Zenon, <1>3, ConcatEmptySeq
  <2>2. SubSeq(s, 1, Len(s)) = s
      BY Zenon, <1>3, SubSeqFull
  <2>3. s # <<>>
      BY SMTT(10), <1>3
  <2> QED BY Zenon, <1>3, <2>1, <2>2, <2>3
<1>5. ASSUME Len(s) = 1 PROVE s[1] # 0
  <2>1. str2int(cd, s) = s[1]
      BY SMT, <1>5 DEF str2int, utf8_str2int, euc_str2int
  <2> QED BY Zenon, <1>1, <1>4, <2>1
<1>6. ASSUME NEW form \in Forms, Len(form) # 1, NEW i \in 1 .. Len(form) PROVE 0 \notin form[i]
  <2>1. /\ 0 \notin IS_TRAILING /\ 0 \notin IS_LEN2 /\ 0 \notin IS_LEN3 /\ 0 \notin IS_LEN4
        /\ 0 \notin GR94 /\ 0 \notin GR96 /\ 0 # SS2 /\ 0 # SS3 /\ 0 \notin GR_SPC_OR_DEL
        /\ 0 \notin IS_LEAD /\ 0 \notin IS_TRAIL
      BY DEF IS_TRAILING, IS_LEN2, IS_LEN3, IS_LEN4, GR94, GR96, SS2, SS3, GR_SPC_OR_DEL,
             IS_LEAD, IS_TRAIL
  <2>2. CASE Len(form) = 2
    <3>1. i = 1 \/ i = 2
        BY <2>2
    <3> QED BY <2>1, <2>2, <3>1 DEF Forms
  <2>3. CASE Len(form) = 3
    <3>1. i = 1 \/ i = 2 \/ i = 3
        BY <2>3
    <3> QED BY <2>1, <2>3, <3>1 DEF Forms
  <2>4. CASE Len(form) = 4
    <3>1. i = 1 \/ i = 2 \/ i = 3 \/ i = 4
        BY <2>4
    <3> QED BY <2>1, <2>4, <3>1 DEF Forms
  <2>5. Len(form) \in 1 .. 4
      BY FormsType
  <2> QED BY <1>6, <2>2, <2>3, <2>4, <2>5
<1>7. \A i \in 1 .. Len(s) : s[i] # 0
  <2>1. CASE Len(s) = 1
    <3>1. s[1] # 0
        BY <1>5, <2>1
    <3> QED BY <2>1, <3>1
  <2>2. CASE Len(s) # 1
    <3>1. \E form \in Forms : scan_char(cd, s) = Match(s, form)
      <4>1. scan_char(cd, s) # ReturnError /\ scan_char(cd, s) # Return(1)
          BY <1>4, <2>2 DEF Return, ReturnError
      <4> QED BY <1>1, <1>3, <1>4, <4>1, ScanForm
    <3>2. PICK form \in Forms : scan_char(cd, s) = Match(s, form)
        BY <3>1
    <3>3. form \in Seq(SUBSET Byte) /\ Match(s, form) = Return(Len(s))
        BY <1>4, <3>2, FormsType
    <3>4. Len(form) = Len(s) /\ \A i \in 1 .. Len(form) : s[i] \in form[i]
        BY <1>3, <1>4, <3>3, MatchCases DEF Return, ReturnError, ReturnIncomplete
    <3> QED BY Zenon, <1>6, <2>2, <3>4
  <2> QED BY <2>1, <2>2
<1>8. s \in Seq(Byte \ {0})
  <2>1. \A i \in 1 .. Len(s) : s[i] \in Byte \ {0}
      BY <1>3, <1>7, ElementOfSeq
  <2> QED BY <1>3, <2>1, SeqOfRange, IsASeq
<1> QED BY Zenon, <1>2, <1>8 DEF s

(* The bytes of a text.                                                    *)
LEMMA CharBytesType ==
    ASSUME NEW cp, NEW cd \in Codecs, NEW ch \in Nat
    PROVE  CharBytes(cp, cd, ch) \in Seq(Byte)
<1>1. ch % 256 \in Byte
    BY SMT DEF Byte
<1>2. <<ch % 256>> \in Seq(Byte)
    BY SMT, <1>1
<1> QED BY Zenon, <1>2, Int2strType DEF CharBytes

LEMMA FunctionIsSeq ==
    ASSUME NEW S, NEW n \in Nat, NEW f \in [1 .. n -> S]
    PROVE  f \in Seq(S) /\ Len(f) = n
OBVIOUS

LEMMA BytesConcat ==
    ASSUME NEW cp, NEW cd \in Codecs, NEW s \in Seq(Nat), NEW t \in Seq(Nat)
    PROVE  TextBytes(cp, cd, s \o t) = TextBytes(cp, cd, s) \o TextBytes(cp, cd, t)
<1> DEFINE F(w) == [i \in DOMAIN w |-> CharBytes(cp, cd, w[i])]
<1>1. ASSUME NEW w \in Seq(Nat)
      PROVE  F(w) \in Seq(Seq(Byte)) /\ Len(F(w)) = Len(w) /\ \A i \in 1 .. Len(w) : F(w)[i] = CharBytes(cp, cd, w[i])
  <2>1. ASSUME NEW i \in 1 .. Len(w) PROVE CharBytes(cp, cd, w[i]) \in Seq(Byte)
    <3>1. w[i] \in Nat
        OBVIOUS
    <3> QED BY Zenon, <3>1, CharBytesType
  <2>2. F(w) = [i \in 1 .. Len(w) |-> CharBytes(cp, cd, w[i])] /\ Len(w) \in Nat
      OBVIOUS
  <2>3. F(w) \in [1 .. Len(w) -> Seq(Byte)]
      BY Zenon, <2>1, <2>2
  <2> HIDE DEF F
  <2>4. F(w) \in Seq(Seq(Byte)) /\ Len(F(w)) = Len(w)
      BY Zenon, <2>2, <2>3, FunctionIsSeq
  <2> QED BY Zenon, <2>2, <2>4
<1>2. s \o t \in Seq(Nat) /\ Len(s \o t) = Len(s) + Len(t)
    BY ConcatProperties
<1>3. F(s \o t) = F(s) \o F(t)
  <2> HIDE DEF F
  <2>1. /\ F(s \o t) \in Seq(Seq(Byte)) /\ Len(F(s \o t)) = Len(s) + Len(t)
        /\ F(s) \o F(t) \in Seq(Seq(Byte)) /\ Len(F(s) \o F(t)) = Len(s) + Len(t)
    <3>1. F(s) \in Seq(Seq(Byte)) /\ F(t) \in Seq(Seq(Byte))
        BY <1>1
    <3>2. F(s) \o F(t) \in Seq(Seq(Byte)) /\ Len(F(s) \o F(t)) = Len(F(s)) + Len(F(t))
        BY <3>1, ConcatProperties
    <3> QED BY <1>1, <1>2, <3>2
  <2>2. ASSUME NEW i \in 1 .. Len(s) + Len(t)
        PROVE  F(s \o t)[i] = (F(s) \o F(t))[i]
    <3>1. F(s \o t)[i] = CharBytes(cp, cd, (s \o t)[i])
        BY <1>1, <1>2
    <3>2. CASE i <= Len(s)
      <4>1. (s \o t)[i] = s[i] /\ (F(s) \o F(t))[i] = F(s)[i] /\ i \in 1 .. Len(s)
          BY <1>1, <3>2, ConcatProperties
      <4> QED BY <1>1, <3>1, <4>1
    <3>3. CASE ~(i <= Len(s))
      <4>1. /\ (s \o t)[i] = t[i - Len(s)] /\ (F(s) \o F(t))[i] = F(t)[i - Len(s)]
            /\ i - Len(s) \in 1 .. Len(t)
          BY <1>1, <3>3, ConcatProperties
      <4> QED BY <1>1, <3>1, <4>1
    <3> QED BY <3>2, <3>3
  <2> QED BY <2>1, <2>2, SeqEqual
<1>4. \A w \in Seq(Nat) : TextBytes(cp, cd, w) = FlattenSeq(F(w))
    BY DEF TextBytes
<1> HIDE DEF F
<1>5. FlattenSeq(F(s) \o F(t)) = FlattenSeq(F(s)) \o FlattenSeq(F(t))
    BY <1>1, FlattenConcat
<1> QED BY <1>2, <1>3, <1>4, <1>5

LEMMA BytesOne ==
    ASSUME NEW cp, NEW cd \in Codecs, NEW ch \in Nat
    PROVE  TextBytes(cp, cd, <<ch>>) = CharBytes(cp, cd, ch)
<1>1. [i \in DOMAIN <<ch>> |-> CharBytes(cp, cd, <<ch>>[i])] = <<CharBytes(cp, cd, ch)>>
    OBVIOUS
<1> QED BY <1>1, CharBytesType, FlattenOne DEF TextBytes

LEMMA BytesNone ==
    ASSUME NEW cp, NEW cd
    PROVE  TextBytes(cp, cd, <<>>) = <<>>
<1>1. [i \in DOMAIN <<>> |-> CharBytes(cp, cd, <<>>[i])] = <<>>
    OBVIOUS
<1> QED BY <1>1 DEF TextBytes, FlattenSeq

LEMMA BytesHead ==
    ASSUME NEW cp, NEW cd \in Codecs, NEW w \in Seq(Nat), w # <<>>
    PROVE  /\ Head(w) \in Nat /\ Tail(w) \in Seq(Nat) /\ Head(w) = w[1]
           /\ TextBytes(cp, cd, w) = CharBytes(cp, cd, Head(w)) \o TextBytes(cp, cd, Tail(w))
<1>1. /\ Head(w) \in Nat /\ Tail(w) \in Seq(Nat) /\ Head(w) = w[1] /\ w = <<Head(w)>> \o Tail(w)
    BY HeadTailProperties
<1>2. <<Head(w)>> \in Seq(Nat)
    BY <1>1
<1>3. TextBytes(cp, cd, <<Head(w)>> \o Tail(w)) = TextBytes(cp, cd, <<Head(w)>>) \o TextBytes(cp, cd, Tail(w))
    BY <1>1, <1>2, BytesConcat
<1> QED BY <1>1, <1>3, BytesOne

(* A text that can be written has no zero byte.                            *)
WritableText(cp, cd, w) == \A i \in 1 .. Len(w) : Writable(cp, cd, w[i])

LEMMA WritableTextBytes ==
    ASSUME NEW cp, NEW cd, PortKind(cp, cd), NEW w \in Seq(Nat), WritableText(cp, cd, w)
    PROVE  TextBytes(cp, cd, w) \in Seq(Byte) /\ NoZero(TextBytes(cp, cd, w))
<1>1. \A i \in DOMAIN w : CharBytes(cp, cd, w[i]) \in Seq(Byte \ {0})
    BY WritableBytes DEF WritableText
<1>2. [i \in DOMAIN w |-> CharBytes(cp, cd, w[i])] \in Seq(Seq(Byte \ {0}))
    BY <1>1
<1>3. TextBytes(cp, cd, w) \in Seq(Byte \ {0})
    BY <1>2, FlattenType DEF TextBytes
<1> HIDE DEF TextBytes
<1>4. \A i \in 1 .. Len(TextBytes(cp, cd, w)) : TextBytes(cp, cd, w)[i] \in Byte \ {0}
    BY <1>3, ElementOfSeq
<1> QED BY <1>3, <1>4, SeqMonotonic DEF NoZero

(* The first character of the bytes of a text is that of the text.         *)
LEMMA FirstWritten ==
    ASSUME NEW cp, NEW cd, PortKind(cp, cd), NEW w \in Seq(Nat), WritableText(cp, cd, w), w # <<>>
    PROVE  LET s == CharBytes(cp, cd, Head(w))
               t == TextBytes(cp, cd, Tail(w))
           IN  /\ s \in Seq(Byte) /\ Len(s) \in 1 .. 4 /\ t \in Seq(Byte)
               /\ Head(w) \in Nat /\ Tail(w) \in Seq(Nat) /\ WritableText(cp, cd, Tail(w))
               /\ TextBytes(cp, cd, w) = s \o t
               /\ scan_char(cd, s \o t) = Return(Len(s)) /\ str2int(cd, s) = Head(w)
               /\ cp = "sb" => s = <<Head(w)>>
<1> DEFINE s == CharBytes(cp, cd, Head(w))
           t == TextBytes(cp, cd, Tail(w))
<1>1. cd \in Codecs
    BY DEF PortKind
<1>2. /\ Head(w) \in Nat /\ Tail(w) \in Seq(Nat) /\ Head(w) = w[1]
      /\ TextBytes(cp, cd, w) = s \o t
    BY Zenon, <1>1, BytesHead
<1>3. Len(w) \in Nat /\ Len(w) >= 1 /\ Len(Tail(w)) = Len(w) - 1 /\ \A i \in 1 .. Len(Tail(w)) : Tail(w)[i] = w[i + 1]
    BY HeadTailProperties, EmptySeq
<1>4. Writable(cp, cd, Head(w)) /\ WritableText(cp, cd, Tail(w))
    BY <1>2, <1>3 DEF WritableText
<1>5. s = int2str(cd, Head(w))
    BY Zenon, <1>4, WritableBytes
<1>6. t \in Seq(Byte)
    BY Zenon, <1>2, <1>4, WritableTextBytes
<1>7. Encodable(cd, Head(w))
    BY Zenon, <1>4 DEF Writable
<1> HIDE DEF s, t
<1>8. /\ s \in Seq(Byte) /\ Len(s) \in 1 .. 4
      /\ scan_char(cd, s \o t) = Return(Len(s))
      /\ str2int(cd, SubSeq(s \o t, 1, Len(s))) = Head(w)
    BY Zenon, <1>1, <1>2, <1>5, <1>6, <1>7, CharactersReadBack DEF SCM_MB_MAX_LEN
<1>9. SubSeq(s \o t, 1, Len(s)) = s
    BY ZenonT(30), <1>6, <1>8, Parts
<1>10. cp = "sb" => s = <<Head(w)>>
  <2>1. cp = "sb" => Head(w) \in Byte
      BY Zenon, <1>4 DEF Writable
  <2>2. \A x \in Byte : x % 256 = x
      BY SMT DEF Byte
  <2> QED BY Zenon, <2>1, <2>2 DEF s, CharBytes
<1> QED BY Zenon, <1>2, <1>4, <1>6, <1>8, <1>9, <1>10 DEF s, t

(* A recursion over the positions of a string that only looks ahead.       *)
LEMMA UpwardRecursion ==
    ASSUME NEW n \in Nat, NEW z \in [1 .. n -> 1 .. 4]
    PROVE  \E f \in [1 .. n + 4 -> Nat] :
             \A k \in 1 .. n + 4 : f[k] = IF k > n THEN 0 ELSE 1 + f[k + z[k]]
<1> DEFINE Defined(m) == \E f \in [1 .. n + 4 -> Nat] :
                            /\ \A k \in 1 .. n + 4 : k > n => f[k] = 0
                            /\ \A k \in 1 .. n : k >= m => f[k] = 1 + f[k + z[k]]
           Fails == {m \in 0 .. n : ~Defined(n + 1 - m)}
<1>1. Defined(n + 1)
  <2> DEFINE f == [k \in 1 .. n + 4 |-> 0]
  <2>1. f \in [1 .. n + 4 -> Nat]
      OBVIOUS
  <2>2. \A k \in 1 .. n + 4 : k > n => f[k] = 0
      OBVIOUS
  <2>3. \A k \in 1 .. n : k >= n + 1 => f[k] = 1 + f[k + z[k]]
      OBVIOUS
  <2> HIDE DEF f
  <2> QED BY <2>1, <2>2, <2>3
<1>2. ASSUME NEW m \in 0 .. n, m # 0, Defined(n + 1 - (m - 1)) PROVE Defined(n + 1 - m)
  <2> DEFINE p == n + 1 - m
  <2>1. p \in 1 .. n /\ n + 1 - (m - 1) = p + 1
      BY <1>2
  <2>2. PICK f \in [1 .. n + 4 -> Nat] :
                            /\ \A k \in 1 .. n + 4 : k > n => f[k] = 0
                            /\ \A k \in 1 .. n : k >= p + 1 => f[k] = 1 + f[k + z[k]]
      BY <1>2, <2>1
  <2> HIDE DEF p
  <2> DEFINE g == [f EXCEPT ![p] = 1 + f[p + z[p]]]
  <2>3. z[p] \in 1 .. 4 /\ p + z[p] \in 1 .. n + 4 /\ p \in 1 .. n + 4
      BY <2>1
  <2>4. g \in [1 .. n + 4 -> Nat] /\ g[p] = 1 + f[p + z[p]]
        /\ \A k \in 1 .. n + 4 : k # p => g[k] = f[k]
      BY <2>3
  <2> HIDE DEF g
  <2>5. \A k \in 1 .. n + 4 : k > n => g[k] = 0
      BY <2>1, <2>2, <2>4
  <2>6. ASSUME NEW k \in 1 .. n, k >= p PROVE g[k] = 1 + g[k + z[k]]
    <3>1. z[k] \in 1 .. 4 /\ k + z[k] \in 1 .. n + 4 /\ k + z[k] # p /\ k \in 1 .. n + 4
        BY SMTT(30), <2>1, <2>6
    <3>2. g[k + z[k]] = f[k + z[k]]
        BY <2>4, <3>1
    <3>3. CASE k = p
        BY <2>4, <3>2, <3>3
    <3>4. CASE k # p
      <4>1. k >= p + 1 /\ g[k] = f[k]
          BY <2>1, <2>4, <2>6, <3>1, <3>4
      <4> QED BY <2>2, <3>2, <4>1
    <3> QED BY <3>3, <3>4
  <2>7. Defined(p)
      BY <2>4, <2>5, <2>6
  <2> QED BY <2>7 DEF p
<1> HIDE DEF Defined
<1>3. Fails = {}
  <2>1. SUFFICES ASSUME Fails # {} PROVE FALSE
      OBVIOUS
  <2>2. Fails \in SUBSET Nat
      OBVIOUS
  <2>3. PICK m \in Fails : \A k \in Fails : m <= k
      BY <2>1, <2>2, LeastElement
  <2>4. m \in 0 .. n /\ ~Defined(n + 1 - m)
      OBVIOUS
  <2>5. m # 0
    <3>1. n + 1 - 0 = n + 1
        OBVIOUS
    <3> QED BY <1>1, <2>4, <3>1
  <2>6. m - 1 \in 0 .. n /\ m - 1 \notin Fails
      BY <2>3, <2>4, <2>5
  <2>7. Defined(n + 1 - (m - 1))
      BY <2>6
  <2> QED BY <1>2, <2>4, <2>5, <2>7
<1>4. Defined(1)
  <2>1. n \in 0 .. n /\ n + 1 - n = 1
      OBVIOUS
  <2>2. Defined(n + 1 - n)
      BY Zenon, <1>3, <2>1
  <2> QED BY <2>1, <2>2
<1>5. PICK f \in [1 .. n + 4 -> Nat] :
                            /\ \A k \in 1 .. n + 4 : k > n => f[k] = 0
                            /\ \A k \in 1 .. n : k >= 1 => f[k] = 1 + f[k + z[k]]
    BY <1>4 DEF Defined
<1>6. \A k \in 1 .. n + 4 : f[k] = IF k > n THEN 0 ELSE 1 + f[k + z[k]]
    BY <1>5
<1> QED BY <1>6

(* scm_mb_strlen() is such a recursion.                                    *)
LEMMA StrlenSteps ==
    ASSUME NEW c \in Codecs, NEW s \in Seq(Byte)
    PROVE  \E f :
             /\ scm_mb_strlen(c, s) = f[1]
             /\ \A k \in 1 .. Len(s) + 4 :
                  f[k] = IF k > Len(s) THEN 0
                         ELSE 1 + f[k + scan_char(c, SubSeq(s, k, Len(s))).size]
<1> DEFINE n == Len(s)
           size(k) == scan_char(c, SubSeq(s, k, n)).size
           z == [k \in 1 .. n |-> size(k)]
           D == 1 .. n + 4
           len == CHOOSE g : g = [k \in D |-> IF k > n THEN 0 ELSE 1 + g[k + size(k)]]
<1>1. n \in Nat
    OBVIOUS
<1>2. ASSUME NEW k \in 1 .. n PROVE size(k) \in 1 .. 4
  <2>1. SubSeq(s, k, n) \in Seq(Byte) /\ Len(SubSeq(s, k, n)) = n - k + 1
      BY SubSeqProperties
  <2>2. SubSeq(s, k, n) # <<>> /\ Len(SubSeq(s, k, n)) \in 1 .. n
    <3>1. n - k + 1 \in 1 .. n /\ n - k + 1 # 0
        BY <1>1
    <3>2. Len(<<>>) = 0
        OBVIOUS
    <3> QED BY Zenon, <2>1, <3>1, <3>2
  <2> DEFINE r == SubSeq(s, k, n)
  <2> HIDE DEF r
  <2>3. \/ scan_char(c, r) = ReturnError
        \/ scan_char(c, r) = ReturnIncomplete(Len(r)) /\ Len(r) < 4
        \/ \E m \in 1 .. 4 : scan_char(c, r) = Return(m)
      BY Zenon, <2>1, <2>2, ScanCases DEF r, SCM_MB_MAX_LEN
  <2>4. Len(r) \in 1 .. n
      BY <2>2 DEF r
  <2>5. scan_char(c, r).size \in 1 .. 4
      BY <1>1, <2>3, <2>4 DEF ReturnError, ReturnIncomplete, Return
  <2> QED BY <2>5 DEF r
<1>3. scm_mb_strlen(c, s) = len[1]
    BY DEF scm_mb_strlen, SCM_MB_MAX_LEN
<1> HIDE DEF n, size, len
<1>4. z \in [1 .. n -> 1 .. 4]
    BY <1>2
<1>5. PICK f \in [1 .. n + 4 -> Nat] :
             \A k \in 1 .. n + 4 : f[k] = IF k > n THEN 0 ELSE 1 + f[k + z[k]]
    BY Zenon, <1>1, <1>4, UpwardRecursion
<1>6. f = [k \in D |-> IF k > n THEN 0 ELSE 1 + f[k + size(k)]]
  <2>1. ASSUME NEW k \in D PROVE f[k] = IF k > n THEN 0 ELSE 1 + f[k + size(k)]
    <3>1. k > n \/ k \in 1 .. n
        BY <1>1
    <3>2. CASE k > n
        BY Zenon, <1>5, <3>2
    <3>3. CASE k \in 1 .. n
      <4>1. z[k] = size(k)
          BY <3>3
      <4> QED BY Zenon, <1>5, <4>1
    <3> QED BY <3>1, <3>2, <3>3
  <2> QED BY Zenon, <1>5, <2>1
<1>7. len = [k \in D |-> IF k > n THEN 0 ELSE 1 + len[k + size(k)]]
    BY Zenon, <1>6 DEF len
<1>8. ASSUME NEW k \in D PROVE len[k] = IF k > n THEN 0 ELSE 1 + len[k + size(k)]
  <2> DEFINE g == [j \in D |-> IF j > n THEN 0 ELSE 1 + len[j + size(j)]]
  <2>1. g[k] = IF k > n THEN 0 ELSE 1 + len[k + size(k)]
      OBVIOUS
  <2>2. len[k] = g[k]
      BY Zenon, <1>7
  <2> QED BY Zenon, <2>1, <2>2
<1> QED BY Zenon, <1>3, <1>8 DEF n, size

(* string-length counts the characters that were written.                  *)
LEMMA StrlenText ==
    ASSUME NEW cp, NEW cd, PortKind(cp, cd), NEW w \in Seq(Nat), WritableText(cp, cd, w)
    PROVE  scm_mb_strlen(cd, TextBytes(cp, cd, w)) = Len(w)
<1> DEFINE b == TextBytes(cp, cd, w)
<1>1. b \in Seq(Byte) /\ cd \in Codecs
    BY Zenon, WritableTextBytes DEF PortKind
<1> HIDE DEF b
<1>2. PICK f : /\ scm_mb_strlen(cd, b) = f[1]
               /\ \A k \in 1 .. Len(b) + 4 :
                    f[k] = IF k > Len(b) THEN 0
                           ELSE 1 + f[k + scan_char(cd, SubSeq(b, k, Len(b))).size]
    BY Zenon, <1>1, StrlenSteps
<1> DEFINE Splits(r, v) == /\ WritableText(cp, cd, v) /\ b = r \o TextBytes(cp, cd, v)
                           /\ f[Len(r) + 1] # Len(v)
           Fails == {m \in Nat : \E r \in Seq(Byte), v \in Seq(Nat) : Len(v) = m /\ Splits(r, v)}
<1>3. ASSUME NEW r \in Seq(Byte), NEW v \in Seq(Nat), Splits(r, v)
      PROVE  v # <<>> /\ \E q \in Seq(Byte) : Splits(q, Tail(v))
  <2>1. WritableText(cp, cd, v) /\ b = r \o TextBytes(cp, cd, v) /\ f[Len(r) + 1] # Len(v)
      BY <1>3
  <2>2. v # <<>>
    <3>1. SUFFICES ASSUME v = <<>> PROVE FALSE
        OBVIOUS
    <3>2. b = r \o <<>>
        BY Zenon, <2>1, <3>1, BytesNone
    <3>3. Len(b) = Len(r) /\ Len(b) \in Nat
        BY <1>1, <3>2, ConcatEmptySeq
    <3>4. f[Len(r) + 1] = 0
        BY SMTT(30), <1>2, <3>3
    <3> QED BY <2>1, <3>1, <3>4
  <2> DEFINE s == CharBytes(cp, cd, Head(v))
             t == TextBytes(cp, cd, Tail(v))
  <2>3. /\ s \in Seq(Byte) /\ Len(s) \in 1 .. 4 /\ t \in Seq(Byte)
        /\ Tail(v) \in Seq(Nat) /\ WritableText(cp, cd, Tail(v))
        /\ TextBytes(cp, cd, v) = s \o t
        /\ scan_char(cd, s \o t) = Return(Len(s))
      BY Zenon, <2>1, <2>2, FirstWritten
  <2> HIDE DEF s, t
  <2>4. b = (r \o s) \o t /\ r \o s \in Seq(Byte) /\ Len(r \o s) = Len(r) + Len(s)
    <3>1. (r \o s) \o t = r \o (s \o t)
      <4>1. r \in Seq(Byte) /\ s \in Seq(Byte) /\ t \in Seq(Byte)
          BY <2>3
      <4> QED BY <4>1, ConcatAssociative
    <3>2. r \o s \in Seq(Byte) /\ Len(r \o s) = Len(r) + Len(s)
        BY Zenon, <2>3, ConcatProperties
    <3> QED BY Zenon, <2>1, <2>3, <3>1, <3>2
  <2>5. s \o t \in Seq(Byte) /\ Len(s \o t) = Len(s) + Len(t) /\ Len(t) \in Nat
      BY <2>3, ConcatProperties
  <2>6. SubSeq(b, Len(r) + 1, Len(b)) = s \o t
    <3>1. b = r \o (s \o t)
        BY Zenon, <2>1, <2>3
    <3> QED BY ZenonT(30), <2>5, <3>1, Parts
  <2>7. Len(b) = Len(r) + Len(s) + Len(t) /\ Len(r) \in Nat
    <3>1. Len((r \o s) \o t) = Len(r \o s) + Len(t)
        BY Zenon, <2>3, <2>4, ConcatProperties
    <3>2. Len(r) \in Nat
        OBVIOUS
    <3> QED BY Zenon, <2>4, <3>1, <3>2
  <2>8. Len(r) + 1 \in 1 .. Len(b) + 4 /\ ~(Len(r) + 1 > Len(b))
    <3>1. \A x, y \in Nat, z \in 1 .. 4 : x + 1 \in 1 .. (x + z + y) + 4 /\ ~(x + 1 > x + z + y)
        OBVIOUS
    <3> QED BY Zenon, <2>3, <2>5, <2>7, <3>1
  <2>9. scan_char(cd, SubSeq(b, Len(r) + 1, Len(b))).size = Len(s)
    <3>1. Return(Len(s)).size = Len(s)
        BY DEF Return
    <3> QED BY Zenon, <2>3, <2>6, <3>1
  <2>10. f[Len(r) + 1] = 1 + f[Len(r) + 1 + Len(s)]
      BY Zenon, <1>2, <2>8, <2>9
  <2>11. Len(Tail(v)) = Len(v) - 1 /\ Len(v) \in Nat
      BY <2>2
  <2>12. Len(r) + 1 + Len(s) = Len(r \o s) + 1
      BY <2>3, <2>4, <2>7
  <2>13. f[Len(r \o s) + 1] # Len(Tail(v))
    <3>1. SUFFICES ASSUME f[Len(r \o s) + 1] = Len(Tail(v)) PROVE FALSE
        OBVIOUS
    <3>2. f[Len(r) + 1] = 1 + Len(Tail(v))
        BY <2>10, <2>12, <3>1
    <3> QED BY <2>1, <2>11, <3>2
  <2>14. Splits(r \o s, Tail(v))
      BY Zenon, <2>3, <2>4, <2>13 DEF t
  <2> QED BY Zenon, <2>2, <2>4, <2>14
<1>4. Fails = {}
  <2>1. SUFFICES ASSUME Fails # {} PROVE FALSE
      OBVIOUS
  <2> HIDE DEF Splits
  <2>2. Fails \in SUBSET Nat
      OBVIOUS
  <2>3. PICK m \in Fails : \A k \in Fails : m <= k
      BY <2>1, <2>2, LeastElement
  <2>4. PICK r \in Seq(Byte), v \in Seq(Nat) : Len(v) = m /\ Splits(r, v)
      OBVIOUS
  <2>5. v # <<>> /\ \E q \in Seq(Byte) : Splits(q, Tail(v))
      BY <1>3, <2>4
  <2>6. Tail(v) \in Seq(Nat) /\ Len(Tail(v)) = m - 1 /\ m - 1 \in Nat
      BY <2>4, <2>5, EmptySeq
  <2>7. m - 1 \in Fails
      BY <2>5, <2>6
  <2> QED BY <2>2, <2>3, <2>6, <2>7
<1>5. b = <<>> \o b /\ <<>> \in Seq(Byte) /\ Len(<<>>) + 1 = 1 /\ Len(w) \in Nat
    BY <1>1, ConcatEmptySeq
<1>6. ~Splits(<<>>, w)
    BY <1>4, <1>5
<1>7. f[1] = Len(w)
    BY Zenon, <1>5, <1>6 DEF b
<1> QED BY Zenon, <1>2, <1>7 DEF b

(* What is still to be read of what was written.                           *)
ReadBack ==
    back => /\ bport = "string" /\ impl \in {"unopened", "open"}
            /\ WritableText(cport, codec, written)
            /\ impl = "unopened" => out = TextBytes(cport, codec, written)
            /\ impl = "open" => rbuf \o source = TextBytes(cport, codec, written)

(* The step of WrittenReadBack.                                            *)
ReadsBack ==
    /\ back /\ op = "read-char" /\ op' = "idle"
         => IF written = <<>> THEN seen'.kind = "eof"
            ELSE seen'.kind = "char" /\ seen'.ch = Head(written)
    /\ back /\ impl = "unopened" /\ impl' = "open"
         => scm_mb_strlen(codec, source') = Len(written)

LEMMA ReadBackKept ==
    ASSUME ReadBack, UNCHANGED <<ports, codec, impl, out, written>>, back' => back,
           impl = "open" => rbuf' \o source' = rbuf \o source
    PROVE  ReadBack'
BY Zenon DEF ReadBack, ports

LEMMA NothingRead ==
    ASSUME op # "read-char" \/ op' # "idle", impl' = impl
    PROVE  ReadsBack
BY Zenon DEF ReadsBack

(* A port that reads what was written.                                     *)
LEMMA ReadingBack ==
    ASSUME Inv, ReadBack, back, impl = "open"
    PROVE  /\ CString(rbuf) = rbuf
           /\ rbuf # <<>> => written # <<>> /\ Scanned.flag # "error"
           /\ rbuf # <<>> /\ Scanned.flag # "incomplete" /\ cport = "mb" =>
                /\ str2int(codec, rbuf) = Head(written)
                /\ source = TextBytes(cport, codec, Tail(written))
           /\ source = <<>> /\ cport = "mb" => rbuf = <<>> \/ Scanned.flag # "incomplete"
           /\ rbuf = <<>> => (source = <<>> <=> written = <<>>)
<1>1. /\ TypeOK /\ OneCharacterBuffered /\ PortKind(cport, codec) /\ codec \in Codecs
      /\ rbuf \in Seq(Byte) /\ source \in Seq(Byte) /\ written \in Seq(Nat)
    BY BytesOfPort DEF Inv, TypeOK
<1>2. rbuf \o source = TextBytes(cport, codec, written) /\ WritableText(cport, codec, written)
    BY DEF ReadBack
<1>3. CString(rbuf) = rbuf
  <2>1. NoZero(rbuf \o source)
      BY Zenon, <1>1, <1>2, WritableTextBytes
  <2>2. \A i \in 1 .. Len(rbuf) : i \in 1 .. Len(rbuf \o source) /\ (rbuf \o source)[i] = rbuf[i]
      BY <1>1
  <2>3. \A i \in 1 .. Len(rbuf) : rbuf[i] # 0
      BY Zenon, <2>1, <2>2 DEF NoZero
  <2> QED BY Zenon, <1>1, <2>3, CStringPrefix
<1>4. written = <<>> => rbuf = <<>> /\ source = <<>>
  <2>1. written = <<>> => rbuf \o source = <<>>
      BY Zenon, <1>2, BytesNone
  <2> QED BY <1>1, <2>1, ConcatEqualIffEmpty
<1> DEFINE s == CharBytes(cport, codec, Head(written))
           t == TextBytes(cport, codec, Tail(written))
<1>5. written # <<>> => /\ s \in Seq(Byte) /\ Len(s) \in 1 .. 4 /\ t \in Seq(Byte)
                        /\ rbuf \o source = s \o t
                        /\ scan_char(codec, s \o t) = Return(Len(s)) /\ str2int(codec, s) = Head(written)
    BY Zenon, <1>1, <1>2, FirstWritten
<1> HIDE DEF s, t
<1>6. rbuf = <<>> /\ written # <<>> => source # <<>>
  <2>1. SUFFICES ASSUME rbuf = <<>>, written # <<>>, source = <<>> PROVE FALSE
      OBVIOUS
  <2>2. s \o t = <<>> /\ s \in Seq(Byte) /\ t \in Seq(Byte) /\ Len(s) \in 1 .. 4
    <3>1. <<>> \o <<>> = <<>>
        OBVIOUS
    <3> QED BY Zenon, <1>5, <2>1, <3>1
  <2>3. s = <<>>
      BY <2>2, ConcatEqualIffEmpty
  <2> QED BY <2>2, <2>3
<1>7. ASSUME rbuf # <<>>, Scanned.flag # "incomplete"
      PROVE  /\ Scanned = Return(Len(s))
             /\ cport = "mb" => str2int(codec, rbuf) = Head(written) /\ source = t
  <2>1. scan_char(codec, rbuf \o source) = Scanned
      BY Zenon, <1>1, <1>7, ScanStable DEF Scanned
  <2>2. Scanned = Return(Len(s)) /\ written # <<>>
      BY Zenon, <1>4, <1>5, <1>7, <2>1
  <2>3. Len(rbuf) = Len(s)
    <3>1. Scanned.flag = "none" /\ Scanned.size = Len(s)
        BY <2>2 DEF Return
    <3> QED BY Zenon, <1>1, <3>1 DEF OneCharacterBuffered
  <2>4. /\ SubSeq(rbuf \o source, 1, Len(rbuf)) = rbuf
        /\ SubSeq(rbuf \o source, Len(rbuf) + 1, Len(rbuf \o source)) = source
      BY <1>1, Parts
  <2>5. /\ SubSeq(s \o t, 1, Len(s)) = s
        /\ SubSeq(s \o t, Len(s) + 1, Len(s \o t)) = t
    <3>1. s \in Seq(Byte) /\ t \in Seq(Byte)
        BY <1>5, <2>2
    <3> QED BY <3>1, Parts
  <2>6. rbuf = s /\ source = t
      BY Zenon, <1>5, <2>2, <2>3, <2>4, <2>5
  <2> QED BY Zenon, <1>5, <2>2, <2>6
<1>8. rbuf # <<>> => Scanned.flag # "error"
    BY <1>7 DEF Return
<1>9. ASSUME source = <<>>, rbuf # <<>> PROVE Scanned.flag # "incomplete"
  <2>1. rbuf = s \o t
      BY <1>1, <1>4, <1>5, <1>9, ConcatEmptySeq
  <2>2. Scanned = Return(Len(s))
      BY Zenon, <1>4, <1>5, <1>9, <2>1 DEF Scanned
  <2> QED BY <2>2 DEF Return
<1> QED BY Zenon, <1>3, <1>4, <1>6, <1>7, <1>8, <1>9 DEF t

(* read-char takes the first of the characters.                            *)
LEMMA ReadBackTaken ==
    ASSUME Inv, ReadBack, back, op \in Procedures, impl = "open", written # <<>>,
           NEW c, Taken(c), op = "read-char" => c = Head(written),
           Return1(IF op = "char-ready?" THEN "ready" ELSE "char", IF op = "char-ready?" THEN 0 ELSE c),
           IF op = "read-char"
           THEN rbuf' \o source' = TextBytes(cport, codec, Tail(written))
           ELSE rbuf' = rbuf /\ source' = source
    PROVE  ReadBack' /\ ReadsBack
<1>1. /\ UNCHANGED <<ports, codec, impl, out, back>> /\ written \in Seq(Nat)
      /\ PortKind(cport, codec) /\ WritableText(cport, codec, written)
    BY BytesOfPort DEF Return1, output, Inv, TypeOK, ReadBack
<1>2. CASE op = "read-char"
  <2>1. written' = Tail(written) /\ seen'.kind = "char" /\ seen'.ch = Head(written)
      BY <1>2 DEF Taken, Return1, Ended
  <2>2. WritableText(cport, codec, Tail(written))
      BY Zenon, <1>1, FirstWritten
  <2>3. ReadBack'
      BY Zenon, <1>1, <1>2, <2>1, <2>2 DEF ReadBack, ports
  <2>4. ReadsBack
      BY <1>1, <2>1 DEF ReadsBack
  <2> QED BY <2>3, <2>4
<1>3. CASE op # "read-char"
  <2>1. written' = written
      BY <1>3 DEF Taken
  <2> QED BY <1>1, <1>3, <2>1, ReadBackKept, NothingRead
<1> QED BY <1>2, <1>3

LEMMA ReadBackChar ==
    ASSUME Inv, ReadBack, back, mbcport_char
    PROVE  ReadBack' /\ ReadsBack
<1>1. /\ TypeOK /\ OneCharacterBuffered /\ op \in Procedures /\ cport = "mb" /\ impl = "open"
      /\ source \in Seq(Byte)
    BY InProgress DEF Inv, mbcport_char, Filling, TypeOK
<1>2. Scanned.flag = "none" /\ rbuf # <<>> /\ SubSeq(rbuf, 1, Scanned.size) = rbuf
    BY <1>1, ScannedCases DEF mbcport_char
<1> DEFINE ch == str2int(codec, rbuf)
<1>3. /\ Return1(IF op = "char-ready?" THEN "ready" ELSE "char", IF op = "char-ready?" THEN 0 ELSE ch)
      /\ Taken(ch) /\ rbuf' = (IF op = "read-char" THEN <<>> ELSE rbuf) /\ source' = source
    BY <1>2 DEF mbcport_char
<1>4. ch = Head(written) /\ source = TextBytes(cport, codec, Tail(written)) /\ written # <<>>
    BY <1>1, <1>2, ReadingBack
<1> HIDE DEF ch
<1>5. <<>> \o source = source
    BY <1>1, ConcatEmptySeq
<1>6. IF op = "read-char"
      THEN rbuf' \o source' = TextBytes(cport, codec, Tail(written))
      ELSE rbuf' = rbuf /\ source' = source
    BY Zenon, <1>3, <1>4, <1>5
<1> QED BY Zenon, <1>1, <1>3, <1>4, <1>6, ReadBackTaken

LEMMA ReadBackEof ==
    ASSUME Inv, ReadBack, back, mbcport_eof \/ sbcport_eof
    PROVE  ReadBack' /\ ReadsBack
<1>1. op \in Procedures /\ impl = "open" /\ source = <<>> /\ TypeOK /\ OneCharacterBuffered
    BY InProgress DEF Inv, mbcport_eof, sbcport_eof, Wanting, Filling, Procedures
<1>2. rbuf = <<>> /\ rbuf' = <<>>
  <2>1. CASE mbcport_eof
    <3>1. cport = "mb" /\ rbuf' = <<>> /\ Wanting
        BY <2>1 DEF mbcport_eof, Wanting, Filling
    <3>2. rbuf = <<>> \/ Scanned.flag # "incomplete"
        BY Zenon, <1>1, <3>1, ReadingBack
    <3>3. rbuf = <<>>
        BY Zenon, <1>1, <3>1, <3>2, ScannedCases
    <3> QED BY <3>1, <3>3
  <2>2. CASE sbcport_eof
      BY <1>1, <2>2 DEF sbcport_eof, OneCharacterBuffered
  <2> QED BY <2>1, <2>2
<1>3. written = <<>>
    BY Zenon, <1>1, <1>2, ReadingBack
<1>4. /\ Return1("eof", 0) \/ (op = "char-ready?" /\ Return1("ready", 0))
      /\ source' = source /\ written' = written
    BY DEF mbcport_eof, sbcport_eof
<1>5. UNCHANGED <<ports, codec, impl, out, back>>
    BY <1>4 DEF Return1, output
<1>6. ReadBack'
    BY Zenon, <1>2, <1>4, <1>5, ReadBackKept
<1>7. op = "read-char" => seen'.kind = "eof"
    BY <1>4 DEF Return1, Ended
<1> QED BY <1>1, <1>3, <1>5, <1>6, <1>7 DEF ReadsBack

LEMMA ReadBackSbcport ==
    ASSUME Inv, ReadBack, back, sbcport_char \/ sbcport_readyp
    PROVE  ReadBack' /\ ReadsBack
<1>1. /\ TypeOK /\ OneCharacterBuffered /\ op \in Procedures /\ cport = "sb" /\ impl = "open"
      /\ rbuf = <<>> /\ source \in Seq(Byte) /\ rbuf' = rbuf
      /\ written \in Seq(Nat) /\ PortKind(cport, codec)
    BY InProgress, BytesOfPort DEF Inv, sbcport_char, sbcport_readyp, Procedures, TypeOK, OneCharacterBuffered
<1>2. CASE sbcport_readyp
  <2>1. /\ op # "read-char" /\ UNCHANGED <<source, rbuf, written>>
        /\ \E k \in Kinds : Return1(k, 0)
      BY <1>2 DEF sbcport_readyp, Kinds
  <2>2. UNCHANGED <<ports, codec, impl, out, back>>
      BY <2>1 DEF Return1, output
  <2> QED BY <2>1, <2>2, ReadBackKept, NothingRead
<1>3. CASE sbcport_char
  <2>1. /\ source # <<>> /\ Return1("char", Head(source)) /\ Taken(Head(source))
        /\ source' = (IF op = "read-char" THEN Tail(source) ELSE source)
        /\ op \in {"read-char", "peek-char"}
      BY <1>3 DEF sbcport_char
  <2>2. written # <<>> /\ source = TextBytes(cport, codec, written) /\ WritableText(cport, codec, written)
    <3>1. rbuf \o source = source
        BY <1>1, ConcatEmptySeq
    <3>2. written # <<>>
        BY Zenon, <1>1, <2>1, ReadingBack
    <3> QED BY <1>1, <3>1, <3>2 DEF ReadBack
  <2> DEFINE t == TextBytes(cport, codec, Tail(written))
  <2>3. source = <<Head(written)>> \o t /\ t \in Seq(Byte) /\ Head(written) \in Nat
    <3> DEFINE s == CharBytes(cport, codec, Head(written))
    <3>1. /\ t \in Seq(Byte) /\ Head(written) \in Nat
          /\ TextBytes(cport, codec, written) = s \o t
          /\ cport = "sb" => s = <<Head(written)>>
        BY Zenon, <1>1, <2>2, FirstWritten
    <3> HIDE DEF s, t
    <3> QED BY Zenon, <1>1, <2>2, <3>1
  <2> HIDE DEF t
  <2>4. Head(source) = Head(written) /\ Tail(source) = t
      BY <1>1, <2>1, <2>3
  <2>5. rbuf' \o t = t
      BY <1>1, <2>3, ConcatEmptySeq
  <2>6. IF op = "read-char"
        THEN rbuf' \o source' = TextBytes(cport, codec, Tail(written))
        ELSE rbuf' = rbuf /\ source' = source
      BY Zenon, <1>1, <2>1, <2>4, <2>5 DEF t
  <2>7. Return1(IF op = "char-ready?" THEN "ready" ELSE "char", IF op = "char-ready?" THEN 0 ELSE Head(source))
      BY <2>1
  <2> QED BY Zenon, <1>1, <2>1, <2>2, <2>4, <2>6, <2>7, ReadBackTaken
<1> QED BY <1>2, <1>3

LEMMA ReadBackByte ==
    ASSUME Inv, ReadBack, back, mbcport_byte
    PROVE  ReadBack' /\ ReadsBack
<1>1. rbuf \in Seq(Byte) /\ source \in Seq(Byte) /\ source # <<>> /\ bport = "string"
    BY DEF Inv, TypeOK, ReadBack, mbcport_byte
<1>2. rbuf' \o source' = rbuf \o source
    BY <1>1, Parts DEF mbcport_byte
<1>3. UNCHANGED <<ports, codec, impl, op, out, back, written>>
    BY <1>1 DEF mbcport_byte, output
<1>4. ReadBack'
    BY Zenon, <1>2, <1>3, ReadBackKept
<1>5. op' # "read-char" \/ op' # "idle"
    OBVIOUS
<1> QED BY <1>3, <1>4, <1>5, NothingRead

LEMMA ReadBackError ==
    ASSUME Inv, ReadBack, back
    PROVE  ~mbcport_error /\ ~fixup_read_char
<1>1. ASSUME mbcport_error PROVE FALSE
  <2>1. TypeOK /\ OneCharacterBuffered /\ op \in Procedures
      BY <1>1 DEF Inv, mbcport_error, Filling
  <2>2. impl = "open" /\ Scanned.flag = "error"
      BY Zenon, <1>1, <2>1, InProgress, InvError
  <2>3. rbuf # <<>>
      BY Zenon, <2>1, <2>2, ScannedCases
  <2> QED BY Zenon, <2>2, <2>3, ReadingBack
<1>2. ~fixup_read_char
    BY DEF ReadBack, fixup_read_char
<1> QED BY <1>1, <1>2

LEMMA ReadBackCall ==
    ASSUME Inv, ReadBack, back, impl = "open", NEW o, Call(o), o # "idle"
    PROVE  ReadBack' /\ ReadsBack
<1>1. rbuf' = rbuf /\ UNCHANGED <<ports, codec, impl, source, out, back, written>> /\ op' # "idle"
    BY ReadingBack DEF Call, output
<1> QED BY Zenon, <1>1, ReadBackKept, NothingRead

(* More characters are written.                                            *)
LEMMA ReadBackWritten ==
    ASSUME Inv, ReadBack, impl = "unopened", NEW s \in Seq(Nat), ostrport_append(Bytes(s)),
           written' = written \o s, back' => back /\ WritableText(cport, codec, s),
           UNCHANGED <<ports, codec, impl>>
    PROVE  ReadBack' /\ ReadsBack
<1>1. ReadsBack
    BY DEF ReadsBack, Inv, NoUseAfterClose
<1>2. ASSUME back'
      PROVE  /\ WritableText(cport, codec, written \o s)
             /\ out \o Bytes(s) = TextBytes(cport, codec, written \o s)
  <2>1. /\ written \in Seq(Nat) /\ codec \in Codecs
        /\ WritableText(cport, codec, written) /\ WritableText(cport, codec, s)
        /\ out = TextBytes(cport, codec, written)
      BY <1>2 DEF Inv, TypeOK, ReadBack
  <2>2. out \o Bytes(s) = TextBytes(cport, codec, written \o s)
      BY Zenon, <2>1, BytesOfPort, BytesConcat
  <2>3. ASSUME NEW i \in 1 .. Len(written \o s) PROVE Writable(cport, codec, (written \o s)[i])
    <3>1. \/ i \in 1 .. Len(written) /\ (written \o s)[i] = written[i]
          \/ i - Len(written) \in 1 .. Len(s) /\ (written \o s)[i] = s[i - Len(written)]
        BY <2>1
    <3> QED BY Zenon, <2>1, <3>1 DEF WritableText
  <2> QED BY <2>2, <2>3 DEF WritableText
<1>3. ASSUME back' PROVE back /\ bport = "string"
    BY <1>3 DEF ReadBack
<1>4. out' = out \o Bytes(s) /\ UNCHANGED <<cport, bport>>
    BY DEF ostrport_append, ports
<1>5. ReadBack'
    BY Zenon, <1>2, <1>3, <1>4 DEF ReadBack
<1> QED BY <1>1, <1>5

LEMMA ReadBackWriteChar ==
    ASSUME Inv, ReadBack, NEW ch \in Nat, ch # 0, scm_p_write_char(ch)
    PROVE  ReadBack' /\ ReadsBack
<1>1. impl = "unopened" /\ UNCHANGED <<ports, codec, impl>> /\ codec \in Codecs /\ written \in Seq(Nat)
    BY DEF scm_p_write_char, Inv, TypeOK
<1>2. CASE put_char(ch) = <<>>
  <2>1. UNCHANGED <<out, written, back>>
      BY <1>2 DEF scm_p_write_char, output
  <2>2. ReadBack'
      BY Zenon, <1>1, <2>1, ReadBackKept DEF ports
  <2> QED BY <1>1, <2>2 DEF ReadsBack, Inv, NoUseAfterClose
<1>3. CASE put_char(ch) # <<>>
  <2>1. /\ ostrport_append(put_char(ch)) /\ written' = Append(written, ch)
        /\ back' = (back /\ Encodable(codec, ch)) /\ (cport = "sb" => ch \in Byte)
      BY Zenon, <1>3 DEF scm_p_write_char
  <2>2. <<ch>> \in Seq(Nat) /\ Len(<<ch>>) = 1 /\ <<ch>>[1] = ch /\ Append(written, ch) = written \o <<ch>>
      BY <1>1
  <2>3. Bytes(<<ch>>) = put_char(ch)
      BY Zenon, <1>1, BytesOfPort, BytesOne
  <2>4. ASSUME back' PROVE back /\ WritableText(cport, codec, <<ch>>)
    <3>1. Writable(cport, codec, ch)
        BY Zenon, <2>1, <2>4 DEF Writable
    <3>2. \A i \in 1 .. Len(<<ch>>) : <<ch>>[i] = ch
        OBVIOUS
    <3> QED BY Zenon, <2>1, <2>4, <3>1, <3>2 DEF WritableText
  <2> QED BY Zenon, <1>1, <2>1, <2>2, <2>3, <2>4, ReadBackWritten
<1> QED BY <1>2, <1>3

LEMMA ReadBackPutAll ==
    ASSUME Inv, ReadBack, NEW s \in Seq(Nat), NEW start \in Nat, NEW end \in Nat, end <= Len(s),
           \A i \in 1 .. Len(s) : s[i] # 0,
           scm_p_write_string(s, start, end) \/ scm_p_write_bytevector(s, start, end)
    PROVE  ReadBack' /\ ReadsBack
<1> DEFINE t == SubSeq(s, start + 1, end)
<1>1. codec \in Codecs /\ (cport = "sb" => codec = "ISO-8859-1")
    BY DEF Inv, TypeOK
<1>2. ASSUME NEW i \in 1 .. Len(s) PROVE Writable(cport, codec, s[i])
  <2>1. s[i] \in Nat /\ s[i] # 0 /\ i \in DOMAIN s
      OBVIOUS
  <2>2. CASE scm_p_write_string(s, start, end)
      BY <2>1, <2>2 DEF Writable, scm_p_write_string
  <2>3. CASE scm_p_write_bytevector(s, start, end)
    <3>1. codec = "ISO-8859-1" /\ s[i] \in Byte
        BY <1>1, <2>1, <2>3 DEF scm_p_write_bytevector
    <3>2. <<s[i]>> # <<>>
        OBVIOUS
    <3>3. int2str(codec, s[i]) # <<>>
      <4>1. \A x \in Byte : x <= 255
          BY SMT DEF Byte
      <4>2. unibyte_int2str(s[i]) = <<s[i]>>
          BY SMT, <3>1, <4>1 DEF unibyte_int2str
      <4>3. int2str(codec, s[i]) = unibyte_int2str(s[i])
          BY SMT, <3>1 DEF int2str
      <4> QED BY Zenon, <3>2, <4>2, <4>3
    <3>4. codec # "Shift_JIS"
        BY <3>1
    <3> QED BY Zenon, <2>1, <3>1, <3>3, <3>4 DEF Writable, Encodable
  <2> QED BY <2>2, <2>3
<1>3. /\ t \in Seq(Nat)
      /\ \A i \in 1 .. Len(t) : i + start \in 1 .. Len(s) /\ t[i] = s[i + start]
  <2>1. \A i \in start + 1 .. end : s[i] \in Nat
      OBVIOUS
  <2>2. /\ t \in Seq(Nat) /\ Len(t) = IF start + 1 <= end THEN end - (start + 1) + 1 ELSE 0
        /\ \A i \in 1 .. end - (start + 1) + 1 : t[i] = s[start + 1 + i - 1]
      BY <2>1, SubSeqProperties
  <2> HIDE DEF t
  <2>3. ASSUME NEW i \in 1 .. Len(t) PROVE i + start \in 1 .. Len(s) /\ t[i] = s[i + start]
    <3>1. i \in 1 .. end - (start + 1) + 1 /\ start + 1 + i - 1 = i + start
        BY <2>2
    <3> QED BY <2>2, <3>1
  <2> QED BY <2>2, <2>3
<1>4. PutAll(t)
    BY DEF scm_p_write_string, scm_p_write_bytevector
<1> HIDE DEF t
<1>5. WritableText(cport, codec, t)
    BY Zenon, <1>2, <1>3 DEF WritableText
<1>6. /\ impl = "unopened" /\ UNCHANGED <<ports, codec, impl, back>>
      /\ ostrport_append(Bytes(t)) /\ written' = written \o t
    BY <1>4 DEF PutAll
<1> QED BY Zenon, <1>3, <1>5, <1>6, ReadBackWritten

(* The port is opened on what was written.                                 *)
LEMMA ReadBackOpened ==
    ASSUME Inv, ReadBack, scm_p_srfi6_open_input_string \/ scm_p_open_input_bytevector
    PROVE  ReadBack' /\ ReadsBack
<1>1. /\ written \in Seq(Nat) /\ PortKind(cport, codec) /\ rbuf = <<>> /\ impl = "unopened" /\ op = "idle"
    BY BytesOfPort DEF Inv, TypeOK, NoUseAfterClose, scm_p_srfi6_open_input_string,
       scm_p_open_input_bytevector, Opened
<1>2. /\ impl' = "open" /\ UNCHANGED <<cport, bport, codec, rbuf, written, back>>
      /\ source' = CString(out) \/ source' = out
    BY DEF scm_p_srfi6_open_input_string, scm_p_open_input_bytevector, Opened, ports
<1>3. ASSUME back
      PROVE  /\ source' = TextBytes(cport, codec, written) /\ source' \in Seq(Byte)
             /\ scm_mb_strlen(codec, source') = Len(written)
  <2>1. out = TextBytes(cport, codec, written) /\ WritableText(cport, codec, written)
      BY Zenon, <1>1, <1>3 DEF ReadBack
  <2>2. out \in Seq(Byte) /\ NoZero(out)
      BY Zenon, <1>1, <2>1, WritableTextBytes
  <2>3. CString(out) = out
      BY Zenon, <2>2, CStringPrefix DEF NoZero
  <2>4. source' = out
      BY Zenon, <1>2, <2>3
  <2> QED BY Zenon, <1>1, <2>1, <2>2, <2>4, StrlenText
<1>4. ReadsBack
    BY Zenon, <1>1, <1>3 DEF ReadsBack
<1>5. back => rbuf' \o source' = source'
    BY <1>1, <1>2, <1>3, ConcatEmptySeq
<1>6. ReadBack'
    BY Zenon, <1>1, <1>2, <1>3, <1>5 DEF ReadBack
<1> QED BY <1>4, <1>6

(* A port that reads something else does so for good.                      *)
LEMMA BackStaysFalse ==
    ASSUME Inv, ~back, [Next]_vars
    PROVE  ~back'
<1>1. ASSUME NEW ch, scm_p_write_char(ch) PROVE ~back'
    BY <1>1 DEF scm_p_write_char
<1>2. ASSUME NEW s, PutAll(s) PROVE ~back'
    BY <1>2 DEF PutAll
<1>3. scm_p_srfi6_open_input_string \/ scm_p_open_input_bytevector => ~back'
    BY DEF scm_p_srfi6_open_input_string, scm_p_open_input_bytevector, Opened
<1>4. ASSUME NEW proc, NEW n, Begin(proc, n) PROVE ~back'
    BY <1>4 DEF Begin, Call
<1>5. ASSUME NEW o, Enter(o) \/ Refused(o) PROVE ~back'
    BY <1>5 DEF Enter, Refused, Call
<1>6. Running => ~back'
    BY DEF Running, mbcport_error, mbcport_char, mbcport_eof, mbcport_byte, sbcport_char,
           sbcport_eof, sbcport_readyp, fixup_read_char, read_chars, Return1, Stays, Call
<1>7. ASSUME NEW c, ScmMultiByteCharPort_set_codec(c) PROVE ~back'
    BY <1>7 DEF ScmMultiByteCharPort_set_codec
<1>8. scm_port_close \/ CloseAgain \/ UNCHANGED vars => ~back'
    BY DEF scm_port_close, CloseAgain, vars
<1> QED BY Zenon, <1>1, <1>2, <1>3, <1>4, <1>5, <1>6, <1>7, <1>8
       DEF Next, scm_p_write_string, scm_p_write_bytevector, scm_p_read_line, scm_p_read_string,
           scm_p_read_bytevector, scm_p_read_bytevectorx

(* A step that touches neither the stream nor what was written.            *)
LEMMA ReadBackSame ==
    ASSUME ReadBack, UNCHANGED <<ports, codec, impl, source, rbuf, op, output, written, back>>
    PROVE  ReadBack' /\ ReadsBack
<1>1. UNCHANGED <<cport, bport, codec, impl, source, rbuf, op, out, written, back>>
    BY DEF ports, output
<1>2. ReadBack'
    BY <1>1 DEF ReadBack
<1>3. op # "read-char" \/ op' # "idle"
    BY <1>1
<1> QED BY Zenon, <1>1, <1>2, <1>3, NothingRead

LEMMA ReadBackNext ==
    ASSUME 0 \notin Chars, \A s \in Texts : \A i \in 1 .. Len(s) : s[i] # 0,
           Inv, ReadBack, [Next]_vars
    PROVE  ReadBack' /\ ReadsBack
<1>1. ASSUME NEW ch \in Chars, scm_p_write_char(ch) PROVE ReadBack' /\ ReadsBack
  <2>1. ch \in Nat /\ ch # 0
      BY CharsAssumption
  <2> QED BY Zenon, <1>1, <2>1, ReadBackWriteChar
<1>2. ASSUME NEW s \in Texts, NEW start \in 0 .. MaxWrites, NEW end \in 0 .. MaxWrites, end <= Len(s),
             scm_p_write_string(s, start, end) \/ scm_p_write_bytevector(s, start, end)
      PROVE  ReadBack' /\ ReadsBack
  <2>1. s \in Seq(Nat) /\ start \in Nat /\ end \in Nat
      BY TextsAssumption, MaxWritesAssumption
  <2> QED BY Zenon, <1>2, <2>1, ReadBackPutAll
<1>3. CASE scm_p_srfi6_open_input_string \/ scm_p_open_input_bytevector
    BY Zenon, <1>3, ReadBackOpened
<1>4. CASE ~back
  <2>1. ~back'
      BY <1>4, BackStaysFalse
  <2> QED BY Zenon, <1>4, <2>1 DEF ReadBack, ReadsBack
<1>5. ASSUME back, NEW proc, NEW n, Begin(proc, n) PROVE ReadBack' /\ ReadsBack
  <2>1. Call("read-char") \/ UNCHANGED <<ports, codec, impl, source, rbuf, op, output, written, back>>
      BY <1>5 DEF Begin
  <2>2. impl = "open" /\ op = "idle"
      BY <1>5 DEF Begin, Idle
  <2>3. CASE Call("read-char")
    <3>1. "read-char" # "idle"
        OBVIOUS
    <3> QED BY Zenon, <1>5, <2>2, <2>3, <3>1, ReadBackCall
  <2>4. CASE UNCHANGED <<ports, codec, impl, source, rbuf, op, output, written, back>>
      BY Zenon, <2>4, ReadBackSame
  <2> QED BY <2>1, <2>3, <2>4
<1>6. ASSUME back, NEW o \in Procedures, Enter(o) PROVE ReadBack' /\ ReadsBack
  <2>1. Call(o) /\ impl = "open" /\ o # "idle"
      BY <1>6 DEF Enter, Procedures
  <2> QED BY Zenon, <1>6, <2>1, ReadBackCall
<1>7. ASSUME back, Running PROVE ReadBack' /\ ReadsBack
  <2>1. CASE read_chars
    <3>1. CASE Stays
        BY Zenon, <3>1, ReadBackSame DEF Stays
    <3>2. CASE Call("read-char")
      <4>1. impl = "open" /\ "read-char" # "idle"
          BY <2>1 DEF read_chars, Inv, NoUseAfterClose
      <4> QED BY Zenon, <1>7, <3>2, <4>1, ReadBackCall
    <3>3. Stays \/ Call("read-char")
        BY <2>1 DEF read_chars
    <3> QED BY <3>1, <3>2, <3>3
  <2> QED BY Zenon, <1>7, <2>1, ReadBackError, ReadBackChar, ReadBackEof, ReadBackByte, ReadBackSbcport
          DEF Running
<1>8. ASSUME back, NEW c \in Codecs, ScmMultiByteCharPort_set_codec(c) PROVE ReadBack' /\ ReadsBack
  <2>1. ~back' /\ op = "idle" /\ impl = "open"
      BY <1>8 DEF ScmMultiByteCharPort_set_codec, Idle
  <2> QED BY <2>1 DEF ReadBack, ReadsBack
<1>9. ASSUME back, scm_port_close PROVE ReadBack' /\ ReadsBack
  <2>1. ~back' /\ op = "idle" /\ impl = "open"
      BY <1>9 DEF scm_port_close, Idle
  <2> QED BY <2>1 DEF ReadBack, ReadsBack
<1>10. ASSUME back PROVE ~CloseAgain /\ \A o : ~Refused(o)
    BY <1>10 DEF ReadBack, CloseAgain, Refused
<1>11. CASE UNCHANGED vars
    BY Zenon, <1>11, ReadBackSame DEF vars
<1> QED BY Zenon, <1>1, <1>2, <1>3, <1>4, <1>5, <1>6, <1>7, <1>8, <1>9, <1>10, <1>11
       DEF Next, scm_p_read_line, scm_p_read_string, scm_p_read_bytevector, scm_p_read_bytevectorx

(* What is written is read back: if no zero is written, a port that is     *)
(* opened on the result of an output string port delivers the characters   *)
(* that were written, in their order, and then the end of the input,       *)
(* whatever is peeked or asked for in between; string-length counts them.  *)
THEOREM WrittenIsReadBack ==
    ASSUME 0 \notin Chars, \A s \in Texts : \A i \in 1 .. Len(s) : s[i] # 0
    PROVE  Spec => WrittenReadBack
<1>1. Init => ReadBack
  <2>1. \A cp, cd : WritableText(cp, cd, <<>>)
      BY DEF WritableText
  <2>2. TextBytes(cport, codec, <<>>) = <<>>
      BY Zenon, BytesNone
  <2> QED BY <2>1, <2>2 DEF Init, ReadBack
<1>2. Inv /\ ReadBack /\ [Next]_vars => ReadBack' /\ ReadsBack
    BY ReadBackNext
<1>3. ReadsBack => [ReadsBack]_vars
    OBVIOUS
<1>4. Spec => [][ReadsBack]_vars
    BY <1>1, <1>2, BufferInvariant, PTL DEF Spec
<1> QED BY <1>4 DEF WrittenReadBack, ReadsBack
=============================================================================
