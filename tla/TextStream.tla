----------------------------- MODULE TextStream -----------------------------
(***************************************************************************)
(* What an input port promises to the procedures that read from it         *)
(* (read-char, peek-char, char-ready? and their binary counterparts): a    *)
(* stream of bytes of which every read takes the first character, whole.   *)
(* There is no buffer here, and the bytes are all at hand.  The same       *)
(* character is peeked until it is read, a broken one is an error that     *)
(* stays, a failure of the byte port or a refused procedure loses nothing, *)
(* and a character cut off by the end of the input is dropped.             *)
(***************************************************************************)
EXTENDS Encoding

VARIABLES left,    \* the bytes not read yet
          codec,   \* the port's codec
          status,  \* "unopened", "open", "closed"
          seen,    \* how the last procedure ended: [op, kind, ch]
          linenum  \* the line of the next character

vars == <<left, codec, status, seen, linenum>>

Procedures == {"read-char", "peek-char", "char-ready?"}

Newline == \h0A

First == scan_char(codec, left)

Seen(o, k, c) == seen' = [op |-> o, kind |-> k, ch |-> c]

Init ==
  /\ left \in Seq(Byte)
  /\ codec \in Codecs
  /\ status \in {"unopened", "open"}
  /\ seen = [op |-> "none", kind |-> "none", ch |-> 0]
  /\ linenum = 1

(* A character is written elsewhere, for this port to be opened on it. *)
Elsewhere ==
  /\ status = "unopened"
  /\ \E k \in {"none", "invalid"} : Seen("write-char", k, 0)
  /\ UNCHANGED <<left, codec, status, linenum>>

Open ==
  /\ status = "unopened" /\ status' = "open"
  /\ left' \in Seq(Byte)
  /\ UNCHANGED <<codec, seen, linenum>>

Read ==
  /\ status = "open"
  /\ First.flag = "none" /\ First.size > 0
  /\ Seen("read-char", "char", str2int(codec, SubSeq(left, 1, First.size)))
  /\ left' = SubSeq(left, First.size + 1, Len(left))
  /\ linenum' = linenum + (IF seen'.ch = Newline THEN 1 ELSE 0)
  /\ UNCHANGED <<codec, status>>

Peek ==
  /\ status = "open"
  /\ First.flag = "none" /\ First.size > 0
  /\ Seen("peek-char", "char", str2int(codec, SubSeq(left, 1, First.size)))
  /\ UNCHANGED <<left, codec, status, linenum>>

AtEnd ==
  /\ status = "open"
  /\ left = <<>> \/ First.flag = "incomplete"
  /\ \E o \in {"read-char", "peek-char"} : Seen(o, "eof", 0)
  /\ left' = <<>>
  /\ UNCHANGED <<codec, status, linenum>>

(* char-ready? answers for a whole character and at the end. *)
Ready ==
  /\ status = "open"
  /\ First.flag # "error"
  /\ Seen("char-ready?", "ready", 0)
  /\ left' = IF First.flag = "incomplete" THEN <<>> ELSE left
  /\ UNCHANGED <<codec, status, linenum>>

Broken ==
  /\ status = "open"
  /\ First.flag = "error"
  /\ \E o \in Procedures : Seen(o, "broken", 0)
  /\ UNCHANGED <<left, codec, status, linenum>>

Fail ==
  /\ status = "open"
  /\ \E o \in Procedures, k \in {"ioerror", "unsupported"} : Seen(o, k, 0)
  /\ UNCHANGED <<left, codec, status, linenum>>

(* "only one byte can be preserved for new codec": the bytes of a          *)
(* character that has been looked at may be lost.                          *)
SetCodec ==
  /\ status = "open"
  /\ codec' \in Codecs
  /\ Seen("set-codec", "none", 0)
  /\ \E n \in {0} \cup (2 .. SCM_MB_MAX_LEN) :
       n <= Len(left) /\ left' = SubSeq(left, n + 1, Len(left))
  /\ UNCHANGED <<status, linenum>>

Close ==
  /\ status = "open" /\ status' = "closed"
  /\ left' = <<>>
  /\ Seen("close-port", "none", 0)
  /\ UNCHANGED <<codec, linenum>>

Closed ==
  /\ status = "closed"
  /\ \/ Seen("close-port", "none", 0)
     \/ \E o \in Procedures : Seen(o, "closed", 0)
  /\ UNCHANGED <<left, codec, status, linenum>>

Next ==
  \/ Elsewhere \/ Open \/ Read \/ Peek \/ AtEnd \/ Ready \/ Broken \/ Fail
  \/ SetCodec \/ Close \/ Closed

Spec == Init /\ [][Next]_vars
=============================================================================
