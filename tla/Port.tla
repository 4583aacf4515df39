-------------------------------- MODULE Port --------------------------------
(***************************************************************************)
(* A port of src/port.c and the layers below it: the multibyte character   *)
(* port (scmport-mbchar.c) with its buffer rbuf, or the single-byte one of *)
(* binary ports (scmport-sbchar.c, scmport-basechar.c), over the byte port *)
(* of a string (scmport-str.c) or of a file (scmport-file.c).              *)
(*                                                                         *)
(* The bytes come from the environment, or they are what write-char has    *)
(* put into an output string port: then the port is opened on the result   *)
(* of get-output-string (get-output-bytevector for a binary port), and     *)
(* what is written can be compared with what is read.                      *)
(*                                                                         *)
(* One step of mbcport_fill_rbuf() is one turn of its loop: the byte port  *)
(* may fail in any of them, which leaves the procedure by an error and the *)
(* buffer as it is.                                                        *)
(***************************************************************************)
EXTENDS Encoding, SequencesExt

CONSTANTS Inputs,      \* the contents of the environment's files and strings
          Chars,       \* the characters that are written
          MaxWrites,   \* how many of them
          Texts,       \* strings and bytevectors that are written
          Lengths,     \* how many characters read-string is asked for
          ClosesFail   \* may fclose() fail?

ASSUME InputsAssumption == Inputs \subseteq Seq(Byte)

ASSUME CharsAssumption == Chars \subseteq Nat

ASSUME MaxWritesAssumption == MaxWrites \in Nat

ASSUME TextsAssumption == Texts \subseteq Seq(Nat) /\ Lengths \subseteq Nat

ASSUME ClosesFailAssumption == ClosesFail \in BOOLEAN

VARIABLES cport,     \* the character port: "mb" or "sb"
          bport,     \* the byte port: "string" or "file"
          codec,     \* the codec of the character port
          impl,      \* SCM_PORT_IMPL: "unopened", "open", "null", "freed"
          source,    \* the bytes that the byte port has not delivered yet
          rbuf,      \* the bytes in the buffer of the multibyte port
          linenum,   \* the line number kept by the character port
          op,        \* the procedure in progress, or "idle"
          seen,      \* how the last procedure ended: [op, kind, ch]
          out,       \* the bytes in the buffer of the output string port
          buf_size,  \* the size of that buffer
          written,   \* the characters written and not read back yet
          back,      \* does this port read exactly what was written?
          loop       \* read-line, read-string or read-bytevector, see NoLoop

ports == <<cport, bport>>

output == <<out, buf_size>>

vars == <<ports, codec, impl, source, rbuf, linenum, op, seen, output,
          written, back, loop>>

Procedures == {"read-char", "peek-char", "char-ready?"}

Newline == \h0A

Ended(o, k, c) == seen' = [op |-> o, kind |-> k, ch |-> c]

(* A procedure that reads several characters: proc is its name, n how many *)
(* it still may read (negative: any number), got what it has read, kind    *)
(* how it ended, or "reading".  from is auxiliary: the bytes of the stream *)
(* when it started.                                                        *)
NoLoop == [proc |-> "none", n |-> 0, got |-> <<>>, kind |-> "none", from |-> <<>>]

Idle == op = "idle" /\ loop.kind # "reading"

Init ==
  /\ cport \in {"mb", "sb"}
  /\ codec \in IF cport = "sb" THEN {"ISO-8859-1"} ELSE Codecs
  /\ \/ /\ impl = "open" /\ bport \in {"string", "file"}
        /\ source \in Inputs
        /\ back = FALSE
     \/ /\ impl = "unopened" /\ bport = "string"
        /\ source = <<>>
        /\ back = TRUE
  /\ rbuf = <<>>
  /\ linenum = 1
  /\ op = "idle"
  /\ seen = [op |-> "none", kind |-> "none", ch |-> 0]
  /\ out = <<>> /\ buf_size = 0
  /\ written = <<>>
  /\ loop = NoLoop

-----------------------------------------------------------------------------
(***************************************************************************)
(* The output string port.                                                 *)
(***************************************************************************)

(* The size of the buffer after len more bytes and the terminating 0. *)
Extended(len) ==
  LET cur == Len(out)
  IN  IF buf_size - cur < len + 1
      THEN IF 2 * buf_size < cur + len + 1 THEN cur + len + 1 ELSE 2 * buf_size
      ELSE buf_size

ostrport_append(bytes) ==
  /\ buf_size' = Extended(Len(bytes))
  /\ out' = out \o bytes

(* The bytes that put_char writes: the low byte on a binary port. *)
put_char(ch) == IF cport = "sb" THEN <<ch % 256>> ELSE int2str(codec, ch)

scm_p_write_char(ch) ==
  /\ impl = "unopened" /\ Len(written) < MaxWrites
  /\ cport = "sb" => ch \in Byte
  /\ IF put_char(ch) = <<>>
     THEN /\ Ended("write-char", "invalid", 0)
          /\ UNCHANGED <<output, written, back>>
     ELSE /\ ostrport_append(put_char(ch))
          /\ written' = Append(written, ch)
          /\ back' = (back /\ Encodable(codec, ch))
          /\ Ended("write-char", "none", 0)
  /\ UNCHANGED <<ports, codec, impl, source, rbuf, linenum, op, loop>>

(* The bytes of the characters s, one after the other. *)
Bytes(s) == FlattenSeq([i \in DOMAIN s |-> put_char(s[i])])

(* All bytes of s are put to the byte port at once: by puts() for a string,  *)
(* which consists of characters, past the character port for a bytevector.   *)
PutAll(s) ==
  /\ impl = "unopened" /\ Len(written) + Len(s) <= MaxWrites
  /\ ostrport_append(Bytes(s))
  /\ written' = written \o s
  /\ Ended("write-char", "none", 0)
  /\ UNCHANGED <<ports, codec, impl, source, rbuf, linenum, op, back, loop>>

scm_p_write_string(s, start, end) ==
  /\ cport = "mb" /\ \A i \in DOMAIN s : Encodable(codec, s[i])
  /\ PutAll(SubSeq(s, start + 1, end))

scm_p_write_bytevector(bv, start, end) ==
  /\ cport = "sb" /\ \A i \in DOMAIN bv : bv[i] \in Byte
  /\ PutAll(SubSeq(bv, start + 1, end))

(* The output port is not used any more. *)
Opened(bytes) ==
  /\ impl = "unopened" /\ impl' = "open"
  /\ source' = bytes
  /\ out' = <<>> /\ buf_size' = 0
  /\ UNCHANGED <<ports, codec, rbuf, linenum, op, seen, written, back, loop>>

(* A string port reads a C string, a bytevector port all bytes. *)
scm_p_srfi6_open_input_string == cport = "mb" /\ Opened(CString(out))
scm_p_open_input_bytevector == cport = "sb" /\ Opened(out)

-----------------------------------------------------------------------------
(***************************************************************************)
(* The input port.                                                         *)
(***************************************************************************)

(* scm_port_get_char(), scm_port_peek_char() and scm_port_char_readyp(). *)
(* mbcport_fill_rbuf() finds the end of the buffer with strchr().        *)
Call(o) ==
  /\ op' = o
  /\ rbuf' = IF cport = "mb" THEN CString(rbuf) ELSE rbuf
  /\ UNCHANGED <<ports, codec, impl, source, linenum, seen, output, written, back>>

(* read-char, peek-char and char-ready?, and for a binary port read-u8,    *)
(* peek-u8 and u8-ready?, whose other ports are an error.                  *)
Enter(o) ==
  /\ Idle /\ impl = "open"
  /\ Call(o)
  /\ loop' = NoLoop

(* SCM_ENSURE_LIVE_PORT. *)
Refused(o) ==
  /\ Idle /\ impl \in {"null", "freed"}
  /\ Ended(o, IF impl = "freed" THEN "undefined" ELSE "closed", 0)
  /\ loop' = NoLoop
  /\ UNCHANGED <<ports, codec, impl, source, rbuf, linenum, op, output, written, back>>

Return1(k, c) ==
  /\ op' = "idle"
  /\ Ended(op, k, c)
  /\ UNCHANGED <<ports, codec, impl, output, back, loop>>

(* The character c is taken from the port: read-char counts the lines. *)
Taken(c) ==
  /\ linenum' = linenum + (IF op = "read-char" /\ c = Newline THEN 1 ELSE 0)
  /\ written' = IF op = "read-char" /\ written # <<>>
                THEN Tail(written) ELSE written

Scanned == scan_char(codec, rbuf)

Filling == cport = "mb" /\ op \in Procedures

Wanting ==
  /\ Filling
  /\ Scanned.flag # "error" /\ (Scanned.flag = "incomplete" \/ Scanned.size = 0)

mbcport_error ==
  /\ Filling
  /\ Scanned.flag = "error" \/ (Wanting /\ Len(rbuf) = SCM_MB_MAX_LEN)
  /\ Return1(IF Scanned.flag = "error" THEN "broken" ELSE "scanner", 0)
  /\ UNCHANGED <<source, rbuf, linenum, written>>

mbcport_char ==
  /\ Filling
  /\ Scanned.flag = "none" /\ Scanned.size > 0
  /\ LET ch == str2int(codec, SubSeq(rbuf, 1, Scanned.size))
     IN  /\ IF op = "char-ready?" THEN Return1("ready", 0)
            ELSE Return1("char", ch)
         /\ Taken(ch)
  /\ rbuf' = IF op = "read-char" THEN <<>> ELSE rbuf
  /\ UNCHANGED source

mbcport_eof ==
  /\ Wanting /\ Len(rbuf) < SCM_MB_MAX_LEN /\ source = <<>>
  /\ Return1(IF op = "char-ready?" THEN "ready" ELSE "eof", 0)
  /\ rbuf' = <<>>
  /\ UNCHANGED <<source, linenum, written>>

(* fileport_byte_readyp() raises the "known bug" error. *)
mbcport_byte ==
  /\ Wanting /\ Len(rbuf) < SCM_MB_MAX_LEN /\ source # <<>>
  /\ rbuf' = Append(rbuf, Head(source))
  /\ source' = Tail(source)
  /\ IF op = "char-ready?" /\ bport = "file"
     THEN Return1("unsupported", 0)
     ELSE UNCHANGED <<ports, codec, impl, op, seen, output, back, loop>>
  /\ UNCHANGED <<linenum, written>>

(* basecport_get_char() and basecport_peek_char(). *)
sbcport_char ==
  /\ cport = "sb" /\ op \in {"read-char", "peek-char"}
  /\ source # <<>>
  /\ Return1("char", Head(source))
  /\ Taken(Head(source))
  /\ source' = IF op = "read-char" THEN Tail(source) ELSE source
  /\ UNCHANGED rbuf

sbcport_eof ==
  /\ cport = "sb" /\ op \in {"read-char", "peek-char"}
  /\ source = <<>>
  /\ Return1("eof", 0)
  /\ UNCHANGED <<source, rbuf, linenum, written>>

sbcport_readyp ==
  /\ cport = "sb" /\ op = "char-ready?"
  /\ Return1(IF bport = "file" THEN "unsupported" ELSE "ready", 0)
  /\ UNCHANGED <<source, rbuf, linenum, written>>

(* A mutant of fixup_read_char: a failure is taken for the end of the file. *)
fixup_read_char_eof ==
  /\ bport = "file"
  /\ \/ Wanting /\ Len(rbuf) < SCM_MB_MAX_LEN
     \/ cport = "sb" /\ op \in {"read-char", "peek-char"}
  /\ Return1("ioerror", 0)
  /\ rbuf' = <<>>
  /\ UNCHANGED <<source, linenum, written>>

(* fixup_read_char(): fgetc() fails, with an error that clearerr() clears. *)
fixup_read_char ==
  /\ bport = "file"
  /\ \/ Wanting /\ Len(rbuf) < SCM_MB_MAX_LEN
     \/ cport = "sb" /\ op \in {"read-char", "peek-char"}
  /\ Return1("ioerror", 0)
  /\ UNCHANGED <<source, rbuf, linenum, written>>

-----------------------------------------------------------------------------
(***************************************************************************)
(* Procedures that read several characters.                                *)
(***************************************************************************)

(* The loop ends, and what it has read is its value, or the end of file. *)
Value(got, eof) ==
  loop' = [loop EXCEPT !.got = got, !.n = 0, !.from = <<>>,
                       !.kind = IF got = <<>> /\ eof THEN "eof" ELSE "value"]

(* The loop starts and, unless there is nothing to read, asks for a character. *)
Begin(proc, n) ==
  /\ Idle /\ impl = "open"
  /\ loop' = [proc |-> proc, n |-> n, got |-> <<>>,
              kind |-> IF n = 0 THEN "value" ELSE "reading",
              from |-> IF n = 0 THEN <<>> ELSE rbuf \o source]
  /\ IF n = 0
     THEN UNCHANGED <<ports, codec, impl, source, rbuf, linenum, op, seen, output, written, back>>
     ELSE Call("read-char")

scm_p_read_line == Begin("read-line", -1)
scm_p_read_string(k) == Begin("read-string", k)
scm_p_read_bytevector(k) == cport = "sb" /\ Begin("read-bytevector", k)

(* read-bytevector! of the elements from start to end of a bytevector. *)
scm_p_read_bytevectorx(start, end) ==
  cport = "sb" /\ start <= end /\ Begin("read-bytevector!", end - start)

Stays == UNCHANGED <<ports, codec, impl, source, rbuf, linenum, op, seen, output, written, back>>

(* A mutant of read_chars: the limit is looked at after a character is read. *)
read_chars_late ==
  /\ op = "idle" /\ loop.kind = "reading"
  /\ \/ seen.kind = "eof" /\ Value(loop.got, TRUE) /\ Stays
     \/ /\ seen.kind = "char" /\ (loop.n = 0 \/ (loop.proc = "read-line" /\ seen.ch = Newline))
        /\ Value(loop.got, FALSE) /\ Stays
     \/ /\ seen.kind = "char" /\ loop.n # 0 /\ ~(loop.proc = "read-line" /\ seen.ch = Newline)
        /\ loop' = [loop EXCEPT !.got = Append(@, seen.ch), !.n = @ - 1]
        /\ Call("read-char")
     \/ seen.kind \notin {"eof", "char"} /\ loop' = [NoLoop EXCEPT !.kind = "error"] /\ Stays

(* The rest of a turn of the loop of read_chars(), read-bytevector and     *)
(* read-bytevector!, after scm_port_get_char().  An error leaves the loop, *)
(* and the characters read so far are lost.                                *)
read_chars ==
  /\ op = "idle" /\ loop.kind = "reading"
  /\ \/ seen.kind = "eof" /\ Value(loop.got, TRUE) /\ Stays
     \/ /\ seen.kind = "char" /\ loop.proc = "read-line" /\ seen.ch = Newline
        /\ Value(loop.got, FALSE) /\ Stays
     \/ /\ seen.kind = "char" /\ ~(loop.proc = "read-line" /\ seen.ch = Newline)
        /\ IF loop.n = 1
           THEN Value(Append(loop.got, seen.ch), FALSE) /\ Stays
           ELSE /\ loop' = [loop EXCEPT !.got = Append(@, seen.ch), !.n = @ - 1]
                /\ Call("read-char")
     \/ seen.kind \notin {"eof", "char"} /\ loop' = [NoLoop EXCEPT !.kind = "error"] /\ Stays

-----------------------------------------------------------------------------
ScmMultiByteCharPort_set_codec(c) ==
  /\ Idle /\ impl = "open" /\ cport = "mb"
  /\ codec' = c
  /\ rbuf' = IF Len(CString(rbuf)) > 1 THEN <<>> ELSE CString(rbuf)
  /\ Ended("set-codec", "none", 0)
  /\ back' = FALSE
  /\ loop' = NoLoop
  /\ UNCHANGED <<ports, impl, source, linenum, op, output, written>>

(* A mutant of scm_port_close: SCM_PORT_IMPL is not cleared. *)
scm_port_close_dangling ==
  /\ Idle /\ impl = "open"
  /\ impl' = "freed"
  /\ source' = <<>> /\ rbuf' = <<>>
  /\ back' = FALSE
  /\ Ended("close-port", "none", 0)
  /\ loop' = NoLoop
  /\ UNCHANGED <<ports, codec, linenum, op, output, written>>

(* scm_port_close(): the ports are freed before the error of fclose() is   *)
(* raised, SCM_PORT_IMPL is cleared afterwards.                            *)
scm_port_close ==
  /\ Idle /\ impl = "open"
  /\ impl' \in IF ClosesFail /\ bport = "file" THEN {"null", "freed"} ELSE {"null"}
  /\ source' = <<>> /\ rbuf' = <<>>
  /\ back' = FALSE
  /\ Ended("close-port", "none", 0)
  /\ loop' = NoLoop
  /\ UNCHANGED <<ports, codec, linenum, op, output, written>>

(* close-input-port and close-port of a port that is no longer alive. *)
CloseAgain ==
  /\ Idle /\ impl \in {"null", "freed"}
  /\ Ended("close-port", IF impl = "freed" THEN "undefined" ELSE "none", 0)
  /\ loop' = NoLoop
  /\ UNCHANGED <<ports, codec, impl, source, rbuf, linenum, op, output, written, back>>

-----------------------------------------------------------------------------
Running ==
  \/ mbcport_error \/ mbcport_char \/ mbcport_eof \/ mbcport_byte
  \/ sbcport_char \/ sbcport_eof \/ sbcport_readyp \/ fixup_read_char
  \/ read_chars

Next ==
  \/ \E ch \in Chars : scm_p_write_char(ch)
  \/ \E s \in Texts, start, end \in 0 .. MaxWrites :
        /\ start <= end /\ end <= Len(s)
        /\ scm_p_write_string(s, start, end) \/ scm_p_write_bytevector(s, start, end)
  \/ scm_p_srfi6_open_input_string \/ scm_p_open_input_bytevector
  \/ scm_p_read_line
  \/ \E k \in Lengths : scm_p_read_string(k) \/ scm_p_read_bytevector(k)
  \/ \E start, end \in Lengths : scm_p_read_bytevectorx(start, end)
  \/ \E o \in Procedures : Enter(o) \/ Refused(o)
  \/ Running
  \/ \E c \in Codecs : ScmMultiByteCharPort_set_codec(c)
  \/ scm_port_close
  \/ CloseAgain

Spec == Init /\ [][Next]_vars

-----------------------------------------------------------------------------
(***************************************************************************)
(* Properties.                                                             *)
(***************************************************************************)
Kinds == {"none", "char", "eof", "ready", "broken", "scanner", "ioerror",
          "unsupported", "closed", "undefined", "invalid"}

Loops ==
  [proc : {"none", "read-line", "read-string", "read-bytevector", "read-bytevector!"},
   n : Int, got : Seq(Nat), from : Seq(Byte),
   kind : {"none", "reading", "value", "eof", "error"}]

(* The type invariant of the ports. *)
TypeOK ==
  /\ cport \in {"mb", "sb"} /\ bport \in {"string", "file"}
  /\ codec \in Codecs /\ (cport = "sb" => codec = "ISO-8859-1")
  /\ impl \in {"unopened", "open", "null", "freed"}
  /\ source \in Seq(Byte) /\ rbuf \in Seq(Byte)
  /\ linenum \in Nat
  /\ op \in Procedures \cup {"idle"}
  /\ seen \in [op : Procedures \cup {"none", "write-char", "set-codec", "close-port"},
               kind : Kinds, ch : Nat]
  /\ out \in Seq(Byte) /\ buf_size \in Nat
  /\ written \in Seq(Nat) /\ back \in BOOLEAN
  /\ loop \in Loops

(* The bytes before the last one of the buffer of mbcport_fill_rbuf() are  *)
(* the beginning of a character, so that the buffer never holds more than  *)
(* one character: get_char empties it, and nothing behind the character    *)
(* may be in it.                                                           *)
OneCharacterBuffered ==
  /\ cport = "sb" => rbuf = <<>>
  /\ Len(rbuf) <= SCM_MB_MAX_LEN
  /\ Scanned.flag = "none" => Scanned.size = Len(rbuf)
  /\ Scanned.flag = "incomplete" => Len(rbuf) < SCM_MB_MAX_LEN

(* The buffer of the output string port has room for the bytes written and *)
(* for the terminating 0 that ostrport_append() puts behind them.          *)
TerminatorFits == out # <<>> => Len(out) < buf_size

(* The "broken scanner" error of mbcport_fill_rbuf() is never raised: no   *)
(* codec asks for more bytes than SCM_MB_MAX_LEN.                          *)
ScannerComplete == seen.kind # "scanner"

(* No procedure touches the character port and the byte port after they    *)
(* have been freed: a second close-port, or a read from a closed port.  A  *)
(* procedure, or one that reads several characters, is in progress only on *)
(* a port that is open, and only an open port has a buffer.                *)
NoUseAfterClose ==
  /\ ~ClosesFail => impl # "freed" /\ seen.kind # "undefined"
  /\ op # "idle" \/ loop.kind = "reading" => impl = "open"
  /\ impl # "open" => rbuf = <<>>

(* Together they are inductive. *)
Inv ==
  TypeOK /\ OneCharacterBuffered /\ TerminatorFits /\ ScannerComplete
    /\ NoUseAfterClose

(* The stream of characters does not depend on the buffer: whatever is     *)
(* peeked, asked for with char-ready? or interrupted by a failing fgetc()  *)
(* in between, the port delivers the bytes of the byte port one character  *)
(* after the other and counts their lines.                                 *)
Stream == INSTANCE TextStream WITH
  left   <- IF impl = "open" THEN rbuf \o source ELSE <<>>,
  status <- IF impl \in {"null", "freed"} THEN "closed" ELSE impl

DeliversStream == Stream!Spec

(* The characters that write-char has put into an output string port are   *)
(* read back in their order from a port that is opened on its result, and  *)
(* then the end of the input; string-length counts as many.                *)
WrittenReadBack ==
  [][/\ back /\ op = "read-char" /\ op' = "idle"
       => IF written = <<>> THEN seen'.kind = "eof"
          ELSE seen'.kind = "char" /\ seen'.ch = Head(written)
     /\ back /\ impl = "unopened" /\ impl' = "open"
       => scm_mb_strlen(codec, source') = Len(written)]_vars

(* Reference: the characters that bytes begin with, at most n of them and  *)
(* none from the character end on, the bytes behind them, and what they    *)
(* were followed by.                                                       *)
FirstChars(cdc, bytes, n, end) ==
  LET from[at \in Nat, more \in Int] ==
        LET left == SubSeq(bytes, at + 1, Len(bytes))
            first == scan_char(cdc, left)
            ch == str2int(cdc, SubSeq(left, 1, first.size))
        IN  IF more = 0 THEN [chars |-> <<>>, rest |-> left, by |-> "limit"]
            ELSE IF left = <<>> \/ first.flag = "incomplete"
                 THEN [chars |-> <<>>, rest |-> <<>>, by |-> "eof"]
            ELSE IF first.flag = "error" THEN [chars |-> <<>>, rest |-> left, by |-> "broken"]
            ELSE IF ch = end
                 THEN [chars |-> <<>>, rest |-> SubSeq(left, first.size + 1, Len(left)), by |-> "end"]
            ELSE [from[at + first.size, more - 1] EXCEPT !.chars = <<ch>> \o @]
  IN  from[0, n]

(* read-line, read-string, read-bytevector and read-bytevector! take from  *)
(* the stream exactly the characters they return, and the newline: they    *)
(* return the next line or the next k characters, whatever was peeked      *)
(* before, and an error is raised only where the stream has one, or the    *)
(* byte port fails.                                                        *)
GathersStream ==
  [][loop.kind = "reading" /\ loop'.kind # "reading" =>
       LET limit == IF loop.n < 0 THEN -1 ELSE loop.n + Len(loop.got)
           next == FirstChars(codec, loop.from, limit,
                              IF loop.proc = "read-line" THEN Newline ELSE -1)
       IN  CASE loop'.kind = "error" -> next.by = "broken" \/ seen.kind = "ioerror"
             [] loop'.kind = "eof"   -> next.chars = <<>> /\ next.by = "eof"
             [] OTHER -> /\ next.by # "broken" /\ loop'.got = next.chars
                         /\ rbuf' \o source' = next.rest]_vars
=============================================================================
