-------------------------------- MODULE MCPort -------------------------------
(* Bytes that begin, continue or break a character in each codec. *)
EXTENDS Port, FiniteSetsExt

MCInputs ==
  BoundedSeq({\h0A, \h8F, \hA4, \hE3, \hF0}, 3)
    \cup {<<\hF0, \hA4, \hA4, b, \h0A>> : b \in {\h8E, \hA0, \hF0}}
    \cup {<<b, \hC3, c>> : b \in {\h0A, \hC3, \hE3}, c \in {\h0A, \hA4, \hC3}}
    \cup {<<\hE3, \hA4, \h8E, \hA4>>, <<\h8F, \hA0, \h8E, \hFF>>}

(* Characters of one to four bytes, and codes that no character has. *)
MCChars == {\h0A, \hA4, \h7FF, \h800, \h10FFFF, \h110000, \hA4A2, \h8EA4,
            \h8FA4A2, \h8140, \h817E, \h141}

MCTexts == {<<\hA4, \h0A>>, <<\h800, \h10FFFF>>, <<\hA4A2, \hA4A2>>}
=============================================================================
