--------------------------- MODULE MCRandomCalls ---------------------------
(* Constants for checking RandomCalls with TLC.                            *)
EXTENDS RandomCalls

\* One bit, all bits up to one, the lowest and another, for every width.
MCMaxima ==
  UNION {{<<w, {}>>} \cup UNION {{<<w, {b}>>, <<w, 0 .. b>>, <<w, {0, b}>>} : b \in 0 .. w - 1}
           : w \in {8, 16, 32, 64}}

\* 0x00, 0x01, 0x80, 0xff.
MCDraws == {{}, {0}, {7}, 0 .. 7}

\* Every count of a size_t of 7 bits, buffers too short by nothing, one, much.
MCTextCalls ==
  [fn : {"string", "base16", "base32", "base64"}, len : {0, 1, 2, 5, 8, 9, 16, 17, 18, 33, 70},
   count : 0 .. 127, alphalen : {3}]
  \cup [fn : {"string"}, len : {0, 1, 5}, count : {0, 1, 63, 64}, alphalen : {0}]

MCBase64Calls == [fn : {"base64"}, len : {9}, count : 0 .. 6, alphalen : {0}]

MCShuffleCalls == {<<0, 4>>, <<1, 4>>, <<3, 0>>, <<2, 4>>, <<3, 8>>, <<4, 9>>, <<5, 4>>}
=============================================================================
