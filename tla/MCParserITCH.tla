---------------------------- MODULE MCParserITCH -----------------------------
(***************************************************************************)
(* ParserITCH for TLC: a file with a message before and after the          *)
(* directory entry, one the adapter refuses and a second directory entry,  *)
(* one without the symbol, and every way a file may end.                   *)
(***************************************************************************)
EXTENDS ParserITCH

SomeRecords == { << <<2, 5>>, <<1>>, <<2, 6>>, <<4, 0, 9>>, <<2, 7>> >>,
                 << <<1>>, <<3>>, <<2, 8>> >>,
                 << <<1>>, <<3>>, <<1>>, <<2, 8>> >>,
                 << <<2, 5>> >> }

SomeTails == {<<>>, <<0>>, <<0, 0>>, <<0, 2, 2>>}

SomeFiles == [records : SomeRecords, tail : SomeTails]
=============================================================================
