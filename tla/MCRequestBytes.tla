--------------------------- MODULE MCRequestBytes ---------------------------
(***************************************************************************)
(* An instance of Request for TLC in which clients send any bytes at all.  *)
(***************************************************************************)
EXTENDS Request, TLC

MCBytes == {"set", "add", "get", "gets", "delete", "ping", "quit", "noreply",
            "a", "b", "c", "d", "0", "1", "2", "-1", "SP", "CR", "LF"}

MCNumbers == <<"0">> :> 0 @@ <<"1">> :> 1 @@ <<"2">> :> 2 @@ <<"-1">> :> -1

(* One or two bytes at a time, in any order, and a quit that is followed by *)
(* more blanks in the same read.                                            *)
AnyByte == {"set", "get", "delete", "2", "noreply", "SP"}
AnyBytes == {<<x>> : x \in AnyByte} \cup {<<x, y>> : x, y \in AnyByte}
            \cup {<<"quit", "SP", "SP">>}
=============================================================================
