------------------------------ MODULE MCStore ------------------------------
(***************************************************************************)
(* Instances of StoreHistory for TLC: two threads  of the TCP server and    *)
(* one HTTP thread, and the command mixes the runs use.                    *)
(***************************************************************************)
EXTENDS StoreHistory, TLC

CONSTANTS t1, t2, h1, k1, k2, v1, v2

MCThreads == {t1, t2, h1}
MCKeyLists == {<<>>, <<k1>>, <<k1, k2>>}
OneKeyLists == {<<>>, <<k1>>}

AnyCommand == t1 :> TcpOps @@ t2 :> TcpOps @@ h1 :> HttpOps
AddersAndOneDeleter ==
  t1 :> {"PING", "ADD", "GET", "DELETE"} @@ t2 :> {"ADD", "GET"} @@ h1 :> {"FETCH"}
AddBesideSet == t1 :> {"ADD"} @@ t2 :> {"SET"} @@ h1 :> {}

MCValues == {v1, v2}
ValueSymmetry == Permutations(MCValues)
=============================================================================
