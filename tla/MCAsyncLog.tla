----------------------------- MODULE MCAsyncLog -----------------------------
(* An instance of AsyncLog: one client beside the owner, a queue of two.   *)
EXTENDS AsyncLog, TLC

CONSTANTS w, c1, o

MCThreads == {w, c1, o}
MCClients == {c1, o}
MCLevels == {4}
MCBudget == 1
MCItems == {Message("log", t, n, lvl) : t \in MCClients, n \in 1..MCBudget, lvl \in MCLevels}
             \cup {Message("flush", w, 0, 0), Message("terminate", w, 0, 0)}
MCSinkLevel == <<0, 5>>
=============================================================================
