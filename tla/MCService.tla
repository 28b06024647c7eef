----------------------------- MODULE MCService ------------------------------
(* The service with two flags, a number and two strings on its command     *)
(* line; a word is an option, an argument, or malformed.                   *)
EXTENDS Service

MCDeclared == << Option("?", "http_threads", "int"), Option("?", "statsd_address", "str"),
                 Option("?", "log_level", "str"), Option("d", "db_debug", "bool"),
                 Option("?", "db_restore_backup", "bool") >>

Long(n) == Word("-", "-", n)
Seven == Word("7", "", "")
Debug == Word("d", "e", "bug")
Some == Word("l", "o", "udest")
Minus == Word("-", "1", "")
MCNumber(w) == CASE w = Seven -> 7
                 [] w = Minus -> -1
                 [] OTHER -> BadNumber
MCLevelWords == {Debug}

MCWords == {Long(o.long) : o \in ToSet(MCDeclared)} \cup
    {Seven, Debug, Some, Minus, Word("-", "d", ""), Word("-", "?", ""),
     Word("-", "", ""), Word("-", "h", ""), Word("-", "q", "")}
MCCommandLines == UNION {[1..n -> MCWords] : n \in 0..3}
MCRestartLines == {<< >>, <<Long("statsd_address"), Some, Long("db_restore_backup")>>}
=============================================================================
