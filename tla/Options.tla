------------------------------ MODULE Options ------------------------------
(***************************************************************************)
(* The command line: OptionHandler::Handler, the option classes and        *)
(* parse_arg_options.                                                      *)
(*                                                                         *)
(* A word of the input is the record of what the code looks at: at(0),     *)
(* at(1) and substr(2); a character that is not there is "".  A name, a    *)
(* value or the rest of a word is a string that is never taken apart.      *)
(***************************************************************************)
EXTENDS Integers, Sequences, SequencesExt

CONSTANTS Declared,   \* the options of main and rocks, in order
          Number(_)   \* std::stoll of a word, BadNumber when it throws

CONSTANT BadNumber

Word(c0, c1, rest) == [c0 |-> c0, c1 |-> c1, rest |-> rest]
Option(short, long, kind) == [short |-> short, long |-> long, kind |-> kind]

Words == {w \in [c0 : STRING, c1 : STRING, rest : STRING] :
            (w.c0 = "" => w.c1 = "") /\ (w.c1 = "" => w.rest = "")}

(* No two options have the same long name, and none is called help; a      *)
(* short name is a character that is no dash, "?" when there is none.      *)
ASSUME OptionsAssumption ==
    /\ Declared \in Seq([short : STRING, long : STRING, kind : {"bool", "int", "str"}])
    /\ \A i \in DOMAIN Declared : /\ Declared[i].long \notin {"", "help"}
                                  /\ Declared[i].short \notin {"", "-"}
    /\ \A i, j \in DOMAIN Declared : Declared[i].long = Declared[j].long => i = j

(* at() throws std::out_of_range on a word that is too short for it.       *)
OutOfRange(w) == w.c0 = "" \/ (w.c0 = "-" /\ w.c1 = "")

is_short(w) == w.c0 = "-" /\ w.c1 # "-"
is_long(w) == w.c0 = "-" /\ w.c1 = "-"
is_option(w) == is_long(w) \/ is_short(w)

(* Names one option, by the first letter or by all after the second.       *)
Names(option, w) == is_option(w) /\ (w.c1 = option.short \/ w.rest = option.long)

ArgumentType(option) == IF option.kind = "bool" THEN "NONE" ELSE "REQUIRED"

(***************************************************************************)
(* The state of the parse: parsed_input, a function from the names it      *)
(* holds to sequences of words, and whether an exception has been thrown.  *)
(***************************************************************************)
NoInput == [parsed |-> << >>, threw |-> FALSE]
Throw(p) == [p EXCEPT !.threw = TRUE]
Has(p, name) == name \in DOMAIN p.parsed
Insert(p, name, words) ==
    [p EXCEPT !.parsed = [n \in DOMAIN @ \cup {name} |-> IF n = name THEN words ELSE @[n]]]

update_none(p, option, input, i) ==
    IF i + 1 <= Len(input) /\ ~is_option(input[i + 1]) THEN Throw(p)
    ELSE IF Has(p, option.long) THEN p ELSE Insert(p, option.long, << >>)

SetArgument_First(p, name, w) == IF Has(p, name) THEN p ELSE Insert(p, name, <<w>>)

(* An argument of an option that is not multiple, as none of these is,     *)
(* replaces the one before.                                                *)
SetArgument(p, name, w) ==
    IF Has(p, name) THEN [p EXCEPT !.parsed[name][1] = w] ELSE Insert(p, name, <<w>>)

(* The loop of update_optional at a word: the next option stops it.        *)
read_word(q, option, w) ==
    IF q.stop \/ is_option(w) THEN [p |-> q.p, stop |-> TRUE]
    ELSE [p |-> SetArgument(q.p, option.long, w), stop |-> FALSE]

update_optional(p, option, input, i) ==
    LET read[j \in i..Len(input)] ==
          IF j = i THEN [p |-> p, stop |-> FALSE] ELSE read_word(read[j - 1], option, input[j])
    IN read[Len(input)].p

update_required(p, option, input, i) ==
    IF i = Len(input) \/ is_option(input[i + 1]) THEN Throw(p)
    ELSE update_optional(p, option, input, i)

(* The loop of update at word i.  A word that is out of range stops it,    *)
(* seen as the next word or as this one.                                   *)
update_word(p, option, input, i) ==
    IF p.threw THEN p
    ELSE IF OutOfRange(input[i]) THEN Throw(p)
    ELSE IF ~Names(option, input[i]) THEN p
    ELSE IF i < Len(input) /\ OutOfRange(input[i + 1]) THEN Throw(p)
    ELSE IF ArgumentType(option) = "NONE" THEN update_none(p, option, input, i)
    ELSE update_required(p, option, input, i)

(* add_option: the whole input is read again for the new option.           *)
add_option(p, option, input) ==
    LET updated[i \in 0..Len(input)] ==
          IF i = 0 THEN p ELSE update_word(updated[i - 1], option, input, i)
    IN updated[Len(input)]

Help == Option("h", "help", "bool")

(* The options in the order in which they are registered, help last.       *)
Registered == Append(Declared, Help)

get_option(p, name) == Has(p, name)
get_argument(p, name) == p.parsed[name][1]

(* read_option: a bool option becomes TRUE, a number goes through stoll.   *)
Reads(p, option) ==
    CASE option.kind = "bool" -> TRUE
      [] option.kind = "int" -> Number(get_argument(p, option.long))
      [] option.kind = "str" -> get_argument(p, option.long)

(* The end of parse_arg_options, when every option is registered: FALSE    *)
(* after help and after any exception; otherwise the value of each option  *)
(* that was given.                                                         *)
Parsed(p) ==
    LET given == {o \in ToSet(Declared) : get_option(p, o.long)}
    IN IF p.threw \/ get_option(p, "help")
          \/ \E o \in given : Reads(p, o) = BadNumber
       THEN [ok |-> FALSE, value |-> << >>]
       ELSE [ok |-> TRUE,
             value |-> [n \in {o.long : o \in given} |->
                          Reads(p, CHOOSE o \in given : o.long = n)]]

-----------------------------------------------------------------------------
(***************************************************************************)
(* What the help page says of a command line, without the handler.  An     *)
(* option is given by "--name", or by "-x" if the page shows a short name  *)
(* x for it; a word that does not begin with a dash is an argument, and so *)
(* is a negative number ("-1 is unlimited").  The arguments of an option   *)
(* are the words up to the next one that is none, and its value is the     *)
(* last of them.  A line with an empty word or a single dash is refused.   *)
(***************************************************************************)
Gives(option, w) ==
    \/ w = Word("-", "-", option.long)
    \/ option.short # "?" /\ w = Word("-", option.short, "")
IsArgument(w) == w.c0 # "-" \/ Number(w) # BadNumber

Arguments(input, i) == {j \in i + 1..Len(input) : \A k \in i + 1..j : IsArgument(input[k])}
Occurrences(option, input) == {i \in 1..Len(input) : Gives(option, input[i])}
LastArgument(option, input) ==
    input[CHOOSE j \in 1..Len(input) :
        /\ \E i \in Occurrences(option, input) : j \in Arguments(input, i)
        /\ \A i \in Occurrences(option, input) : \A k \in Arguments(input, i) : k <= j]

WellFormed(input) ==
    /\ \A i \in 1..Len(input) : input[i] \notin {Word("", "", ""), Word("-", "", "")}
    /\ \A o \in ToSet(Declared) \cup {Help} : \A i \in Occurrences(o, input) :
          (o.kind = "bool") <=> (Arguments(input, i) = {})

Meaning(input) ==
    LET given == {o \in ToSet(Declared) : Occurrences(o, input) # {}}
        Value(o) == CASE o.kind = "bool" -> TRUE
                      [] o.kind = "int" -> Number(LastArgument(o, input))
                      [] o.kind = "str" -> LastArgument(o, input)
    IN IF /\ WellFormed(input)
          /\ Occurrences(Help, input) = {}
          /\ \A o \in given : Value(o) # BadNumber
       THEN [ok |-> TRUE,
             value |-> [n \in {o.long : o \in given} |-> Value(CHOOSE o \in given : o.long = n)]]
       ELSE [ok |-> FALSE, value |-> << >>]

(***************************************************************************)
(* The words of which the handler makes something else: a negative number, *)
(* which it takes for an option, so that the option before it is refused;  *)
(* "-?", which it takes for every option without a short name; and a       *)
(* single dash with more than one character, of which it takes the first,  *)
(* or all the others as a long name.                                       *)
(***************************************************************************)
Doubtful(w) ==
    /\ w.c0 = "-"
    /\ Number(w) # BadNumber \/ (w.c1 # "-" /\ (w.c1 = "?" \/ w.rest # ""))
Plain(input) == \A i \in 1..Len(input) : ~Doubtful(input[i])
=============================================================================
