------------------------------ MODULE Request ------------------------------
(***************************************************************************)
(* The request parser, request::process, fed by the read loop of one       *)
(* connection: bytes travel over TCP, arrive in chunks cut anywhere, and   *)
(* are consumed one at a time by a state machine whose buffer, keys and    *)
(* counters survive from one chunk to the next and from one request to the *)
(* next until request::reset.                                              *)
(*                                                                         *)
(* A "byte" is a member of Bytes; the words of the protocol are one byte   *)
(* each, other words can be longer.  What a finished request does to the   *)
(* database is the subject of StoreCommands.                               *)
(***************************************************************************)
EXTENDS Integers, Sequences

CONSTANTS
  Bytes,         \* the alphabet, with "set", "noreply", "SP", "CR", "LF" ...
  Messages,      \* what clients write to the socket in one go
  Numbers,       \* the words std::stoi accepts, and their values
  SizeModulus,   \* size_t counts modulo this number
  MaxChunk,      \* size of connection::_buffer
  MaxBytes,      \* request::_max_bytes, 0 for no limit
  MaxWire,       \* bound: bytes under way at any time
  MaxKeys,       \* bound: a client adds nothing to a request with more keys
  Paced,         \* clients wait for the server before they write again
  KeepTogether   \* the last bytes of a message that are never cut apart

ASSUME RequestAssumptions ==
  /\ Messages \subseteq Seq(Bytes)
  /\ \A w \in DOMAIN Numbers : Numbers[w] \in Int
  /\ SizeModulus \in Nat \ {0}
  /\ MaxChunk \in Nat \ {0}
  /\ {MaxBytes, MaxWire, MaxKeys, KeepTogether} \subseteq Nat
  /\ Paced \in BOOLEAN

CommandTypes == {"NONE", "SET", "ADD", "GET", "GETS", "DELETE", "QUIT", "PING"}
StatusTypes == {"COMMAND", "DELETE_KEY", "STORAGE_KEY", "FLAGS", "EXPTIME", "NBYTES",
                "NOREP", "DATA", "RETRIEVAL_KEY", "FINISHED", "QUITTING"}

VARIABLES
  wire,       \* bytes written by the client and not yet read
  chunk,      \* the bytes of the current read process has not looked at
  phase,      \* what the connection does: see Phases
  status, command, keys, flags, exp_time, remaining, no_reply, buffer, response

Phases == {"reading",   \* a read is outstanding
           "parsing",   \* the read handler runs
           "writing",   \* a write of the response is outstanding
           "closed"}

numbers == <<flags, exp_time, remaining>>
parser == <<status, command, keys, numbers, no_reply, buffer, response>>
vars == <<wire, chunk, phase, parser>>

TypeOK == /\ wire \in Seq(Bytes) /\ chunk \in Seq(Bytes) /\ buffer \in Seq(Bytes)
          /\ phase \in Phases
          /\ status \in StatusTypes
          /\ command \in CommandTypes
          /\ keys \in Seq(Seq(Bytes))
          /\ flags \in Int /\ exp_time \in Int
          /\ remaining \in 0..(SizeModulus - 1)
          /\ no_reply \in BOOLEAN
          /\ response \in {"none", "PREPARED", "CLIENT_ERROR"}

(* The constructor of request does not initialize _command. *)
Init == /\ wire = <<>> /\ chunk = <<>> /\ phase = "reading"
        /\ status = "COMMAND"
        /\ command \in CommandTypes
        /\ keys = <<>>
        /\ flags = 0 /\ exp_time = 0 /\ remaining = 0
        /\ no_reply = FALSE
        /\ buffer = <<>>
        /\ response = "none"

-----------------------------------------------------------------------------
WhiteSpace == {"SP", "CR", "LF"}

command_from_str(word) == CASE word = <<"set">> -> "SET"
                            [] word = <<"add">> -> "ADD"
                            [] word = <<"get">> -> "GET"
                            [] word = <<"gets">> -> "GETS"
                            [] word = <<"delete">> -> "DELETE"
                            [] word = <<"quit">> -> "QUIT"
                            [] word = <<"ping">> -> "PING"
                            [] OTHER -> "NONE"

(* For NONE the code throws; the parser's action has that case. *)
status_from_command(cmd) == CASE cmd \in {"SET", "ADD"} -> "STORAGE_KEY"
                              [] cmd \in {"GET", "GETS"} -> "RETRIEVAL_KEY"
                              [] cmd = "DELETE" -> "DELETE_KEY"
                              [] cmd = "QUIT" -> "QUITTING"
                              [] OTHER -> "FINISHED"

Advance == chunk' = Tail(chunk) /\ UNCHANGED response

(* Both ways out of process drop what is left of the chunk. *)
prepare_response == /\ status' = "FINISHED"
                    /\ response' = "PREPARED"
                    /\ chunk' = <<>>
Reject == /\ status' = "FINISHED"
          /\ response' = "CLIENT_ERROR"
          /\ chunk' = <<>>

(* process looks at a byte; at a blank outside of the data block. *)
Looking == phase = "parsing" /\ chunk # <<>>
Blank(st) == Looking /\ status = st /\ Head(chunk) \in WhiteSpace

-----------------------------------------------------------------------------
DataByte ==
  /\ Looking /\ status = "DATA" /\ remaining > 0
  /\ remaining' = remaining - 1
  /\ buffer' = Append(buffer, Head(chunk))
  /\ Advance
  /\ UNCHANGED <<wire, phase, status, command, keys, flags, exp_time, no_reply>>

(* The byte after the data block, whatever it is, ends the request. *)
DataEnd ==
  /\ Looking /\ status = "DATA" /\ remaining = 0
  /\ prepare_response
  /\ UNCHANGED <<wire, phase, command, keys, numbers, no_reply, buffer>>

WordByte ==
  /\ Looking /\ status # "DATA" /\ Head(chunk) \notin WhiteSpace
  /\ buffer' = Append(buffer, Head(chunk))
  /\ Advance
  /\ UNCHANGED <<wire, phase, status, command, keys, numbers, no_reply>>

CommandWord ==
  /\ Blank("COMMAND")
  /\ command' = command_from_str(buffer)
  /\ buffer' = <<>>
  /\ \/ command' = "NONE" /\ Reject
     \/ command' = "PING" /\ prepare_response
     \/ /\ command' \notin {"NONE", "PING"}
        /\ status' = status_from_command(command')
        /\ Advance
  /\ UNCHANGED <<wire, phase, keys, numbers, no_reply>>

(* Mutant: the length of the key is not tested. *)
KeyWord_Empty(st, next) ==
  /\ Blank(st)
  /\ keys' = Append(keys, buffer)
  /\ buffer' = <<>>
  /\ status' = next
  /\ Advance
  /\ UNCHANGED <<wire, phase, command, numbers, no_reply>>

(* The key of a delete or of a storage command. *)
KeyWord(st, next) ==
  /\ Blank(st)
  /\ \/ buffer = <<>> /\ Reject /\ UNCHANGED <<keys, buffer>>
     \/ /\ buffer # <<>>
        /\ keys' = Append(keys, buffer)
        /\ buffer' = <<>>
        /\ status' = next
        /\ Advance
  /\ UNCHANGED <<wire, phase, command, numbers, no_reply>>

(* A number that is not one makes std::stoi throw. *)
NumberWord(st, next) ==
  /\ Blank(st)
  /\ \/ buffer \notin DOMAIN Numbers /\ Reject /\ UNCHANGED <<buffer, numbers>>
     \/ /\ buffer \in DOMAIN Numbers
        /\ CASE st = "FLAGS" -> flags' = Numbers[buffer] /\ UNCHANGED <<exp_time, remaining>>
             [] st = "EXPTIME" -> exp_time' = Numbers[buffer] /\ UNCHANGED <<flags, remaining>>
             [] OTHER -> remaining' = Numbers[buffer] % SizeModulus /\ UNCHANGED <<flags, exp_time>>
        /\ buffer' = <<>>
        /\ status' = next
        /\ Advance
  /\ UNCHANGED <<wire, phase, command, keys, no_reply>>

(* Mutant: the word noreply stays in the buffer. *)
NoReplyWord_Kept ==
  /\ Blank("NOREP")
  /\ no_reply' = (buffer = <<"noreply">>)
  /\ \/ remaining > 0 /\ status' = "DATA" /\ Advance
     \/ remaining = 0 /\ prepare_response
  /\ UNCHANGED <<wire, phase, command, keys, numbers, buffer>>

(* Only the word noreply is taken out of the buffer. *)
NoReplyWord ==
  /\ Blank("NOREP")
  /\ \/ /\ buffer = <<"noreply">>
        /\ buffer' = <<>>
        /\ no_reply' = TRUE
        /\ Advance /\ UNCHANGED status
     \/ /\ buffer # <<"noreply">>
        /\ \/ remaining > 0 /\ status' = "DATA" /\ Advance
           \/ remaining = 0 /\ prepare_response
        /\ UNCHANGED <<buffer, no_reply>>
  /\ UNCHANGED <<wire, phase, command, keys, numbers>>

(* Mutant: an empty word does not end the list of keys. *)
RetrievalWord_Endless ==
  /\ Blank("RETRIEVAL_KEY")
  /\ keys' = IF buffer = <<>> THEN keys ELSE Append(keys, buffer)
  /\ buffer' = <<>>
  /\ Advance
  /\ UNCHANGED <<wire, phase, status, command, numbers, no_reply>>

RetrievalWord ==
  /\ Blank("RETRIEVAL_KEY")
  /\ \/ buffer = <<>> /\ prepare_response /\ UNCHANGED <<keys, buffer>>
     \/ /\ buffer # <<>>
        /\ keys' = Append(keys, buffer)
        /\ buffer' = <<>>
        /\ Advance /\ UNCHANGED status
  /\ UNCHANGED <<wire, phase, command, numbers, no_reply>>

(* No branch of process handles a blank after quit. *)
QuitBlank ==
  /\ Blank("QUITTING")
  /\ Advance
  /\ UNCHANGED <<wire, phase, status, command, keys, numbers, no_reply, buffer>>

process == \/ DataByte \/ DataEnd \/ WordByte \/ CommandWord
           \/ KeyWord("DELETE_KEY", "NOREP") \/ KeyWord("STORAGE_KEY", "FLAGS")
           \/ NumberWord("FLAGS", "EXPTIME") \/ NumberWord("EXPTIME", "NBYTES")
           \/ NumberWord("NBYTES", "NOREP")
           \/ NoReplyWord \/ RetrievalWord \/ QuitBlank

-----------------------------------------------------------------------------
(* The client. *)
Idle == wire = <<>> /\ phase = "reading"

Send(m) ==
  /\ phase # "closed"
  /\ Paced => Idle
  /\ Len(wire) + Len(m) <= MaxWire
  /\ Len(keys) <= MaxKeys
  /\ wire' = wire \o m
  /\ UNCHANGED <<chunk, phase, parser>>

(* Mutant: the check of the size forgets what _buffer holds. *)
Read_IgnoresBuffer(n) ==
  /\ phase = "reading"
  /\ n \in 1..MaxChunk /\ n <= Len(wire)
  /\ Len(wire) - n = 0 \/ Len(wire) - n >= KeepTogether
  /\ wire' = SubSeq(wire, n + 1, Len(wire))
  /\ phase' = "parsing"
  /\ IF MaxBytes > 0 /\ n >= MaxBytes THEN Reject
     ELSE chunk' = SubSeq(wire, 1, n) /\ UNCHANGED <<status, response>>
  /\ UNCHANGED <<command, keys, numbers, no_reply, buffer>>

(* A read completes with the first n bytes; process begins with the check   *)
(* of the size.                                                             *)
Read(n) ==
  /\ phase = "reading"
  /\ n \in 1..MaxChunk /\ n <= Len(wire)
  /\ Len(wire) - n = 0 \/ Len(wire) - n >= KeepTogether
  /\ wire' = SubSeq(wire, n + 1, Len(wire))
  /\ phase' = "parsing"
  /\ IF MaxBytes > 0 /\ n + Len(buffer) >= MaxBytes THEN Reject
     ELSE chunk' = SubSeq(wire, 1, n) /\ UNCHANGED <<status, response>>
  /\ UNCHANGED <<command, keys, numbers, no_reply, buffer>>

(* process has returned: the switch of the read handler. *)
Returned == phase = "parsing" /\ chunk = <<>>

(* Mutant: reset forgets _no_reply. *)
reset_KeepsNoReply ==
  /\ status' = "COMMAND" /\ command' = "NONE" /\ keys' = <<>>
  /\ flags' = 0 /\ exp_time' = 0 /\ remaining' = 0
  /\ buffer' = <<>> /\ response' = "none"
  /\ UNCHANGED no_reply

reset == /\ status' = "COMMAND"
         /\ command' = "NONE"
         /\ keys' = <<>>
         /\ flags' = 0 /\ exp_time' = 0 /\ remaining' = 0
         /\ no_reply' = FALSE
         /\ buffer' = <<>>
         /\ response' = "none"

Respond ==
  /\ Returned /\ status = "FINISHED" /\ ~no_reply
  /\ phase' = "writing"
  /\ UNCHANGED <<wire, chunk, parser>>

StaySilent ==
  /\ Returned /\ status = "FINISHED" /\ no_reply
  /\ reset
  /\ phase' = "reading"
  /\ UNCHANGED <<wire, chunk>>

Quit ==
  /\ Returned /\ status = "QUITTING"
  /\ phase' = "closed"
  /\ UNCHANGED <<wire, chunk, parser>>

ReadMore ==
  /\ Returned /\ status \notin {"FINISHED", "QUITTING"}
  /\ phase' = "reading"
  /\ UNCHANGED <<wire, chunk, parser>>

(* The handler of the completed write. *)
Written ==
  /\ phase = "writing"
  /\ reset
  /\ phase' = "reading"
  /\ UNCHANGED <<wire, chunk>>

Server == \/ \E n \in 1..MaxChunk : Read(n)
          \/ process
          \/ Respond \/ StaySilent \/ Quit \/ ReadMore \/ Written

Next == (\E m \in Messages : Send(m)) \/ Server

Spec == Init /\ [][Next]_vars
-----------------------------------------------------------------------------
(* Properties, for whatever bytes the clients send and however they are cut. *)

(* request::reset forgets all of the previous request: a parser that waits   *)
(* for a command word holds nothing that a command could inherit.            *)
NothingLeaks ==
  status = "COMMAND" => /\ keys = <<>>
                        /\ flags = 0 /\ exp_time = 0 /\ remaining = 0
                        /\ ~no_reply
                        /\ response = "none"

(* What prepare_response relies on: _command has been assigned since the     *)
(* constructor left it undefined and is one the switch supports, _keys[0] is *)
(* the only key of a storage command or a delete, no key is empty, and a     *)
(* data block belongs to a storage command.                                  *)
RequestSafe ==
  /\ status = "DATA" => command \in {"SET", "ADD"} /\ Len(keys) = 1
  /\ response = "PREPARED" =>
       /\ command \in {"SET", "ADD", "GET", "GETS", "DELETE", "PING"}
       /\ command \in {"SET", "ADD", "DELETE"} => Len(keys) = 1
  /\ \A i \in 1..Len(keys) : keys[i] # <<>>

(* With a limit, _buffer stays below it however a word or a data block is    *)
(* spread over reads.                                                        *)
BufferBounded == MaxBytes > 0 => Len(buffer) < MaxBytes
=============================================================================
