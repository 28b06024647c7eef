--------------------------- MODULE RequestProofs ---------------------------
(***************************************************************************)
(* Proofs about Request, for every alphabet, every sequence of messages    *)
(* and every way of cutting them into reads.                               *)
(*                                                                         *)
(* StatusFits says what each status of the parser knows about the command  *)
(* and its keys; RequestSafe follows from it step by step.  RoomLeft adds  *)
(* the bytes not yet looked at to those in the buffer, which is what the   *)
(* check at the beginning of process bounds.                               *)
(*                                                                         *)
(* The second half follows a message through the parser: when p bytes have *)
(* been looked at, status, keys, counters and buffer are what the first p  *)
(* bytes of the message say (InLine, InData), and the bytes not looked at  *)
(* are the rest of it (Rest).  No step ends a request before its message   *)
(* ends, so what is carried out is what was asked for.                     *)
(***************************************************************************)
EXTENDS RequestHistory, SequenceTheorems, TLAPS

Storage == {"SET", "ADD"}

StatusFits ==
  /\ status # "FINISHED" => response = "none"
  /\ status \in {"STORAGE_KEY", "DELETE_KEY"} => keys = <<>>
  /\ status \in {"FLAGS", "EXPTIME", "NBYTES", "NOREP", "DATA"} => Len(keys) = 1
  /\ status \in {"STORAGE_KEY", "FLAGS", "EXPTIME", "NBYTES", "DATA"} => command \in Storage
  /\ status = "DELETE_KEY" => command = "DELETE" /\ remaining = 0
  /\ status = "NOREP" => \/ command \in Storage
                         \/ command = "DELETE" /\ remaining = 0
  /\ status = "RETRIEVAL_KEY" => command \in {"GET", "GETS"}

RInv == TypeOK /\ NothingLeaks /\ RequestSafe /\ StatusFits

RoomLeft == /\ phase # "parsing" => chunk = <<>>
            /\ MaxBytes > 0 => Len(buffer) + Len(chunk) < MaxBytes

-----------------------------------------------------------------------------
LEMMA NoBytes == <<>> \in Seq(Bytes) /\ <<>> \in Seq(Seq(Bytes))
  OBVIOUS

LEMMA NoneRemaining == 0 \in 0..(SizeModulus - 1)
  BY RequestAssumptions

LEMMA RInvInit == Init => RInv
<1> SUFFICES ASSUME Init PROVE RInv
  OBVIOUS
<1>1. TypeOK
  <2>1. no_reply \in BOOLEAN /\ command \in CommandTypes
    BY Zenon DEF Init
  <2> QED BY <2>1, NoneRemaining, NoBytes DEF Init, TypeOK, Phases, StatusTypes
<1>2. NothingLeaks /\ RequestSafe /\ StatusFits
  BY DEF Init, NothingLeaks, RequestSafe, StatusFits
<1> QED BY <1>1, <1>2 DEF RInv

(* Appending a word that is not empty keeps the keys well formed. *)
LEMMA AppendKey ==
  ASSUME RInv, buffer # <<>>
  PROVE  /\ Append(keys, buffer) \in Seq(Seq(Bytes))
         /\ Len(Append(keys, buffer)) = Len(keys) + 1
         /\ \A i \in 1..Len(Append(keys, buffer)) : Append(keys, buffer)[i] # <<>>
<1>1. keys \in Seq(Seq(Bytes)) /\ buffer \in Seq(Bytes)
  BY DEF RInv, TypeOK
<1>2. \A i \in 1..Len(keys) : keys[i] # <<>>
  BY DEF RInv, RequestSafe
<1> QED BY <1>1, <1>2

(* The next byte, and what it leaves of the chunk. *)
LEMMA HeadTail ==
  ASSUME RInv, Looking
  PROVE  /\ Head(chunk) \in Bytes /\ Tail(chunk) \in Seq(Bytes)
         /\ Len(Tail(chunk)) = Len(chunk) - 1
         /\ Append(buffer, Head(chunk)) \in Seq(Bytes)
         /\ Len(Append(buffer, Head(chunk))) = Len(buffer) + 1
<1>1. chunk \in Seq(Bytes) /\ chunk # <<>> /\ buffer \in Seq(Bytes)
  BY DEF RInv, TypeOK, Looking
<1> QED BY <1>1

(* The prefix and the rest of a read. *)
LEMMA Cut ==
  ASSUME NEW s \in Seq(Bytes), NEW n \in Nat, n <= Len(s)
  PROVE  /\ SubSeq(s, 1, n) \in Seq(Bytes) /\ Len(SubSeq(s, 1, n)) = n
         /\ SubSeq(s, n + 1, Len(s)) \in Seq(Bytes)
  OBVIOUS

LEMMA RInvStep == RInv /\ [Next]_vars => RInv'
<1> SUFFICES ASSUME RInv, [Next]_vars PROVE RInv'
  OBVIOUS
<1> USE RequestAssumptions
    DEF Blank, Looking, Advance, prepare_response, Reject, Storage, parser, numbers
<1>1. CASE UNCHANGED vars
  BY <1>1 DEF vars, RInv, TypeOK, NothingLeaks, RequestSafe, StatusFits
<1>2. ASSUME NEW m \in Messages, Send(m) PROVE RInv'
  BY <1>2 DEF Send, RInv, TypeOK, NothingLeaks, RequestSafe, StatusFits
<1>3. ASSUME NEW n \in 1..MaxChunk, Read(n) PROVE RInv'
  <2>1. wire' \in Seq(Bytes) /\ chunk' \in Seq(Bytes)
    <3>1. n \in Nat /\ n <= Len(wire) /\ wire \in Seq(Bytes)
      BY <1>3 DEF Read, RInv, TypeOK
    <3>2. chunk' = <<>> \/ chunk' = SubSeq(wire, 1, n)
      BY <1>3 DEF Read
    <3> QED BY <1>3, <3>1, <3>2, Cut, NoBytes DEF Read
  <2>2. phase' \in Phases /\ status' \in StatusTypes
        /\ response' \in {"none", "PREPARED", "CLIENT_ERROR"}
    BY <1>3 DEF Read, RInv, TypeOK, Phases, StatusTypes
  <2>3. TypeOK'
    BY <1>3, <2>1, <2>2 DEF Read, RInv, TypeOK
  <2>4. NothingLeaks' /\ RequestSafe' /\ StatusFits'
    BY <1>3 DEF Read, RInv, NothingLeaks, RequestSafe, StatusFits
  <2> QED BY <2>3, <2>4 DEF RInv
<1>4. CASE DataByte
  <2>1. remaining' \in 0..(SizeModulus - 1)
    BY <1>4 DEF DataByte, RInv, TypeOK
  <2>2. TypeOK'
    BY <1>4, <2>1, HeadTail, NoBytes DEF DataByte, RInv, TypeOK
  <2>3. NothingLeaks' /\ RequestSafe' /\ StatusFits'
    BY <1>4 DEF DataByte, RInv, NothingLeaks, RequestSafe, StatusFits
  <2> QED BY <2>2, <2>3 DEF RInv
<1>5. CASE DataEnd
  BY <1>5 DEF DataEnd, RInv, TypeOK, StatusTypes, NothingLeaks, RequestSafe, StatusFits
<1>6. CASE WordByte
  <2>1. TypeOK'
    BY <1>6, HeadTail, NoBytes DEF WordByte, RInv, TypeOK
  <2>2. NothingLeaks' /\ RequestSafe' /\ StatusFits'
    BY <1>6 DEF WordByte, RInv, NothingLeaks, RequestSafe, StatusFits
  <2> QED BY <2>1, <2>2 DEF RInv
<1>7. CASE CommandWord
  <2>1. command' \in CommandTypes
    BY <1>7 DEF CommandWord, command_from_str, CommandTypes
  <2>2. status' \in StatusTypes
    BY <1>7, <2>1 DEF CommandWord, status_from_command, CommandTypes, StatusTypes
  <2>3. TypeOK'
    BY <1>7, <2>1, <2>2, HeadTail, NoBytes DEF CommandWord, RInv, TypeOK
  <2>4. NothingLeaks' /\ RequestSafe' /\ StatusFits'
    BY <1>7, <2>1
    DEF CommandWord, status_from_command, CommandTypes, RInv, NothingLeaks, RequestSafe,
        StatusFits
  <2> QED BY <2>3, <2>4 DEF RInv
<1>8. CASE KeyWord("DELETE_KEY", "NOREP") \/ KeyWord("STORAGE_KEY", "FLAGS")
  <2>1. TypeOK'
    BY <1>8, HeadTail, AppendKey, NoBytes DEF KeyWord, RInv, TypeOK, StatusTypes
  <2>2. NothingLeaks' /\ RequestSafe' /\ StatusFits'
    <3>1. CASE buffer = <<>>
      BY <1>8, <3>1 DEF KeyWord, RInv, NothingLeaks, RequestSafe, StatusFits
    <3>2. CASE buffer # <<>>
      <4>1. Len(keys') = 1 /\ \A i \in 1..Len(keys') : keys'[i] # <<>>
        <5>1. keys' = Append(keys, buffer) /\ keys = <<>>
          BY <1>8, <3>2 DEF KeyWord, RInv, StatusFits
        <5>2. Len(<<>>) = 0
          OBVIOUS
        <5> QED BY <3>2, <5>1, <5>2, AppendKey
      <4> QED BY <1>8, <3>2, <4>1 DEF KeyWord, RInv, NothingLeaks, RequestSafe, StatusFits
    <3> QED BY <3>1, <3>2
  <2> QED BY <2>1, <2>2 DEF RInv
<1>9. CASE \/ NumberWord("FLAGS", "EXPTIME") \/ NumberWord("EXPTIME", "NBYTES")
           \/ NumberWord("NBYTES", "NOREP")
  <2>1. \A w \in DOMAIN Numbers : Numbers[w] % SizeModulus \in 0..(SizeModulus - 1)
    OBVIOUS
  <2>2. flags' \in Int /\ exp_time' \in Int /\ remaining' \in 0..(SizeModulus - 1)
    BY <1>9, <2>1 DEF NumberWord, RInv, TypeOK
  <2>3. TypeOK'
    BY <1>9, <2>2, HeadTail, NoBytes DEF NumberWord, RInv, TypeOK, StatusTypes
  <2>4. NothingLeaks' /\ RequestSafe' /\ StatusFits'
    BY <1>9 DEF NumberWord, RInv, NothingLeaks, RequestSafe, StatusFits
  <2> QED BY <2>3, <2>4 DEF RInv
<1>10. CASE NoReplyWord
  <2>1. TypeOK'
    BY <1>10, HeadTail, NoBytes DEF NoReplyWord, RInv, TypeOK, StatusTypes
  <2>2. NothingLeaks' /\ RequestSafe' /\ StatusFits'
    BY <1>10 DEF NoReplyWord, RInv, TypeOK, NothingLeaks, RequestSafe, StatusFits
  <2> QED BY <2>1, <2>2 DEF RInv
<1>11. CASE RetrievalWord
  <2>1. TypeOK'
    BY <1>11, HeadTail, AppendKey, NoBytes DEF RetrievalWord, RInv, TypeOK, StatusTypes
  <2>2. NothingLeaks' /\ RequestSafe' /\ StatusFits'
    BY <1>11, AppendKey DEF RetrievalWord, RInv, NothingLeaks, RequestSafe, StatusFits
  <2> QED BY <2>1, <2>2 DEF RInv
<1>12. CASE QuitBlank
  <2>1. TypeOK'
    BY <1>12, HeadTail DEF QuitBlank, RInv, TypeOK
  <2>2. NothingLeaks' /\ RequestSafe' /\ StatusFits'
    BY <1>12 DEF QuitBlank, RInv, NothingLeaks, RequestSafe, StatusFits
  <2> QED BY <2>1, <2>2 DEF RInv
<1>13. CASE Respond \/ Quit \/ ReadMore
  <2>1. phase' \in Phases /\ UNCHANGED <<wire, chunk, parser>>
    BY <1>13 DEF Respond, Quit, ReadMore, Phases
  <2> QED BY <2>1 DEF RInv, TypeOK, NothingLeaks, RequestSafe, StatusFits
<1>14. CASE StaySilent \/ Written
  <2>1. reset /\ phase' = "reading" /\ UNCHANGED <<wire, chunk>>
    BY <1>14 DEF StaySilent, Written
  <2>2. TypeOK'
    <3>1. no_reply' \in BOOLEAN
      BY <2>1, Zenon DEF reset
    <3> QED BY <2>1, <3>1, NoBytes, NoneRemaining
            DEF reset, RInv, TypeOK, Phases, StatusTypes, CommandTypes
  <2>3. NothingLeaks' /\ RequestSafe' /\ StatusFits'
    BY <2>1 DEF reset, NothingLeaks, RequestSafe, StatusFits
  <2> QED BY <2>2, <2>3 DEF RInv
<1> QED
  BY <1>1, <1>2, <1>3, <1>4, <1>5, <1>6, <1>7, <1>8, <1>9, <1>10, <1>11, <1>12, <1>13, <1>14
  DEF Next, Server, process

LEMMA RInvAlways == Spec => []RInv
  BY RInvInit, RInvStep, PTL DEF Spec

(* Whatever arrives, and however it is cut, the parser hands the database   *)
(* only complete requests, and begins each one with nothing of the last.    *)
THEOREM ParserSafe == Spec => [](TypeOK /\ NothingLeaks /\ RequestSafe)
  BY RInvAlways, PTL DEF RInv

(* Between two requests, reset has cleared every member of the request that  *)
(* the next one could see.                                                   *)
THEOREM NothingCarriesOver == Spec => []NothingLeaks
  BY ParserSafe, PTL

-----------------------------------------------------------------------------
(* A step that takes a byte away and adds none to the buffer leaves room. *)
LEMMA RoomKept ==
  ASSUME RInv, RoomLeft, Looking, phase' = phase,
         chunk' = <<>> \/ chunk' = Tail(chunk),
         buffer' = <<>> \/ buffer' = buffer
  PROVE  RoomLeft'
<1>1. MaxBytes \in Nat
  BY RequestAssumptions
<1>2. chunk \in Seq(Bytes) /\ buffer \in Seq(Bytes)
  BY DEF RInv, TypeOK
<1>3. Len(chunk') \in Nat /\ Len(chunk') <= Len(chunk)
  <2>1. CASE chunk' = <<>>
    BY <1>2, <2>1
  <2>2. CASE chunk' = Tail(chunk)
    BY <1>2, <2>2, HeadTail
  <2> QED BY <2>1, <2>2
<1>4. Len(buffer') \in Nat /\ Len(buffer') <= Len(buffer)
  <2>1. CASE buffer' = <<>>
    BY <1>2, <2>1
  <2>2. CASE buffer' = buffer
    BY <1>2, <2>2
  <2> QED BY <2>1, <2>2
<1>5. Len(chunk) \in Nat /\ Len(buffer) \in Nat
  BY <1>2
<1>6. MaxBytes > 0 => Len(buffer') + Len(chunk') < MaxBytes
  BY <1>1, <1>3, <1>4, <1>5 DEF RoomLeft
<1> QED BY <1>6 DEF RoomLeft, Looking

LEMMA RoomStep == RInv /\ RoomLeft /\ [Next]_vars => RoomLeft'
<1> SUFFICES ASSUME RInv, RoomLeft, [Next]_vars PROVE RoomLeft'
  OBVIOUS
<1> USE RequestAssumptions
    DEF RoomLeft, Blank, Looking, Advance, prepare_response, Reject, parser, numbers
<1>1. CASE UNCHANGED vars
  BY <1>1 DEF vars
<1>2. ASSUME NEW m \in Messages, Send(m) PROVE RoomLeft'
  BY <1>2 DEF Send
<1>3. ASSUME NEW n \in 1..MaxChunk, Read(n) PROVE RoomLeft'
  BY <1>3, Cut DEF Read, RInv, TypeOK
<1>4. CASE DataByte \/ WordByte
  <2>1. chunk \in Seq(Bytes) /\ buffer \in Seq(Bytes) /\ chunk # <<>>
    BY <1>4 DEF DataByte, WordByte, RInv, TypeOK
  <2>2. chunk' = Tail(chunk) /\ buffer' = Append(buffer, Head(chunk))
    BY <1>4 DEF DataByte, WordByte
  <2>3. Len(chunk') = Len(chunk) - 1 /\ Len(buffer') = Len(buffer) + 1
    BY <2>1, <2>2, HeadTail
  <2> QED BY <2>1, <2>3, <1>4 DEF DataByte, WordByte
<1>5. CASE DataEnd \/ QuitBlank \/ NoReplyWord
  BY <1>5, RoomKept DEF DataEnd, QuitBlank, NoReplyWord
<1>6. CASE \/ CommandWord \/ KeyWord("DELETE_KEY", "NOREP") \/ KeyWord("STORAGE_KEY", "FLAGS")
           \/ NumberWord("FLAGS", "EXPTIME") \/ NumberWord("EXPTIME", "NBYTES")
           \/ NumberWord("NBYTES", "NOREP") \/ RetrievalWord
  <2>1. /\ Looking /\ phase' = phase
        /\ chunk' = <<>> \/ chunk' = Tail(chunk)
        /\ buffer' = <<>> \/ buffer' = buffer
    BY <1>6 DEF CommandWord, KeyWord, NumberWord, RetrievalWord
  <2> QED BY <2>1, RoomKept
<1>7. CASE Respond \/ Quit \/ ReadMore
  BY <1>7 DEF Respond, Quit, ReadMore, Returned
<1>8. CASE StaySilent \/ Written
  BY <1>8 DEF StaySilent, Written, reset, Returned
<1> QED
  BY <1>1, <1>2, <1>3, <1>4, <1>5, <1>6, <1>7, <1>8 DEF Next, Server, process

(* With a limit on the size of requests, the buffer stays below it.         *)
THEOREM BufferStaysBounded == Spec => []BufferBounded
<1>1. Init => RoomLeft
  BY RequestAssumptions DEF Init, RoomLeft
<1>2. RInv /\ RoomLeft => BufferBounded
  BY RequestAssumptions DEF RInv, TypeOK, RoomLeft, BufferBounded
<1> QED BY <1>1, <1>2, RInvAlways, RoomStep, PTL DEF Spec

-----------------------------------------------------------------------------
(* What the parser holds of a message of which it has looked at p bytes.     *)

(* The status while word i is collected; k + 1 is the empty word after the   *)
(* line.                                                                     *)
StatusFor(c, i) ==
  IF i = 1 THEN "COMMAND"
  ELSE IF c \in {"GET", "GETS"} THEN "RETRIEVAL_KEY"
  ELSE IF c = "QUIT" THEN "QUITTING"
  ELSE IF c = "DELETE" THEN (IF i = 2 THEN "DELETE_KEY" ELSE "NOREP")
  ELSE IF i = 2 THEN "STORAGE_KEY"
  ELSE IF i = 3 THEN "FLAGS"
  ELSE IF i = 4 THEN "EXPTIME"
  ELSE IF i = 5 THEN "NBYTES" ELSE "NOREP"

KeyCount(c, i) == IF i <= 2 THEN 0 ELSE IF c \in {"GET", "GETS"} THEN i - 2 ELSE 1

(* The message asks for silence.                                             *)
Hush(c, k) == (c = "DELETE" /\ k = 3) \/ (c \in {"SET", "ADD"} /\ k = 6)

BufferIs(m, from, p) ==
  Len(buffer) = p - from /\ \A j \in 1..(p - from) : buffer[j] = m[from + j]

Has(m, a, i) ==
  /\ i > 1 => command = CommandOf(m, a)
  /\ Len(keys) = KeyCount(CommandOf(m, a), i)
  /\ \A j \in 1..Len(keys) : keys[j] = Word(m, a, j + 1)
  /\ response = "none"

InLine(m, k, a, p, i) ==
  /\ a[i - 1] <= p /\ (i <= k => p < a[i]) /\ (i = k + 1 => p = a[k])
  /\ BufferIs(m, a[i - 1], p) /\ status = StatusFor(CommandOf(m, a), i) /\ Has(m, a, i)
  /\ (no_reply <=> (i = k + 1 /\ Hush(CommandOf(m, a), k)))
  /\ remaining = IF CommandOf(m, a) \in {"SET", "ADD"} /\ i >= 6 THEN NBytes(m, a) ELSE 0
  /\ CommandOf(m, a) = "PING" => i = 1

InData(m, k, a, p) ==
  /\ CommandOf(m, a) \in {"SET", "ADD"} /\ a[k] + 1 <= p /\ p <= a[k] + 1 + NBytes(m, a)
  /\ BufferIs(m, a[k] + 1, p) /\ status = "DATA" /\ Has(m, a, k + 1)
  /\ (no_reply <=> Hush(CommandOf(m, a), k))
  /\ remaining = NBytes(m, a) - (p - a[k] - 1)

Rest(m, p) ==
  /\ p + Len(chunk) + Len(wire) = Len(m)
  /\ \A j \in 1..Len(chunk) : chunk[j] = m[p + j]
  /\ \A j \in 1..Len(wire) : wire[j] = m[p + Len(chunk) + j]
  /\ Len(wire) = 0 \/ Len(wire) >= 3

Parsing(m, k, a) == \E p \in Nat :
  /\ Rest(m, p)
  /\ (\E i \in 1..(k + 1) : InLine(m, k, a, p, i)) \/ InData(m, k, a, p)

(* The whole message was read and is understood.                             *)
Final(m) ==
  /\ phase = "parsing" /\ chunk = <<>> /\ wire = <<>>
  /\ status \in {"FINISHED", "QUITTING"} /\ Understood = Meaning[m]

Layout(m, k, a) ==
  m \in Messages /\ k \in Nat \ {0} /\ a \in [0..k -> Nat] /\ WellFormed(m, k, a)

-----------------------------------------------------------------------------
LEMMA LayoutFacts ==
  ASSUME NEW m, NEW k, NEW a, Layout(m, k, a)
  PROVE  /\ m \in Seq(Bytes) /\ Len(m) \in Nat /\ k \in Nat /\ k >= 1
         /\ \A i \in 0..k : a[i] \in Nat
         /\ a[0] = 0 /\ a[k] < Len(m) /\ m[a[k] + 1] \in WhiteSpace
         /\ \A i \in 1..k : a[i - 1] + 1 < a[i] /\ a[i] < Len(m) /\ m[a[i]] \in WhiteSpace
         /\ \A i \in 1..k : \A q \in Nat : a[i - 1] < q /\ q < a[i] => m[q] \notin WhiteSpace
<1>1. m \in Seq(Bytes) /\ Len(m) \in Nat /\ k \in Nat /\ k >= 1 /\ a \in [0..k -> Nat]
  BY RequestAssumptions DEF Layout
<1>2. \A i \in 0..k : a[i] \in Nat
  BY <1>1
<1>3. /\ a[0] = 0 /\ m[a[k] + 1] \in WhiteSpace
      /\ \A i \in 1..k : a[i - 1] + 1 < a[i] /\ a[i] < Len(m) /\ m[a[i]] \in WhiteSpace
  BY DEF Layout, WellFormed, Line
<1>4. \A i \in 1..k : \A q \in (a[i - 1] + 1)..(a[i] - 1) : m[q] \notin WhiteSpace
  BY DEF Layout, WellFormed, Line
<1>5. ASSUME NEW i \in 1..k, NEW q \in Nat, a[i - 1] < q, q < a[i]
      PROVE  q \in (a[i - 1] + 1)..(a[i] - 1)
  <2>1. i - 1 \in 0..k /\ i \in 0..k
    BY <1>1
  <2> QED BY <1>2, <1>5, <2>1
<1>6. k \in 1..k
  BY <1>1
<1> QED BY <1>1, <1>2, <1>3, <1>4, <1>5, <1>6

(* What the commands have in common with the shape of their messages.        *)
LEMMA Shapes ==
  ASSUME NEW m, NEW k, NEW a, Layout(m, k, a)
  PROVE  /\ CommandOf(m, a) \in {"PING", "QUIT", "GET", "GETS", "DELETE", "SET", "ADD"}
         /\ CommandOf(m, a) \in {"PING", "QUIT"} => k = 1 /\ Len(m) = a[k] + 1
         /\ CommandOf(m, a) \in {"GET", "GETS"} => k >= 2 /\ Len(m) = a[k] + 1
         /\ CommandOf(m, a) = "DELETE" =>
              /\ k \in {2, 3} /\ Len(m) = a[k] + 1
              /\ k = 3 => Word(m, a, 3) = <<"noreply">>
         /\ CommandOf(m, a) \in {"SET", "ADD"} =>
              /\ k \in {5, 6} /\ Len(m) = a[k] + NBytes(m, a) + 3
              /\ NBytes(m, a) \in 0..(SizeModulus - 1)
              /\ k = 6 => Word(m, a, 6) = <<"noreply">>
              /\ Word(m, a, 3) \in DOMAIN Numbers
              /\ Word(m, a, 4) \in DOMAIN Numbers
              /\ Word(m, a, 5) \in DOMAIN Numbers
<1>0. PICK c : c = CommandOf(m, a)
  OBVIOUS
<1>1. Single(m, k, a) \/ Retrieval(m, k, a) \/ Deletion(m, k, a) \/ Storing(m, k, a)
  BY DEF Layout, WellFormed
<1>2. CASE Single(m, k, a)
  BY <1>0, <1>2 DEF Single
<1>3. CASE Retrieval(m, k, a)
  BY <1>0, <1>3 DEF Retrieval
<1>4. CASE Deletion(m, k, a)
  <2>1. /\ c = "DELETE" /\ k \in {2, 3} /\ Len(m) = a[k] + 1
        /\ k = 3 => Word(m, a, 3) = <<"noreply">>
    <3>1. /\ c = "DELETE" /\ Len(m) = a[k] + 1
          /\ k = 2 \/ (k = 3 /\ Word(m, a, 3) = <<"noreply">>)
      BY <1>0, <1>4, Zenon DEF Deletion
    <3> QED BY <3>1
  <2> QED BY <1>0, <2>1
<1>5. CASE Storing(m, k, a)
  <2>1. /\ c \in {"SET", "ADD"} /\ k \in {5, 6} /\ Len(m) = a[k] + NBytes(m, a) + 3
        /\ NBytes(m, a) \in 0..(SizeModulus - 1)
        /\ k = 6 => Word(m, a, 6) = <<"noreply">>
        /\ {Word(m, a, 3), Word(m, a, 4), Word(m, a, 5)} \subseteq DOMAIN Numbers
    <3>1. /\ c \in {"SET", "ADD"} /\ Len(m) = a[k] + NBytes(m, a) + 3
          /\ NBytes(m, a) \in 0..(SizeModulus - 1)
          /\ {Word(m, a, 3), Word(m, a, 4), Word(m, a, 5)} \subseteq DOMAIN Numbers
      BY <1>0, <1>5, Zenon DEF Storing
    <3>2. k = 5 \/ (k = 6 /\ Word(m, a, 6) = <<"noreply">>)
      BY <1>5, Zenon DEF Storing
    <3> QED BY <3>1, <3>2
  <2> QED BY <1>0, <2>1
<1> QED BY <1>1, <1>2, <1>3, <1>4, <1>5

(* The next byte of the message.                                             *)
LEMMA NextByte ==
  ASSUME RInv, Looking, NEW m, NEW p \in Nat, Len(m) \in Nat, Rest(m, p)
  PROVE  /\ Head(chunk) = m[p + 1] /\ p + 1 <= Len(m)
         /\ (wire' = wire /\ chunk' = Tail(chunk)) => Rest(m, p + 1)'
<1>1. chunk \in Seq(Bytes) /\ chunk # <<>> /\ wire \in Seq(Bytes)
  BY DEF RInv, TypeOK, Looking
<1>2. /\ Len(chunk) \in Nat /\ Len(chunk) >= 1 /\ Head(chunk) = chunk[1] /\ Len(wire) \in Nat
      /\ Len(Tail(chunk)) = Len(chunk) - 1
      /\ \A j \in 1..(Len(chunk) - 1) : Tail(chunk)[j] = chunk[j + 1]
  BY <1>1
<1>3. Head(chunk) = m[p + 1] /\ p + 1 <= Len(m)
  BY <1>2 DEF Rest
<1>4. ASSUME wire' = wire, chunk' = Tail(chunk) PROVE Rest(m, p + 1)'
  <2>0. p + Len(chunk) + Len(wire) = Len(m)
    BY DEF Rest
  <2>9. Len(chunk') = Len(chunk) - 1 /\ Len(wire') = Len(wire)
    BY <1>2, <1>4
  <2>1. p + 1 + Len(chunk') + Len(wire') = Len(m)
    BY <1>2, <2>9, <2>0
  <2>2. \A j \in 1..Len(chunk') : chunk'[j] = m[p + 1 + j]
    <3> TAKE j \in 1..Len(chunk')
    <3>1. j + 1 \in 1..Len(chunk) /\ chunk'[j] = chunk[j + 1]
      BY <1>2, <1>4
    <3>2. chunk[j + 1] = m[p + (j + 1)]
      BY <3>1 DEF Rest
    <3>3. p + (j + 1) = p + 1 + j
      BY <1>2, <1>4
    <3> QED BY <3>1, <3>2, <3>3
  <2>3. \A j \in 1..Len(wire') : wire'[j] = m[p + 1 + Len(chunk') + j]
    <3>1. p + 1 + Len(chunk') = p + Len(chunk)
      BY <1>2, <2>9
    <3>2. \A j \in 1..Len(wire) : wire[j] = m[p + Len(chunk) + j]
      BY DEF Rest
    <3> QED BY <1>4, <3>1, <3>2
  <2> QED BY <1>4, <2>1, <2>2, <2>3 DEF Rest
<1> QED BY <1>3, <1>4

(* What the buffer has collected is a piece of the message.                  *)
LEMMA Slice ==
  ASSUME RInv, NEW m \in Seq(Bytes), NEW from \in Nat, NEW p \in Nat,
         from <= p, p <= Len(m), BufferIs(m, from, p)
  PROVE  buffer = SubSeq(m, from + 1, p)
<1>1. buffer \in Seq(Bytes) /\ Len(m) \in Nat
  BY DEF RInv, TypeOK
<1>2. \A j \in (from + 1)..p : m[j] \in Bytes
  BY <1>1
<1>3. /\ SubSeq(m, from + 1, p) \in Seq(Bytes)
      /\ Len(SubSeq(m, from + 1, p)) = p - from
      /\ \A j \in 1..(p - from) : SubSeq(m, from + 1, p)[j] = m[from + j]
  <2>1. from + 1 \in Int /\ p \in Int /\ p - (from + 1) + 1 = p - from
    OBVIOUS
  <2>2. /\ SubSeq(m, from + 1, p) \in Seq(Bytes)
        /\ Len(SubSeq(m, from + 1, p)) = IF from + 1 <= p THEN p - (from + 1) + 1 ELSE 0
        /\ \A j \in 1..(p - (from + 1) + 1) : SubSeq(m, from + 1, p)[j] = m[from + 1 + j - 1]
    BY <1>2, <2>1, SubSeqProperties
  <2>3. ASSUME NEW j \in 1..(p - from) PROVE from + 1 + j - 1 = from + j
    OBVIOUS
  <2> QED BY <2>1, <2>2, <2>3
<1>4. Len(buffer) = Len(SubSeq(m, from + 1, p))
  BY <1>3 DEF BufferIs
<1>5. \A j \in 1..Len(buffer) : buffer[j] = SubSeq(m, from + 1, p)[j]
  BY <1>3 DEF BufferIs
<1> QED BY <1>1, <1>3, <1>4, <1>5, SeqEqual

(* An empty buffer and a buffer that takes one byte more.                    *)
LEMMA Grows ==
  ASSUME RInv, Looking, NEW m, NEW from \in Nat, NEW p \in Nat, from <= p,
         BufferIs(m, from, p), Head(chunk) = m[p + 1], buffer' = Append(buffer, Head(chunk))
  PROVE  BufferIs(m, from, p + 1)'
<1>1. buffer \in Seq(Bytes) /\ Head(chunk) \in Bytes
  BY HeadTail DEF RInv, TypeOK
<1>2. Len(buffer) = p - from /\ \A j \in 1..(p - from) : buffer[j] = m[from + j]
  BY DEF BufferIs
<1>3. /\ Len(buffer') = Len(buffer) + 1
      /\ \A j \in 1..Len(buffer) : buffer'[j] = buffer[j]
      /\ buffer'[Len(buffer) + 1] = Head(chunk)
  BY <1>1, AppendProperties
<1>4. Len(buffer') = p + 1 - from /\ Len(buffer) + 1 = p + 1 - from /\ from + (p + 1 - from) = p + 1
  BY <1>2, <1>3
<1>5. ASSUME NEW j \in 1..(p + 1 - from) PROVE buffer'[j] = m[from + j]
  <2>1. CASE j = p + 1 - from
    BY <1>3, <1>4, <2>1
  <2>2. CASE j # p + 1 - from
    <3>1. j \in 1..(p - from)
      BY <2>2
    <3> QED BY <1>2, <1>3, <3>1
  <2> QED BY <2>1, <2>2
<1> QED BY <1>4, <1>5 DEF BufferIs

LEMMA Empties ==
  ASSUME NEW m, NEW p \in Nat
  PROVE  /\ buffer = <<>> => BufferIs(m, p, p)
         /\ RInv /\ BufferIs(m, p, p) => buffer = <<>>
<1>1. p - p = 0 /\ 1..(p - p) = {}
  OBVIOUS
<1>2. Len(<<>>) = 0
  OBVIOUS
<1>3. buffer = <<>> => BufferIs(m, p, p)
  BY <1>1, <1>2 DEF BufferIs
<1>4. RInv /\ BufferIs(m, p, p) => buffer = <<>>
  BY <1>1 DEF BufferIs, RInv, TypeOK
<1> QED BY <1>3, <1>4

(* The word is complete when the blank after it comes.                       *)
LEMMA WordComplete ==
  ASSUME RInv, NEW m, NEW k, NEW a, Layout(m, k, a), NEW i \in 1..k, NEW p \in Nat,
         p + 1 = a[i], BufferIs(m, a[i - 1], p)
  PROVE  buffer = Word(m, a, i) /\ buffer # <<>>
<1>1. i - 1 \in 0..k /\ i \in 0..k
  BY LayoutFacts
<1>2. /\ m \in Seq(Bytes) /\ a[i - 1] \in Nat /\ a[i] \in Nat
      /\ a[i - 1] <= p /\ p <= Len(m) /\ p = a[i] - 1 /\ p - a[i - 1] >= 1
  <2>1. m \in Seq(Bytes) /\ Len(m) \in Nat /\ a[i - 1] \in Nat /\ a[i] \in Nat
    BY <1>1, LayoutFacts
  <2>2. a[i - 1] + 1 < a[i] /\ a[i] < Len(m)
    BY LayoutFacts
  <2> QED BY <2>1, <2>2
<1>3. buffer = SubSeq(m, a[i - 1] + 1, p)
  BY <1>2, Slice
<1>4. buffer # <<>>
  BY <1>2 DEF BufferIs
<1> QED BY <1>2, <1>3, <1>4 DEF Word

-----------------------------------------------------------------------------
(* One branch of process for each kind of byte.                              *)
LEMMA ByteAction ==
  ASSUME process
  PROVE  /\ Looking /\ wire' = wire /\ phase' = phase
         /\ status = "DATA" => DataByte \/ DataEnd
         /\ status # "DATA" /\ Head(chunk) \notin WhiteSpace => WordByte
<1>1. Looking
  BY DEF process, DataByte, DataEnd, WordByte, CommandWord, KeyWord, NumberWord,
         NoReplyWord, RetrievalWord, QuitBlank, Blank
<1>2. wire' = wire /\ phase' = phase
  BY DEF process, DataByte, DataEnd, WordByte, CommandWord, KeyWord, NumberWord,
         NoReplyWord, RetrievalWord, QuitBlank
<1>3. status = "DATA" => DataByte \/ DataEnd
  BY DEF process, DataByte, DataEnd, WordByte, CommandWord, KeyWord, NumberWord,
         NoReplyWord, RetrievalWord, QuitBlank, Blank
<1>4. status # "DATA" /\ Head(chunk) \notin WhiteSpace => WordByte
  BY DEF process, DataByte, DataEnd, WordByte, CommandWord, KeyWord, NumberWord,
         NoReplyWord, RetrievalWord, QuitBlank, Blank
<1> QED BY <1>1, <1>2, <1>3, <1>4

LEMMA BlankAction ==
  ASSUME process, status # "DATA", Head(chunk) \in WhiteSpace
  PROVE  /\ status = "COMMAND" => CommandWord
         /\ status = "DELETE_KEY" => KeyWord("DELETE_KEY", "NOREP")
         /\ status = "STORAGE_KEY" => KeyWord("STORAGE_KEY", "FLAGS")
         /\ status = "FLAGS" => NumberWord("FLAGS", "EXPTIME")
         /\ status = "EXPTIME" => NumberWord("EXPTIME", "NBYTES")
         /\ status = "NBYTES" => NumberWord("NBYTES", "NOREP")
         /\ status = "NOREP" => NoReplyWord
         /\ status = "RETRIEVAL_KEY" => RetrievalWord
         /\ status = "QUITTING" => QuitBlank
<1>1. ~DataByte /\ ~DataEnd /\ ~WordByte
  BY DEF DataByte, DataEnd, WordByte
<1>2. \/ CommandWord /\ status = "COMMAND"
      \/ KeyWord("DELETE_KEY", "NOREP") /\ status = "DELETE_KEY"
      \/ KeyWord("STORAGE_KEY", "FLAGS") /\ status = "STORAGE_KEY"
      \/ NumberWord("FLAGS", "EXPTIME") /\ status = "FLAGS"
      \/ NumberWord("EXPTIME", "NBYTES") /\ status = "EXPTIME"
      \/ NumberWord("NBYTES", "NOREP") /\ status = "NBYTES"
      \/ NoReplyWord /\ status = "NOREP"
      \/ RetrievalWord /\ status = "RETRIEVAL_KEY"
      \/ QuitBlank /\ status = "QUITTING"
  <2>1. /\ CommandWord => status = "COMMAND"
        /\ KeyWord("DELETE_KEY", "NOREP") => status = "DELETE_KEY"
        /\ KeyWord("STORAGE_KEY", "FLAGS") => status = "STORAGE_KEY"
        /\ NumberWord("FLAGS", "EXPTIME") => status = "FLAGS"
        /\ NumberWord("EXPTIME", "NBYTES") => status = "EXPTIME"
        /\ NumberWord("NBYTES", "NOREP") => status = "NBYTES"
        /\ NoReplyWord => status = "NOREP"
        /\ RetrievalWord => status = "RETRIEVAL_KEY"
        /\ QuitBlank => status = "QUITTING"
    BY Zenon DEF CommandWord, KeyWord, NumberWord, NoReplyWord, RetrievalWord, QuitBlank, Blank
  <2> QED BY <1>1, <2>1, Zenon DEF process
<1> QED BY <1>2

(* A byte of word i.                                                         *)
LEMMA WordGoesOn ==
  ASSUME RInv, process, NEW m, NEW k, NEW a, Layout(m, k, a), NEW p \in Nat, Rest(m, p),
         NEW i \in 1..k, InLine(m, k, a, p, i), p + 1 < a[i]
  PROVE  Rest(m, p + 1)' /\ InLine(m, k, a, p + 1, i)'
<1>1. /\ m \in Seq(Bytes) /\ Len(m) \in Nat /\ k \in Nat /\ k >= 1
      /\ a[i - 1] \in Nat /\ a[i] \in Nat /\ a[i - 1] + 1 < a[i] /\ a[i] < Len(m)
  <2>1. i - 1 \in 0..k /\ i \in 0..k
    BY LayoutFacts
  <2> QED BY <2>1, LayoutFacts
<1>2. /\ Looking /\ wire' = wire /\ Head(chunk) = m[p + 1]
      /\ chunk' = Tail(chunk) => Rest(m, p + 1)'
  BY <1>1, ByteAction, NextByte
<1>3. a[i - 1] <= p /\ BufferIs(m, a[i - 1], p)
  BY DEF InLine
<1>4. Head(chunk) \notin WhiteSpace
  <2>1. p + 1 \in Nat /\ a[i - 1] < p + 1 /\ p + 1 < a[i]
    BY <1>1, <1>3
  <2> QED BY <1>2, <2>1, LayoutFacts
<1>5. status # "DATA"
  BY DEF InLine, StatusFor
<1>6. WordByte
  BY <1>4, <1>5, ByteAction
<1>7. /\ buffer' = Append(buffer, Head(chunk)) /\ chunk' = Tail(chunk)
      /\ status' = status /\ command' = command /\ keys' = keys
      /\ remaining' = remaining /\ no_reply' = no_reply /\ response' = response
  BY <1>6 DEF WordByte, Advance, numbers
<1>8. BufferIs(m, a[i - 1], p + 1)'
  BY <1>1, <1>2, <1>3, <1>7, Grows
<1>9. a[i - 1] <= p + 1 /\ i # k + 1
  BY <1>1, <1>3
<1>10. Has(m, a, i)'
  BY <1>7 DEF InLine, Has
<1>11. /\ (no_reply <=> (i = k + 1 /\ Hush(CommandOf(m, a), k)))'
       /\ (remaining = IF CommandOf(m, a) \in {"SET", "ADD"} /\ i >= 6 THEN NBytes(m, a) ELSE 0)'
  BY <1>7 DEF InLine
<1> QED BY <1>2, <1>7, <1>8, <1>9, <1>10, <1>11 DEF InLine

(* The blank after word i: what is left to show of the branch that handles   *)
(* it.                                                                       *)
LEMMA NextWord ==
  ASSUME RInv, process, NEW m, NEW k, NEW a, Layout(m, k, a), NEW p \in Nat, Rest(m, p),
         NEW i \in 1..k, p + 1 = a[i], CommandOf(m, a) # "PING",
         chunk' = Tail(chunk), buffer' = <<>>, status' = StatusFor(CommandOf(m, a), i + 1),
         Has(m, a, i + 1)', no_reply' <=> (i = k /\ Hush(CommandOf(m, a), k)),
         remaining' = IF CommandOf(m, a) \in {"SET", "ADD"} /\ i >= 5 THEN NBytes(m, a) ELSE 0
  PROVE  Rest(m, p + 1)' /\ InLine(m, k, a, p + 1, i + 1)'
<1>1. k \in Nat /\ i \in Nat /\ i <= k /\ a[i] \in Nat /\ Len(m) \in Nat
  <2>1. i \in 0..k /\ k \in Nat
    BY LayoutFacts
  <2> QED BY <2>1, LayoutFacts
<1>2. Rest(m, p + 1)'
  BY <1>1, ByteAction, NextByte
<1>3. /\ i + 1 - 1 = i /\ (i + 1 = k + 1 <=> i = k) /\ (i + 1 >= 6 <=> i >= 5)
      /\ (i + 1 <= k => i + 1 \in 1..k)
  BY <1>1
<1>4. i + 1 <= k => p + 1 < a[i + 1]
  <2> SUFFICES ASSUME i + 1 <= k PROVE p + 1 < a[i + 1]
    OBVIOUS
  <2>1. i + 1 \in 1..k /\ i + 1 \in 0..k
    BY <1>1, <1>3
  <2>2. a[i + 1] \in Nat /\ a[i] + 1 < a[i + 1]
    BY <1>3, <2>1, LayoutFacts
  <2> QED BY <1>1, <2>2
<1>5. BufferIs(m, p + 1, p + 1)'
  <2>1. p + 1 \in Nat
    OBVIOUS
  <2>2. /\ p + 1 - (p + 1) = 0 /\ 1..(p + 1 - (p + 1)) = {} /\ Len(buffer') = 0
    OBVIOUS
  <2> QED BY <2>2 DEF BufferIs
<1>6. a[i + 1 - 1] = p + 1 /\ a[i + 1 - 1] <= p + 1 /\ (i + 1 = k + 1 => p + 1 = a[k])
  BY <1>1, <1>3
<1>7. (no_reply <=> (i + 1 = k + 1 /\ Hush(CommandOf(m, a), k)))'
  BY <1>3, Zenon
<1>8. (remaining = IF CommandOf(m, a) \in {"SET", "ADD"} /\ i + 1 >= 6 THEN NBytes(m, a) ELSE 0)'
  BY <1>3
<1> QED BY <1>2, <1>4, <1>5, <1>6, <1>7, <1>8 DEF InLine

LEMMA KeysKept ==
  ASSUME NEW m, NEW a, NEW i \in Nat, Has(m, a, i), keys' = keys, response' = response,
         command' = CommandOf(m, a),
         KeyCount(CommandOf(m, a), i + 1) = KeyCount(CommandOf(m, a), i)
  PROVE  Has(m, a, i + 1)'
  BY DEF Has

LEMMA KeyAdded ==
  ASSUME RInv, NEW m, NEW a, NEW i \in Nat, Has(m, a, i), i >= 2, Len(keys) = i - 2,
         buffer = Word(m, a, i), keys' = Append(keys, buffer), response' = response,
         command' = command, KeyCount(CommandOf(m, a), i + 1) = i - 1
  PROVE  Has(m, a, i + 1)'
<1>1. keys \in Seq(Seq(Bytes)) /\ buffer \in Seq(Bytes)
  BY DEF RInv, TypeOK
<1>2. /\ Len(keys') = Len(keys) + 1
      /\ \A j \in 1..Len(keys) : keys'[j] = keys[j]
      /\ keys'[Len(keys) + 1] = buffer
  BY <1>1, AppendProperties
<1>3. command' = CommandOf(m, a) /\ response' = "none"
  BY DEF Has
<1>4. Len(keys') = i - 1
  BY <1>2
<1>5. ASSUME NEW j \in 1..Len(keys') PROVE keys'[j] = Word(m, a, j + 1)
  <2>1. CASE j = Len(keys')
    <3>1. j = i - 1 /\ j = Len(keys) + 1 /\ j + 1 = i
      BY <1>4, <2>1
    <3> QED BY <1>2, <3>1
  <2>2. CASE j # Len(keys')
    <3>1. j \in 1..Len(keys)
      BY <1>4, <2>2
    <3> QED BY <1>2, <3>1 DEF Has
  <2> QED BY <2>1, <2>2
<1> QED BY <1>3, <1>4, <1>5 DEF Has

LEMMA AtTheBlank ==
  ASSUME RInv, process, NEW m, NEW k, NEW a, Layout(m, k, a), NEW p \in Nat, Rest(m, p),
         NEW i \in 1..k, InLine(m, k, a, p, i), p + 1 = a[i]
  PROVE  /\ Head(chunk) \in WhiteSpace /\ status # "DATA"
         /\ buffer = Word(m, a, i) /\ buffer # <<>>
<1>1. Len(m) \in Nat /\ m[a[i]] \in WhiteSpace
  BY LayoutFacts
<1>2. Head(chunk) = m[p + 1]
  BY <1>1, ByteAction, NextByte
<1>3. status # "DATA" /\ BufferIs(m, a[i - 1], p)
  BY DEF InLine, StatusFor
<1> QED BY <1>1, <1>2, <1>3, WordComplete

(* Nothing of the message is under way when process drops the chunk near its *)
(* end.                                                                      *)
LEMMA NothingLeft ==
  ASSUME RInv, Looking, NEW m, NEW p \in Nat, Rest(m, p), Len(m) \in Nat, Len(m) <= p + 3
  PROVE  wire = <<>> /\ (Len(m) = p + 1 => Tail(chunk) = <<>>)
<1>1. chunk \in Seq(Bytes) /\ chunk # <<>> /\ wire \in Seq(Bytes)
  BY DEF RInv, TypeOK, Looking
<1>2. Len(chunk) \in Nat /\ Len(chunk) >= 1 /\ Len(wire) \in Nat
  BY <1>1
<1>3. Len(wire) = 0
  <2>1. p + Len(chunk) + Len(wire) = Len(m) /\ (Len(wire) = 0 \/ Len(wire) >= 3)
    BY DEF Rest
  <2> QED BY <1>2, <2>1
<1>4. ASSUME Len(m) = p + 1 PROVE Tail(chunk) = <<>>
  <2>0. PICK t : t = Tail(chunk)
    OBVIOUS
  <2>1. p + Len(chunk) + 0 = p + 1
    BY <1>3, <1>4 DEF Rest
  <2>2. Len(chunk) = 1
    BY <1>2, <2>1
  <2>3. t \in Seq(Bytes) /\ Len(t) = 0
    BY <1>1, <2>0, <2>2, HeadTail
  <2>4. t = <<>>
    BY <2>3
  <2> QED BY <2>0, <2>4
<1> QED BY <1>1, <1>3, <1>4

(* The end of the command word.                                              *)
LEMMA CommandEnds ==
  ASSUME RInv, process, NEW m, NEW k, NEW a, Layout(m, k, a), NEW p \in Nat, Rest(m, p),
         InLine(m, k, a, p, 1), p + 1 = a[1]
  PROVE  Final(m)' \/ (Rest(m, p + 1)' /\ InLine(m, k, a, p + 1, 2)')
<1>0. k \in Nat /\ k >= 1 /\ 1 \in 1..k /\ Len(m) \in Nat
  BY LayoutFacts
<1>1. /\ Head(chunk) \in WhiteSpace /\ status # "DATA" /\ buffer = Word(m, a, 1)
      /\ status = "COMMAND" /\ Has(m, a, 1) /\ remaining = 0
  BY <1>0, AtTheBlank DEF InLine, StatusFor
<1>2. CommandWord /\ Looking
  BY <1>1, BlankAction, ByteAction
<1>3. PICK c : c = CommandOf(m, a)
  OBVIOUS
<1>4. /\ command' = c /\ buffer' = <<>> /\ keys' = keys /\ remaining' = remaining
      /\ no_reply' = no_reply /\ wire' = wire /\ phase' = "parsing"
      /\ \/ command' = "NONE"
         \/ command' = "PING" /\ prepare_response
         \/ command' \notin {"NONE", "PING"} /\ status' = status_from_command(command') /\ Advance
  BY <1>1, <1>2, <1>3 DEF CommandWord, CommandOf, numbers, Looking
<1>5. c \in {"PING", "QUIT", "GET", "GETS", "DELETE", "SET", "ADD"}
  BY <1>3, Shapes
<1>6. ~no_reply
  <2>1. ~(1 = k + 1)
    BY <1>0
  <2> QED BY <2>1 DEF InLine
<1>7. ~(1 = k /\ Hush(c, k))
  BY <1>0 DEF Hush
<1>8. CASE c = "PING"
  <2>1. /\ status' = "FINISHED" /\ response' = "PREPARED" /\ chunk' = <<>>
    BY <1>4, <1>8 DEF prepare_response
  <2>2. Len(m) = a[k] + 1 /\ k = 1
    <3>1. CommandOf(m, a) \in {"PING", "QUIT"}
      BY <1>3, <1>8
    <3> QED BY <3>1, Shapes, Zenon
  <2>3. wire' = <<>>
    <3>1. Len(m) <= p + 3
      BY <1>0, <2>2
    <3> QED BY <1>0, <1>2, <1>4, <3>1, NothingLeft
  <2>4. keys' = <<>>
    <3>1. keys \in Seq(Seq(Bytes)) /\ Len(keys) = 0
      BY <1>1 DEF RInv, TypeOK, Has, KeyCount
    <3> QED BY <1>4, <3>1
  <2>5. Understood' = Asked("PING", <<>>, <<>>, FALSE)
    <3>1. no_reply' = FALSE
      <4>1. no_reply \in BOOLEAN
        BY DEF RInv, TypeOK
      <4> QED BY <1>4, <1>6, <4>1
    <3> QED BY <1>4, <1>8, <2>1, <2>4, <3>1 DEF Understood
  <2>6. Meaning[m] = Asked("PING", <<>>, <<>>, FALSE)
    <3>1. Single(m, k, a) \/ Retrieval(m, k, a) \/ Deletion(m, k, a) \/ Storing(m, k, a)
      BY DEF Layout, WellFormed
    <3>2. Single(m, k, a)
      BY <1>3, <1>8, <3>1, Zenon DEF Retrieval, Deletion, Storing
    <3> QED BY <1>3, <1>8, <3>2, Zenon DEF Single
  <2> QED BY <1>4, <2>1, <2>3, <2>5, <2>6 DEF Final
<1>9. CASE c # "PING"
  <2>1. status' = status_from_command(c) /\ chunk' = Tail(chunk) /\ response' = response
    BY <1>4, <1>5, <1>9 DEF Advance
  <2>2. status' = StatusFor(c, 2)
    BY <1>5, <1>9, <2>1 DEF status_from_command, StatusFor
  <2>3. Has(m, a, 2)'
    <3>1. KeyCount(c, 1 + 1) = KeyCount(c, 1) /\ 1 + 1 = 2
      BY DEF KeyCount
    <3> QED BY <1>1, <1>3, <1>4, <2>1, <3>1, KeysKept
  <2>4. no_reply' <=> (1 = k /\ Hush(c, k))
    BY <1>4, <1>6, <1>7, Zenon
  <2>5. remaining' = IF c \in {"SET", "ADD"} /\ 1 >= 5 THEN NBytes(m, a) ELSE 0
    BY <1>1, <1>4
  <2>6. 1 + 1 = 2
    OBVIOUS
  <2> QED BY <1>0, <1>3, <1>4, <1>9, <2>1, <2>2, <2>3, <2>4, <2>5, <2>6, NextWord
<1> QED BY <1>8, <1>9

(* A size_t holds these numbers as they are.                                 *)
LEMMA SmallModulo == \A x \in 0..(SizeModulus - 1) : x % SizeModulus = x
  BY RequestAssumptions

(* The end of another word.                                                  *)
LEMMA WordEnds ==
  ASSUME RInv, process, NEW m, NEW k, NEW a, Layout(m, k, a), NEW p \in Nat, Rest(m, p),
         NEW i \in 1..k, InLine(m, k, a, p, i), p + 1 = a[i], i # 1
  PROVE  Rest(m, p + 1)' /\ InLine(m, k, a, p + 1, i + 1)'
<1>0. k \in Nat /\ i \in Nat /\ i >= 2 /\ i <= k /\ Len(m) \in Nat
  BY LayoutFacts
<1>1. /\ Head(chunk) \in WhiteSpace /\ status # "DATA" /\ buffer = Word(m, a, i) /\ buffer # <<>>
  BY AtTheBlank
<1>2. PICK c : c = CommandOf(m, a)
  OBVIOUS
<1>3. /\ command = c /\ status = StatusFor(c, i) /\ Has(m, a, i) /\ Len(keys) = KeyCount(c, i)
      /\ response = "none" /\ c # "PING"
      /\ remaining = IF c \in {"SET", "ADD"} /\ i >= 6 THEN NBytes(m, a) ELSE 0
  BY <1>0, <1>2 DEF InLine, Has
<1>4. ~no_reply
  <2>1. ~(i = k + 1)
    BY <1>0
  <2> QED BY <2>1 DEF InLine
<1>5. \/ c \in {"GET", "GETS"}
      \/ c = "DELETE" /\ k \in {2, 3} /\ (k = 3 => Word(m, a, 3) = <<"noreply">>)
      \/ c \in {"SET", "ADD"} /\ k \in {5, 6} /\ (k = 6 => Word(m, a, 6) = <<"noreply">>)
  <2>1. c \in {"QUIT", "GET", "GETS", "DELETE", "SET", "ADD"}
    BY <1>2, <1>3, Shapes
  <2>2. c # "QUIT"
    <3>1. c = "QUIT" => CommandOf(m, a) \in {"PING", "QUIT"}
      BY <1>2
    <3>2. c = "QUIT" => k = 1
      BY <3>1, Shapes, Zenon
    <3> QED BY <1>0, <3>2
  <2>3. c = "DELETE" => k \in {2, 3} /\ (k = 3 => Word(m, a, 3) = <<"noreply">>)
    BY <1>2, Shapes, Zenon
  <2>4. c \in {"SET", "ADD"} => k \in {5, 6} /\ (k = 6 => Word(m, a, 6) = <<"noreply">>)
    BY <1>2, Shapes, Zenon
  <2> QED BY <2>1, <2>2, <2>3, <2>4
<1>6. CASE c \in {"GET", "GETS"}
  <2>1. status = "RETRIEVAL_KEY" /\ StatusFor(c, i + 1) = "RETRIEVAL_KEY"
    BY <1>0, <1>3, <1>6 DEF StatusFor
  <2>2. RetrievalWord
    BY <1>1, <2>1, BlankAction
  <2>3. /\ keys' = Append(keys, buffer) /\ buffer' = <<>> /\ chunk' = Tail(chunk)
        /\ response' = response /\ status' = status /\ command' = command
        /\ remaining' = remaining /\ no_reply' = no_reply
    BY <1>1, <2>2 DEF RetrievalWord, Advance, numbers
  <2>4. Len(keys) = i - 2 /\ KeyCount(c, i + 1) = i - 1
    BY <1>0, <1>3, <1>6 DEF KeyCount
  <2>5. Has(m, a, i + 1)'
    BY <1>0, <1>1, <1>2, <1>3, <2>3, <2>4, KeyAdded
  <2>6. no_reply' <=> (i = k /\ Hush(c, k))
    BY <1>4, <1>6, <2>3 DEF Hush
  <2>7. remaining' = IF c \in {"SET", "ADD"} /\ i >= 5 THEN NBytes(m, a) ELSE 0
    BY <1>3, <1>6, <2>3
  <2> QED BY <1>2, <1>3, <2>1, <2>3, <2>5, <2>6, <2>7, NextWord
<1>7. CASE c = "DELETE" /\ i = 2
  <2>1. status = "DELETE_KEY" /\ StatusFor(c, i + 1) = "NOREP"
    BY <1>0, <1>3, <1>7 DEF StatusFor
  <2>2. KeyWord("DELETE_KEY", "NOREP")
    BY <1>1, <2>1, BlankAction
  <2>3. /\ keys' = Append(keys, buffer) /\ buffer' = <<>> /\ chunk' = Tail(chunk)
        /\ response' = response /\ status' = "NOREP" /\ command' = command
        /\ remaining' = remaining /\ no_reply' = no_reply
    BY <1>1, <2>2 DEF KeyWord, Advance, numbers
  <2>4. Len(keys) = i - 2 /\ KeyCount(c, i + 1) = i - 1
    BY <1>0, <1>3, <1>7 DEF KeyCount
  <2>5. Has(m, a, i + 1)'
    BY <1>0, <1>1, <1>2, <1>3, <2>3, <2>4, KeyAdded
  <2>6. no_reply' <=> (i = k /\ Hush(c, k))
    BY <1>4, <1>7, <2>3 DEF Hush
  <2>7. remaining' = IF c \in {"SET", "ADD"} /\ i >= 5 THEN NBytes(m, a) ELSE 0
    BY <1>3, <1>7, <2>3
  <2> QED BY <1>2, <1>3, <2>1, <2>3, <2>5, <2>6, <2>7, NextWord
<1>8. CASE c \in {"SET", "ADD"} /\ i = 2
  <2>1. status = "STORAGE_KEY" /\ StatusFor(c, i + 1) = "FLAGS"
    BY <1>0, <1>3, <1>8 DEF StatusFor
  <2>2. KeyWord("STORAGE_KEY", "FLAGS")
    BY <1>1, <2>1, BlankAction
  <2>3. /\ keys' = Append(keys, buffer) /\ buffer' = <<>> /\ chunk' = Tail(chunk)
        /\ response' = response /\ status' = "FLAGS" /\ command' = command
        /\ remaining' = remaining /\ no_reply' = no_reply
    BY <1>1, <2>2 DEF KeyWord, Advance, numbers
  <2>4. Len(keys) = i - 2 /\ KeyCount(c, i + 1) = i - 1
    BY <1>0, <1>3, <1>8 DEF KeyCount
  <2>5. Has(m, a, i + 1)'
    BY <1>0, <1>1, <1>2, <1>3, <2>3, <2>4, KeyAdded
  <2>6. no_reply' <=> (i = k /\ Hush(c, k))
    <3>1. i # k
      BY <1>5, <1>8
    <3> QED BY <1>4, <2>3, <3>1
  <2>7. remaining' = IF c \in {"SET", "ADD"} /\ i >= 5 THEN NBytes(m, a) ELSE 0
    BY <1>3, <1>8, <2>3
  <2> QED BY <1>2, <1>3, <2>1, <2>3, <2>5, <2>6, <2>7, NextWord
<1>9. CASE c \in {"SET", "ADD"} /\ i \in {3, 4, 5}
  <2>1. buffer \in DOMAIN Numbers
    <3>1. /\ Word(m, a, 3) \in DOMAIN Numbers /\ Word(m, a, 4) \in DOMAIN Numbers
          /\ Word(m, a, 5) \in DOMAIN Numbers
      BY <1>2, <1>9, Shapes, Zenon
    <3> QED BY <1>1, <1>9, <3>1
  <2>2. \/ i = 3 /\ NumberWord("FLAGS", "EXPTIME") /\ StatusFor(c, i + 1) = "EXPTIME"
        \/ i = 4 /\ NumberWord("EXPTIME", "NBYTES") /\ StatusFor(c, i + 1) = "NBYTES"
        \/ i = 5 /\ NumberWord("NBYTES", "NOREP") /\ StatusFor(c, i + 1) = "NOREP"
    <3>1. \/ i = 3 /\ status = "FLAGS" /\ StatusFor(c, i + 1) = "EXPTIME"
          \/ i = 4 /\ status = "EXPTIME" /\ StatusFor(c, i + 1) = "NBYTES"
          \/ i = 5 /\ status = "NBYTES" /\ StatusFor(c, i + 1) = "NOREP"
      BY <1>3, <1>9 DEF StatusFor
    <3> QED BY <1>1, <3>1, BlankAction
  <2>3. /\ buffer' = <<>> /\ chunk' = Tail(chunk) /\ response' = response
        /\ command' = command /\ keys' = keys /\ no_reply' = no_reply
    BY <2>1, <2>2 DEF NumberWord, Advance
  <2>4. status' = StatusFor(c, i + 1)
    BY <2>1, <2>2 DEF NumberWord
  <2>5. remaining' = IF i = 5 THEN Numbers[buffer] % SizeModulus ELSE remaining
    BY <2>1, <2>2 DEF NumberWord
  <2>6. remaining' = IF c \in {"SET", "ADD"} /\ i >= 5 THEN NBytes(m, a) ELSE 0
    <3>1. NBytes(m, a) \in 0..(SizeModulus - 1)
      BY <1>2, <1>9, Shapes, Zenon
    <3>2. NBytes(m, a) % SizeModulus = NBytes(m, a)
      BY <3>1, SmallModulo
    <3>3. i = 5 => Numbers[buffer] = NBytes(m, a)
      BY <1>1 DEF NBytes
    <3>4. CASE i = 5
      BY <1>9, <2>5, <3>2, <3>3, <3>4
    <3>5. CASE i # 5
      BY <1>3, <1>9, <2>5, <3>5
    <3> QED BY <3>4, <3>5
  <2>7. Has(m, a, i + 1)'
    <3>1. KeyCount(c, i + 1) = KeyCount(c, i)
      BY <1>9 DEF KeyCount
    <3> QED BY <1>0, <1>2, <1>3, <2>3, <3>1, KeysKept
  <2>8. no_reply' <=> (i = k /\ Hush(c, k))
    <3>1. ~(i = k /\ Hush(c, k))
      BY <1>5, <1>9 DEF Hush
    <3> QED BY <1>4, <2>3, <3>1
  <2> QED BY <1>2, <1>3, <2>3, <2>4, <2>6, <2>7, <2>8, NextWord
<1>10. CASE (c = "DELETE" /\ i = 3) \/ (c \in {"SET", "ADD"} /\ i = 6)
  <2>1. /\ i = k /\ Hush(c, k) /\ buffer = <<"noreply">>
    BY <1>0, <1>1, <1>5, <1>10 DEF Hush
  <2>2. status = "NOREP" /\ StatusFor(c, i + 1) = "NOREP"
    BY <1>3, <1>10 DEF StatusFor
  <2>3. NoReplyWord
    BY <1>1, <2>2, BlankAction
  <2>4. /\ buffer' = <<>> /\ chunk' = Tail(chunk) /\ response' = response /\ status' = status
        /\ command' = command /\ keys' = keys /\ remaining' = remaining /\ no_reply' = TRUE
    BY <2>1, <2>3 DEF NoReplyWord, Advance, numbers
  <2>5. Has(m, a, i + 1)'
    <3>1. KeyCount(c, i + 1) = KeyCount(c, i)
      BY <1>10 DEF KeyCount
    <3> QED BY <1>0, <1>2, <1>3, <2>4, <3>1, KeysKept
  <2>6. no_reply' <=> (i = k /\ Hush(c, k))
    BY <2>1, <2>4
  <2>7. remaining' = IF c \in {"SET", "ADD"} /\ i >= 5 THEN NBytes(m, a) ELSE 0
    BY <1>3, <1>10, <2>4
  <2> QED BY <1>2, <1>3, <2>2, <2>4, <2>5, <2>6, <2>7, NextWord
<1>11. \/ c \in {"GET", "GETS"} \/ (c = "DELETE" /\ i \in {2, 3})
       \/ (c \in {"SET", "ADD"} /\ i \in {2, 3, 4, 5, 6})
  BY <1>0, <1>5
<1> QED BY <1>6, <1>7, <1>8, <1>9, <1>10, <1>11

-----------------------------------------------------------------------------
(* What the message asks for, as the parser should hold it at the end.       *)
LEMMA Meant ==
  ASSUME RInv, NEW m, NEW k, NEW a, Layout(m, k, a), Has(m, a, k + 1), k >= 2 \/ keys = <<>>
  PROVE  Meaning[m] = Asked(CommandOf(m, a), keys,
                            IF CommandOf(m, a) \in {"SET", "ADD"}
                            THEN SubSeq(m, a[k] + 2, a[k] + 1 + NBytes(m, a)) ELSE <<>>,
                            IF Hush(CommandOf(m, a), k) THEN TRUE ELSE FALSE)
<1>0. PICK c : c = CommandOf(m, a)
  OBVIOUS
<1>1. k \in Nat /\ k >= 1 /\ keys \in Seq(Seq(Bytes))
  BY LayoutFacts DEF RInv, TypeOK
<1>2. /\ Len(keys) = KeyCount(c, k + 1)
      /\ \A j \in 1..Len(keys) : keys[j] = Word(m, a, j + 1)
  BY <1>0 DEF Has
<1>3. PICK q \in Nat : q = Len(keys)
  BY <1>1
<1>4. keys = [j \in 1..q |-> Word(m, a, j + 1)]
  <2>1. DOMAIN keys = 1..q /\ keys = [j \in 1..q |-> keys[j]]
    BY <1>1, <1>3
  <2> QED BY <1>2, <1>3, <2>1
<1>5. Single(m, k, a) \/ Retrieval(m, k, a) \/ Deletion(m, k, a) \/ Storing(m, k, a)
  BY DEF Layout, WellFormed
<1>6. q = 1 => keys = <<Word(m, a, 2)>>
  <2>1. q = 1 => Len(keys) = 1 /\ keys[1] = Word(m, a, 1 + 1)
    BY <1>2, <1>3
  <2>2. q = 1 => keys = <<keys[1]>>
    BY <1>1, <2>1
  <2> QED BY <2>1, <2>2
<1>7. CASE Single(m, k, a)
  <2>1. /\ c \in {"PING", "QUIT"} /\ k = 1 /\ Meaning[m] = Asked(c, <<>>, <<>>, FALSE)
    BY <1>0, <1>7, Zenon DEF Single
  <2>2. ~Hush(c, k) /\ c \notin {"SET", "ADD"} /\ keys = <<>>
    BY <1>1, <2>1 DEF Hush
  <2> QED BY <1>0, <2>1, <2>2, Zenon
<1>8. CASE Retrieval(m, k, a)
  <2>1. /\ c \in {"GET", "GETS"} /\ k >= 2
        /\ Meaning[m] = Asked(c, [j \in 1..(k - 1) |-> Word(m, a, j + 1)], <<>>, FALSE)
    BY <1>0, <1>8, Zenon DEF Retrieval
  <2>2. ~Hush(c, k) /\ c \notin {"SET", "ADD"}
    BY <2>1 DEF Hush
  <2>3. q = k - 1
    BY <1>1, <1>2, <1>3, <2>1 DEF KeyCount
  <2> QED BY <1>0, <1>4, <2>1, <2>2, <2>3, Zenon
<1>9. CASE Deletion(m, k, a)
  <2>1. /\ c = "DELETE"
        /\ \/ k = 2 /\ Meaning[m] = Asked(c, <<Word(m, a, 2)>>, <<>>, FALSE)
           \/ k = 3 /\ Meaning[m] = Asked(c, <<Word(m, a, 2)>>, <<>>, TRUE)
    BY <1>0, <1>9, Zenon DEF Deletion
  <2>2. c \notin {"SET", "ADD"} /\ (k = 2 \/ k = 3) /\ (k = 2 => ~Hush(c, k)) /\ (k = 3 => Hush(c, k))
    <3>1. c = "DELETE" /\ (k = 2 \/ k = 3)
      BY <2>1, Zenon
    <3> QED BY <3>1 DEF Hush
  <2>3. q = 1
    <3>1. c \in {"SET", "ADD", "DELETE"}
      BY <2>1, Zenon
    <3> QED BY <1>2, <1>3, <2>2, <3>1 DEF KeyCount
  <2>4. CASE k = 2
    <3>1. Meaning[m] = Asked(c, <<Word(m, a, 2)>>, <<>>, FALSE)
      <4>1. k # 3
        BY <2>4
      <4> QED BY <2>1, <4>1, Zenon
    <3> QED BY <1>0, <1>6, <2>2, <2>3, <2>4, <3>1, Zenon
  <2>5. CASE k = 3
    <3>1. Meaning[m] = Asked(c, <<Word(m, a, 2)>>, <<>>, TRUE)
      <4>1. k # 2
        BY <2>5
      <4> QED BY <2>1, <4>1, Zenon
    <3> QED BY <1>0, <1>6, <2>2, <2>3, <2>5, <3>1, Zenon
  <2> QED BY <2>2, <2>4, <2>5
<1>10. CASE Storing(m, k, a)
  <2>0. PICK d : d = SubSeq(m, a[k] + 2, a[k] + 1 + NBytes(m, a))
    OBVIOUS
  <2>1. /\ c \in {"SET", "ADD"}
        /\ \/ k = 5 /\ Meaning[m] = Asked(c, <<Word(m, a, 2)>>, d, FALSE)
           \/ k = 6 /\ Meaning[m] = Asked(c, <<Word(m, a, 2)>>, d, TRUE)
    BY <1>0, <1>10, <2>0, Zenon DEF Storing
  <2>2. (k = 5 \/ k = 6) /\ (k = 5 => ~Hush(c, k)) /\ (k = 6 => Hush(c, k))
    <3>1. c \in {"SET", "ADD"} /\ (k = 5 \/ k = 6)
      BY <2>1, Zenon
    <3> QED BY <3>1 DEF Hush
  <2>3. q = 1
    <3>1. c \in {"SET", "ADD", "DELETE"}
      BY <2>1, Zenon
    <3> QED BY <1>2, <1>3, <2>2, <3>1 DEF KeyCount
  <2>4. CASE k = 5
    <3>1. Meaning[m] = Asked(c, <<Word(m, a, 2)>>, d, FALSE)
      <4>1. k # 6
        BY <2>4
      <4> QED BY <2>1, <4>1, Zenon
    <3> QED BY <1>0, <1>6, <2>0, <2>1, <2>2, <2>3, <2>4, <3>1, Zenon
  <2>5. CASE k = 6
    <3>1. Meaning[m] = Asked(c, <<Word(m, a, 2)>>, d, TRUE)
      <4>1. k # 5
        BY <2>5
      <4> QED BY <2>1, <4>1, Zenon
    <3> QED BY <1>0, <1>6, <2>0, <2>1, <2>2, <2>3, <2>5, <3>1, Zenon
  <2> QED BY <2>2, <2>4, <2>5
<1> QED BY <1>5, <1>7, <1>8, <1>9, <1>10

LEMMA Finishes ==
  ASSUME RInv, NEW m, NEW k, NEW a, Layout(m, k, a), Has(m, a, k + 1), k >= 2 \/ keys = <<>>,
         no_reply <=> Hush(CommandOf(m, a), k),
         command' = command, keys' = keys, no_reply' = no_reply,
         response' \in {"none", "PREPARED"}, status' \in {"FINISHED", "QUITTING"},
         chunk' = <<>>, wire' = <<>>, phase' = "parsing",
         CommandOf(m, a) \in {"SET", "ADD"} =>
           buffer' = SubSeq(m, a[k] + 2, a[k] + 1 + NBytes(m, a))
  PROVE  Final(m)'
<1>0. PICK c : c = CommandOf(m, a)
  OBVIOUS
<1>1. PICK d : d = SubSeq(m, a[k] + 2, a[k] + 1 + NBytes(m, a))
  OBVIOUS
<1>2. command' = c
  <2>1. k + 1 > 1
    BY LayoutFacts
  <2> QED BY <1>0, <2>1 DEF Has
<1>3. no_reply' = IF Hush(c, k) THEN TRUE ELSE FALSE
  <2>1. no_reply \in BOOLEAN
    BY DEF RInv, TypeOK
  <2> QED BY <1>0, <2>1, Zenon
<1>4. response' # "CLIENT_ERROR"
  OBVIOUS
<1>5. Understood' = Asked(c, keys, IF c \in {"SET", "ADD"} THEN d ELSE <<>>,
                          IF Hush(c, k) THEN TRUE ELSE FALSE)
  <2>1. Understood' = Asked(c, keys, IF c \in {"SET", "ADD"} THEN buffer' ELSE <<>>, no_reply')
    BY <1>2, <1>4, Zenon DEF Understood
  <2>2. CASE c \in {"SET", "ADD"}
    <3>1. buffer' = d
      BY <1>0, <1>1, <2>2, Zenon
    <3> QED BY <1>3, <2>1, <2>2, <3>1, Zenon
  <2>3. CASE c \notin {"SET", "ADD"}
    BY <1>3, <2>1, <2>3, Zenon
  <2> QED BY <2>2, <2>3
<1>6. Meaning[m] = Asked(c, keys, IF c \in {"SET", "ADD"} THEN d ELSE <<>>,
                         IF Hush(c, k) THEN TRUE ELSE FALSE)
  BY <1>0, <1>1, Meant, Zenon
<1> QED BY <1>5, <1>6 DEF Final

(* The blank that ends the line.                                             *)
LEMMA LineEnds ==
  ASSUME RInv, process, NEW m, NEW k, NEW a, Layout(m, k, a), NEW p \in Nat, Rest(m, p),
         InLine(m, k, a, p, k + 1)
  PROVE  Final(m)' \/ (Rest(m, p + 1)' /\ InData(m, k, a, p + 1)')
<1>0. k \in Nat /\ k >= 1 /\ k \in 0..k /\ a[k] \in Nat /\ Len(m) \in Nat /\ a[k] < Len(m)
  BY LayoutFacts
<1>1. PICK c : c = CommandOf(m, a)
  OBVIOUS
<1>2. /\ p = a[k] /\ BufferIs(m, a[k], p) /\ status = StatusFor(c, k + 1) /\ Has(m, a, k + 1)
      /\ remaining = IF c \in {"SET", "ADD"} /\ k + 1 >= 6 THEN NBytes(m, a) ELSE 0
      /\ c # "PING"
  <2>1. PICK i \in Nat : i = k + 1 /\ i - 1 = k /\ i # 1
    BY <1>0
  <2>2. InLine(m, k, a, p, i)
    BY <2>1
  <2>3. /\ p = a[k] /\ BufferIs(m, a[i - 1], p)
    BY <2>1, <2>2 DEF InLine
  <2>4. status = StatusFor(c, i) /\ Has(m, a, i) /\ c # "PING"
    BY <1>1, <2>1, <2>2 DEF InLine
  <2>5. remaining = IF c \in {"SET", "ADD"} /\ i >= 6 THEN NBytes(m, a) ELSE 0
    BY <1>1, <2>2 DEF InLine
  <2> QED BY <2>1, <2>3, <2>4, <2>5
<1>3. no_reply <=> Hush(c, k)
  BY <1>1, Zenon DEF InLine
<1>4. buffer = <<>>
  BY <1>2, Empties
<1>5. /\ Looking /\ phase' = "parsing" /\ wire' = wire /\ Head(chunk) \in WhiteSpace
      /\ chunk' = Tail(chunk) => Rest(m, p + 1)'
  <2>1. m[a[k] + 1] \in WhiteSpace
    BY LayoutFacts
  <2>2. Looking /\ wire' = wire /\ phase' = phase
    BY ByteAction
  <2>3. Head(chunk) = m[p + 1] /\ (chunk' = Tail(chunk) => Rest(m, p + 1)')
    BY <1>0, <2>2, NextByte
  <2> QED BY <1>2, <2>1, <2>2, <2>3 DEF Looking
<1>6. c \in {"QUIT", "GET", "GETS", "DELETE", "SET", "ADD"}
  BY <1>1, <1>2, Shapes
<1>7. status # "DATA"
  BY <1>2 DEF StatusFor
<1>8. CASE c = "QUIT"
  <2>1. k = 1 /\ Len(m) = a[k] + 1
    <3>1. CommandOf(m, a) \in {"PING", "QUIT"}
      BY <1>1, <1>8
    <3> QED BY <3>1, Shapes, Zenon
  <2>2. status = "QUITTING"
    BY <1>2, <1>8, <2>1 DEF StatusFor
  <2>3. QuitBlank
    BY <1>5, <1>7, <2>2, BlankAction
  <2>4. wire = <<>> /\ Tail(chunk) = <<>>
    <3>1. Len(m) = p + 1 /\ Len(m) <= p + 3
      BY <1>0, <1>2, <2>1
    <3> QED BY <1>0, <1>5, <3>1, NothingLeft
  <2>5. /\ chunk' = <<>> /\ wire' = <<>> /\ status' = "QUITTING" /\ command' = command
        /\ keys' = keys /\ no_reply' = no_reply /\ response' = response
    BY <1>5, <2>2, <2>3, <2>4 DEF QuitBlank, Advance
  <2>6. keys = <<>>
    <3>1. keys \in Seq(Seq(Bytes)) /\ Len(keys) = 0
      BY <1>1, <1>2, <2>1 DEF RInv, TypeOK, Has, KeyCount
    <3> QED BY <3>1
  <2>7. response' = "none"
    BY <1>2, <2>5 DEF Has
  <2>8. c \notin {"SET", "ADD"}
    BY <1>8
  <2> QED BY <1>1, <1>2, <1>3, <1>5, <2>5, <2>6, <2>7, <2>8, Finishes
<1>9. CASE c \in {"GET", "GETS"}
  <2>1. k >= 2 /\ Len(m) = a[k] + 1
    BY <1>1, <1>9, Shapes, Zenon
  <2>2. status = "RETRIEVAL_KEY"
    BY <1>0, <1>2, <1>9 DEF StatusFor
  <2>3. RetrievalWord
    BY <1>5, <1>7, <2>2, BlankAction
  <2>4. wire = <<>>
    <3>1. Len(m) <= p + 3
      BY <1>0, <1>2, <2>1
    <3> QED BY <1>0, <1>5, <3>1, NothingLeft
  <2>5. /\ chunk' = <<>> /\ wire' = <<>> /\ status' = "FINISHED" /\ command' = command
        /\ keys' = keys /\ no_reply' = no_reply /\ response' = "PREPARED"
    BY <1>4, <1>5, <2>3, <2>4 DEF RetrievalWord, prepare_response
  <2>6. c \notin {"SET", "ADD"}
    BY <1>9
  <2> QED BY <1>1, <1>2, <1>3, <1>5, <2>1, <2>5, <2>6, Finishes
<1>10. CASE c = "DELETE"
  <2>1. k \in {2, 3} /\ Len(m) = a[k] + 1
    BY <1>1, <1>10, Shapes, Zenon
  <2>2. status = "NOREP" /\ remaining = 0
    BY <1>2, <1>10, <2>1 DEF StatusFor
  <2>3. NoReplyWord
    BY <1>5, <1>7, <2>2, BlankAction
  <2>4. wire = <<>>
    <3>1. Len(m) <= p + 3
      BY <1>0, <1>2, <2>1
    <3> QED BY <1>0, <1>5, <3>1, NothingLeft
  <2>5. buffer # <<"noreply">>
    BY <1>4
  <2>6. /\ chunk' = <<>> /\ wire' = <<>> /\ status' = "FINISHED" /\ command' = command
        /\ keys' = keys /\ no_reply' = no_reply /\ response' = "PREPARED"
    BY <1>5, <2>2, <2>3, <2>4, <2>5 DEF NoReplyWord, prepare_response
  <2>7. c \notin {"SET", "ADD"} /\ k >= 2
    BY <1>10, <2>1
  <2> QED BY <1>1, <1>2, <1>3, <1>5, <2>6, <2>7, Finishes
<1>11. CASE c \in {"SET", "ADD"}
  <2>1. /\ k \in {5, 6} /\ Len(m) = a[k] + NBytes(m, a) + 3
        /\ NBytes(m, a) \in 0..(SizeModulus - 1)
    <3>1. CommandOf(m, a) \in {"SET", "ADD"}
      BY <1>1, <1>11
    <3>2. k \in {5, 6} /\ Len(m) = a[k] + NBytes(m, a) + 3
      BY <3>1, Shapes
    <3>3. NBytes(m, a) \in 0..(SizeModulus - 1)
      BY <3>1, Shapes
    <3> QED BY <3>2, <3>3
  <2>0. PICK nb \in Nat : nb = NBytes(m, a)
    BY <2>1
  <2>2. status = "NOREP" /\ remaining = nb
    BY <1>2, <1>11, <2>0, <2>1 DEF StatusFor
  <2>3. NoReplyWord
    BY <1>5, <1>7, <2>2, BlankAction
  <2>5. buffer # <<"noreply">>
    BY <1>4
  <2>6. /\ command' = command /\ keys' = keys /\ no_reply' = no_reply /\ buffer' = buffer
        /\ remaining' = remaining
        /\ \/ remaining > 0 /\ status' = "DATA" /\ Advance
           \/ remaining = 0 /\ prepare_response
    BY <1>5, <2>2, <2>3, <2>5 DEF NoReplyWord, numbers
  <2>7. CASE nb = 0
    <3>1. status' = "FINISHED" /\ response' = "PREPARED" /\ chunk' = <<>>
      BY <2>2, <2>6, <2>7 DEF prepare_response
    <3>2. wire' = <<>>
      <4>1. Len(m) <= p + 3
        BY <1>0, <1>2, <2>0, <2>1, <2>7
      <4> QED BY <1>0, <1>5, <4>1, NothingLeft
    <3>3. buffer' = SubSeq(m, a[k] + 2, a[k] + 1 + NBytes(m, a))
      <4>1. a[k] + 2 \in Int /\ a[k] + 1 + NBytes(m, a) \in Int /\ a[k] + 1 + NBytes(m, a) < a[k] + 2
        BY <1>0, <2>0, <2>7
      <4> QED BY <1>4, <2>6, <4>1, SubSeqEmpty
    <3>4. k >= 2
      BY <2>1
    <3> QED BY <1>1, <1>2, <1>3, <1>5, <2>6, <3>1, <3>2, <3>3, <3>4, Finishes
  <2>8. CASE nb # 0
    <3>1. /\ status' = "DATA" /\ chunk' = Tail(chunk) /\ response' = response
      BY <2>2, <2>6, <2>8 DEF Advance
    <3>2. Rest(m, p + 1)'
      BY <1>5, <3>1
    <3>3. Has(m, a, k + 1)'
      BY <1>2, <2>6, <3>1 DEF Has
    <3>4. PICK b \in Nat : b = p + 1 /\ b = a[k] + 1
      BY <1>0, <1>2
    <3>5. BufferIs(m, b, b)'
      <4>1. b - b = 0 /\ 1..(b - b) = {}
        OBVIOUS
      <4>2. Len(buffer') = 0
        BY <1>4, <2>6
      <4> QED BY <4>1, <4>2 DEF BufferIs
    <3>6. BufferIs(m, a[k] + 1, b)'
      BY <3>4, <3>5
    <3>7. a[k] + 1 <= b /\ b <= a[k] + 1 + NBytes(m, a) /\ nb = NBytes(m, a) - (b - a[k] - 1)
      BY <1>0, <2>0, <3>4
    <3>8. (no_reply <=> Hush(CommandOf(m, a), k))'
      BY <1>1, <1>3, <2>6, Zenon
    <3>9. (remaining = NBytes(m, a) - (b - a[k] - 1))'
      BY <2>2, <2>6, <3>7
    <3>10. CommandOf(m, a) \in {"SET", "ADD"}
      BY <1>1, <1>11
    <3>11. InData(m, k, a, b)'
      BY <3>1, <3>3, <3>6, <3>7, <3>8, <3>9, <3>10 DEF InData
    <3> QED BY <3>2, <3>4, <3>11
  <2> QED BY <2>7, <2>8
<1> QED BY <1>6, <1>8, <1>9, <1>10, <1>11

(* A byte of the data block, and the byte after it.                          *)
LEMMA DataStep ==
  ASSUME RInv, process, NEW m, NEW k, NEW a, Layout(m, k, a), NEW p \in Nat, Rest(m, p),
         InData(m, k, a, p)
  PROVE  Final(m)' \/ (Rest(m, p + 1)' /\ InData(m, k, a, p + 1)')
<1>0. /\ k \in Nat /\ a[k] \in Nat /\ m \in Seq(Bytes) /\ Len(m) \in Nat
  <2>1. k \in Nat /\ k \in 0..k
    BY LayoutFacts
  <2> QED BY <2>1, LayoutFacts
<1>1. /\ CommandOf(m, a) \in {"SET", "ADD"} /\ a[k] + 1 <= p /\ p <= a[k] + 1 + NBytes(m, a)
      /\ BufferIs(m, a[k] + 1, p) /\ status = "DATA" /\ Has(m, a, k + 1)
      /\ remaining = NBytes(m, a) - (p - a[k] - 1)
  BY DEF InData
<1>2. no_reply <=> Hush(CommandOf(m, a), k)
  BY Zenon DEF InData
<1>3. PICK nb \in Nat : /\ nb = NBytes(m, a) /\ Len(m) = a[k] + nb + 3 /\ k \in {5, 6}
  <2>1. k \in {5, 6} /\ Len(m) = a[k] + NBytes(m, a) + 3
    BY <1>1, Shapes
  <2>2. NBytes(m, a) \in 0..(SizeModulus - 1)
    BY <1>1, Shapes
  <2> QED BY <2>1, <2>2
<1>4. PICK from \in Nat : from = a[k] + 1 /\ from <= p
  BY <1>0, <1>1
<1>5. /\ Looking /\ phase' = "parsing" /\ wire' = wire /\ Head(chunk) = m[p + 1]
      /\ chunk' = Tail(chunk) => Rest(m, p + 1)'
  <2>1. Looking /\ wire' = wire /\ phase' = phase
    BY ByteAction
  <2> QED BY <1>0, <2>1, NextByte DEF Looking
<1>6. CASE DataByte
  <2>1. /\ remaining > 0 /\ remaining' = remaining - 1 /\ buffer' = Append(buffer, Head(chunk))
        /\ chunk' = Tail(chunk) /\ response' = response /\ status' = status
        /\ command' = command /\ keys' = keys /\ no_reply' = no_reply
    BY <1>6 DEF DataByte, Advance
  <2>2. Rest(m, p + 1)'
    BY <1>5, <2>1
  <2>3. PICK q \in Nat : q = p + 1
    OBVIOUS
  <2>4. BufferIs(m, a[k] + 1, q)'
    <3>1. BufferIs(m, from, p)
      BY <1>1, <1>4
    <3>2. BufferIs(m, from, p + 1)'
      BY <1>4, <1>5, <2>1, <3>1, Grows
    <3> QED BY <1>4, <2>3, <3>2
  <2>5. Has(m, a, k + 1)' /\ status' = "DATA"
    BY <1>1, <2>1 DEF Has
  <2>6. a[k] + 1 <= q /\ q <= a[k] + 1 + NBytes(m, a) /\ remaining' = NBytes(m, a) - (q - a[k] - 1)
    <3>1. PICK x \in Nat : x = a[k]
      BY <1>0
    <3>2. x + 1 <= p /\ p <= x + 1 + nb /\ remaining = nb - (p - x - 1)
      BY <1>1, <1>3, <3>1
    <3>3. nb - (p - x - 1) > 0 /\ remaining' = nb - (p - x - 1) - 1
      BY <2>1, <3>2
    <3>4. x + 1 <= q /\ q <= x + 1 + nb /\ remaining' = nb - (q - x - 1)
      BY <2>3, <3>2, <3>3
    <3> QED BY <1>3, <3>1, <3>4
  <2>7. (no_reply <=> Hush(CommandOf(m, a), k))'
    BY <1>2, <2>1, Zenon
  <2>8. InData(m, k, a, q)'
    BY <1>1, <2>4, <2>5, <2>6, <2>7 DEF InData
  <2> QED BY <2>2, <2>3, <2>8
<1>7. CASE DataEnd
  <2>1. /\ remaining = 0 /\ status' = "FINISHED" /\ response' = "PREPARED" /\ chunk' = <<>>
        /\ command' = command /\ keys' = keys /\ no_reply' = no_reply /\ buffer' = buffer
    BY <1>7 DEF DataEnd, prepare_response
  <2>2. p = a[k] + 1 + nb
    BY <1>0, <1>1, <1>3, <2>1
  <2>3. wire' = <<>>
    <3>1. Len(m) <= p + 3
      BY <1>0, <1>3, <2>2
    <3> QED BY <1>0, <1>5, <3>1, NothingLeft
  <2>4. buffer' = SubSeq(m, a[k] + 2, a[k] + 1 + NBytes(m, a))
    <3>1. from + 1 = a[k] + 2 /\ p = a[k] + 1 + NBytes(m, a) /\ p <= Len(m)
      BY <1>0, <1>3, <1>4, <2>2, SMTT(30)
    <3>2. buffer = SubSeq(m, from + 1, p)
      BY <1>0, <1>1, <1>4, <3>1, Slice
    <3> QED BY <2>1, <3>1, <3>2
  <2>5. k >= 2
    BY <1>3
  <2> QED BY <1>1, <1>2, <1>5, <2>1, <2>3, <2>4, <2>5, Finishes
<1> QED BY <1>1, <1>6, <1>7, ByteAction

(* A byte of the message brings the parser one byte further.                 *)
LEMMA ParseStep ==
  ASSUME RInv, process, NEW m, NEW k, NEW a, Layout(m, k, a), Parsing(m, k, a)
  PROVE  Final(m)' \/ Parsing(m, k, a)'
<1>0. k \in Nat
  BY LayoutFacts
<1>1. PICK p \in Nat : /\ Rest(m, p)
                       /\ (\E i \in 1..(k + 1) : InLine(m, k, a, p, i)) \/ InData(m, k, a, p)
  BY Zenon DEF Parsing
<1>2. p + 1 \in Nat
  OBVIOUS
<1>3. ASSUME NEW i \in 1..(k + 1), Rest(m, p + 1)', InLine(m, k, a, p + 1, i)'
      PROVE  Parsing(m, k, a)'
  BY <1>2, <1>3, Zenon DEF Parsing
<1>4. ASSUME Rest(m, p + 1)', InData(m, k, a, p + 1)' PROVE Parsing(m, k, a)'
  BY <1>2, <1>4, Zenon DEF Parsing
<1>5. CASE InData(m, k, a, p)
  BY <1>1, <1>4, <1>5, DataStep
<1>6. CASE \E i \in 1..(k + 1) : InLine(m, k, a, p, i)
  <2>1. PICK i \in 1..(k + 1) : InLine(m, k, a, p, i)
    BY <1>6
  <2>2. CASE i = k + 1
    BY <1>1, <1>4, <2>1, <2>2, LineEnds
  <2>3. CASE i # k + 1
    <3>1. i \in 1..k /\ i \in 0..k /\ i + 1 \in 1..(k + 1)
      BY <1>0, <2>3
    <3>2. a[i] \in Nat /\ p < a[i]
      <4>1. i <= k
        BY <1>0, <3>1
      <4> QED BY <2>1, <3>1, <4>1, LayoutFacts DEF InLine
    <3>3. CASE p + 1 < a[i]
      BY <1>1, <1>3, <2>1, <3>1, <3>3, WordGoesOn
    <3>4. CASE p + 1 = a[i] /\ i = 1
      <4>1. 2 \in 1..(k + 1)
        BY <3>1, <3>4
      <4>2. Final(m)' \/ (Rest(m, p + 1)' /\ InLine(m, k, a, p + 1, 2)')
        BY <1>1, <2>1, <3>4, CommandEnds
      <4> QED BY <1>3, <4>1, <4>2
    <3>5. CASE p + 1 = a[i] /\ i # 1
      BY <1>1, <1>3, <2>1, <3>1, <3>5, WordEnds
    <3> QED BY <3>2, <3>3, <3>4, <3>5
  <2> QED BY <2>2, <2>3
<1> QED BY <1>1, <1>5, <1>6

-----------------------------------------------------------------------------
(* The parser waits for more as long as the message is not finished, and     *)
(* there is more.                                                            *)
LEMMA Unfinished ==
  ASSUME RInv, NEW m, NEW k, NEW a, Layout(m, k, a), NEW p \in Nat, Rest(m, p),
         (\E i \in 1..(k + 1) : InLine(m, k, a, p, i)) \/ InData(m, k, a, p)
  PROVE  /\ p < Len(m) /\ Len(buffer) <= p
         /\ chunk = <<>> => wire # <<>> /\ status \notin {"FINISHED", "QUITTING"}
<1>0. k \in Nat /\ k >= 1 /\ k \in 0..k /\ a[k] \in Nat /\ Len(m) \in Nat /\ a[k] < Len(m)
  BY LayoutFacts
<1>1. wire \in Seq(Bytes) /\ Len(wire) \in Nat
  BY DEF RInv, TypeOK
<1>2. ASSUME p < Len(m), chunk = <<>> PROVE wire # <<>> /\ Len(m) >= p + 3
  <2>1. Len(chunk) = 0
    BY <1>2
  <2>2. p + 0 + Len(wire) = Len(m) /\ (Len(wire) = 0 \/ Len(wire) >= 3)
    BY <2>1 DEF Rest
  <2>3. Len(wire) # 0 /\ Len(m) >= p + 3
    BY <1>0, <1>1, <1>2, <2>2
  <2> QED BY <1>1, <2>3
<1>3. CASE InData(m, k, a, p)
  <2>1. /\ CommandOf(m, a) \in {"SET", "ADD"} /\ a[k] + 1 <= p /\ p <= a[k] + 1 + NBytes(m, a)
        /\ Len(buffer) = p - (a[k] + 1) /\ status = "DATA"
    BY <1>3 DEF InData, BufferIs
  <2>2. Len(m) = a[k] + NBytes(m, a) + 3
    BY <2>1, Shapes
  <2>3. NBytes(m, a) \in 0..(SizeModulus - 1)
    BY <2>1, Shapes
  <2>4. p < Len(m) /\ Len(buffer) <= p
    BY <1>0, <2>1, <2>2, <2>3
  <2> QED BY <1>2, <2>1, <2>4
<1>4. CASE \E i \in 1..(k + 1) : InLine(m, k, a, p, i)
  <2>1. PICK i \in 1..(k + 1) : InLine(m, k, a, p, i)
    BY <1>4
  <2>2. i - 1 \in 0..k /\ a[i - 1] \in Nat
    <3>1. i - 1 \in 0..k
      BY <1>0
    <3> QED BY <3>1, LayoutFacts
  <2>3. /\ a[i - 1] <= p /\ (i <= k => p < a[i]) /\ (i = k + 1 => p = a[k])
        /\ Len(buffer) = p - a[i - 1] /\ status = StatusFor(CommandOf(m, a), i)
    BY <2>1 DEF InLine, BufferIs
  <2>4. Len(buffer) <= p
    BY <2>2, <2>3
  <2>5. p < Len(m)
    <3>1. CASE i = k + 1
      BY <1>0, <2>3, <3>1
    <3>2. CASE i # k + 1
      <4>1. i \in 1..k /\ i \in 0..k /\ i <= k
        BY <1>0, <3>2
      <4>2. a[i] \in Nat /\ a[i] < Len(m)
        BY <4>1, LayoutFacts
      <4> QED BY <1>0, <2>3, <4>1, <4>2
    <3> QED BY <3>1, <3>2
  <2>6. status # "FINISHED"
    BY <2>3 DEF StatusFor
  <2>7. ASSUME status = "QUITTING", chunk = <<>> PROVE FALSE
    <3>1. CommandOf(m, a) = "QUIT" /\ i # 1
      BY <2>3, <2>7 DEF StatusFor
    <3>2. CommandOf(m, a) \in {"PING", "QUIT"}
      BY <3>1
    <3>3. k = 1 /\ Len(m) = a[k] + 1
      BY <3>2, Shapes, Zenon
    <3>4. i = k + 1
      BY <3>1, <3>3
    <3>5. Len(m) = p + 1
      BY <1>0, <2>3, <3>3, <3>4
    <3> QED BY <1>2, <2>5, <2>7, <3>5
  <2> QED BY <1>2, <2>4, <2>5, <2>6, <2>7
<1> QED BY <1>3, <1>4

(* A read hands over some of the bytes under way.                            *)
LEMMA ReadStep ==
  ASSUME Careful, RInv, NEW m, NEW k, NEW a, Layout(m, k, a), Parsing(m, k, a),
         chunk = <<>>, NEW n, Read(n)
  PROVE  Parsing(m, k, a)'
<1>1. PICK p \in Nat : /\ Rest(m, p)
                       /\ (\E i \in 1..(k + 1) : InLine(m, k, a, p, i)) \/ InData(m, k, a, p)
  BY Zenon DEF Parsing
<1>2. /\ Len(m) \in Nat /\ p < Len(m) /\ Len(buffer) <= p
  BY <1>1, LayoutFacts, Unfinished
<1>3. /\ wire \in Seq(Bytes) /\ buffer \in Seq(Bytes) /\ Len(wire) \in Nat /\ Len(buffer) \in Nat
  BY DEF RInv, TypeOK
<1>4. n \in Nat /\ n >= 1 /\ n <= Len(wire)
  BY RequestAssumptions DEF Read
<1>5. /\ p + Len(wire) = Len(m) /\ \A j \in 1..Len(wire) : wire[j] = m[p + j]
  <2>1. Len(chunk) = 0
    OBVIOUS
  <2>2. PICK q : q = p + Len(chunk)
    OBVIOUS
  <2>3. q + Len(wire) = Len(m) /\ \A j \in 1..Len(wire) : wire[j] = m[q + j]
    BY <1>1, <2>2 DEF Rest
  <2>4. q = p
    BY <2>1, <2>2
  <2> QED BY <2>3, <2>4
<1>6. ~(MaxBytes > 0 /\ n + Len(buffer) >= MaxBytes)
  <2>1. MaxBytes \in Nat /\ (MaxBytes = 0 \/ Len(m) < MaxBytes)
    BY RequestAssumptions DEF Careful, Layout
  <2> QED BY <1>2, <1>3, <1>4, <1>5, <2>1
<1>7. /\ wire' = SubSeq(wire, n + 1, Len(wire)) /\ chunk' = SubSeq(wire, 1, n)
      /\ status' = status /\ response' = response /\ command' = command /\ keys' = keys
      /\ remaining' = remaining /\ no_reply' = no_reply /\ buffer' = buffer
      /\ Len(wire) - n = 0 \/ Len(wire) - n >= KeepTogether
  BY <1>6 DEF Read, numbers
<1>8. /\ Len(chunk') = n /\ \A j \in 1..n : chunk'[j] = wire[j]
  BY <1>3, <1>4, <1>7
<1>9. Len(wire') = Len(wire) - n /\ \A j \in 1..(Len(wire) - n) : wire'[j] = wire[n + j]
  <2>1. \A j \in (n + 1)..Len(wire) : wire[j] \in Bytes
    BY <1>3, <1>4
  <2>2. Len(wire) - (n + 1) + 1 = Len(wire) - n /\ n + 1 \in Int /\ Len(wire) \in Int
    BY <1>3, <1>4
  <2>3. /\ Len(wire') = IF n + 1 <= Len(wire) THEN Len(wire) - (n + 1) + 1 ELSE 0
        /\ \A j \in 1..(Len(wire) - (n + 1) + 1) : wire'[j] = wire[n + 1 + j - 1]
    BY <1>7, <2>1, <2>2, SubSeqProperties
  <2>4. Len(wire') = Len(wire) - n
    BY <1>3, <1>4, <2>3
  <2>5. ASSUME NEW j \in 1..(Len(wire) - n) PROVE n + 1 + j - 1 = n + j
    BY <1>4
  <2> QED BY <2>2, <2>3, <2>4, <2>5
<1>10. Rest(m, p)'
  <2>1. p + Len(chunk') + Len(wire') = Len(m)
    <3>1. PICK u \in Nat, v \in Nat : u = Len(wire) /\ v = Len(m)
      BY <1>2, <1>3
    <3>2. p + u = v /\ Len(chunk') = n /\ Len(wire') = u - n
      BY <1>5, <1>8, <1>9, <3>1
    <3>3. p + n + (u - n) = v
      BY <1>4, <3>2
    <3> QED BY <3>1, <3>2, <3>3
  <2>2. \A j \in 1..Len(chunk') : chunk'[j] = m[p + j]
    <3>1. \A j \in 1..n : j \in 1..Len(wire)
      BY <1>3, <1>4
    <3> QED BY <1>5, <1>8, <3>1
  <2>3. \A j \in 1..Len(wire') : wire'[j] = m[p + Len(chunk') + j]
    <3> TAKE j \in 1..Len(wire')
    <3>1. j \in 1..(Len(wire) - n) /\ n + j \in 1..Len(wire) /\ p + (n + j) = p + n + j
      BY <1>3, <1>4, <1>9
    <3>2. wire'[j] = m[p + (n + j)]
      BY <1>5, <1>9, <3>1
    <3> QED BY <1>8, <3>1, <3>2
  <2>4. Len(wire') = 0 \/ Len(wire') >= 3
    <3>1. KeepTogether \in Nat /\ KeepTogether >= 3
      BY RequestAssumptions DEF Careful
    <3> QED BY <1>3, <1>4, <1>7, <1>9, <3>1
  <2> QED BY <2>1, <2>2, <2>3, <2>4 DEF Rest
<1>11. ASSUME NEW i \in 1..(k + 1), InLine(m, k, a, p, i) PROVE InLine(m, k, a, p, i)'
  BY <1>7, <1>11 DEF InLine, BufferIs, Has
<1>12. InData(m, k, a, p) => InData(m, k, a, p)'
  BY <1>7 DEF InData, BufferIs, Has
<1> QED BY <1>1, <1>10, <1>11, <1>12, Zenon DEF Parsing

(* The client writes the next message.                                       *)
Between == phase = "reading" /\ wire = <<>> /\ chunk = <<>> /\ status = "COMMAND" /\ buffer = <<>>

LEMMA Starts ==
  ASSUME RInv, Between, NEW m, NEW k, NEW a, Layout(m, k, a), Send(m)
  PROVE  Parsing(m, k, a)' /\ phase' = "reading" /\ chunk' = <<>>
<1>0. /\ k \in Nat /\ k >= 1 /\ m \in Seq(Bytes) /\ Len(m) \in Nat /\ a[0] = 0
      /\ 1 \in 1..k /\ 1 \in 1..(k + 1) /\ 1 \in 0..k
  BY LayoutFacts
<1>1. a[1] \in Nat /\ 1 < a[1] /\ a[1] < Len(m)
  <2>1. a[1 - 1] + 1 < a[1] /\ a[1] < Len(m) /\ a[1] \in Nat /\ 1 - 1 = 0
    BY <1>0, LayoutFacts
  <2> QED BY <1>0, <2>1
<1>2. /\ wire' = <<>> \o m /\ chunk' = <<>> /\ phase' = "reading" /\ status' = "COMMAND"
      /\ buffer' = <<>> /\ keys' = keys /\ no_reply' = no_reply /\ remaining' = remaining
      /\ response' = response
  BY DEF Send, Between, parser, numbers
<1>3. keys = <<>> /\ ~no_reply /\ remaining = 0 /\ response = "none"
  BY DEF RInv, NothingLeaks, Between
<1>4. wire' = m
  BY <1>0, <1>2
<1>5. Rest(m, 0)'
  <2>1. Len(chunk') = 0 /\ 0 + 0 + Len(m) = Len(m) /\ Len(m) >= 3
    BY <1>0, <1>1, <1>2
  <2>2. \A j \in 1..Len(m) : m[j] = m[0 + 0 + j]
    OBVIOUS
  <2> QED BY <1>4, <2>1, <2>2 DEF Rest
<1>6. InLine(m, k, a, 0, 1)'
  <2>1. a[1 - 1] = 0 /\ a[1 - 1] <= 0 /\ 0 < a[1] /\ 1 # k + 1
    BY <1>0, <1>1
  <2>2. BufferIs(m, 0, 0)'
    BY <1>2 DEF BufferIs
  <2>3. Has(m, a, 1)'
    <3>1. Len(keys') = 0 /\ 1..Len(keys') = {}
      BY <1>2, <1>3
    <3> QED BY <1>2, <1>3, <3>1 DEF Has, KeyCount
  <2>4. status' = StatusFor(CommandOf(m, a), 1)
    BY <1>2 DEF StatusFor
  <2>5. (no_reply <=> (1 = k + 1 /\ Hush(CommandOf(m, a), k)))'
    BY <1>2, <1>3, <2>1
  <2>6. (remaining = IF CommandOf(m, a) \in {"SET", "ADD"} /\ 1 >= 6 THEN NBytes(m, a) ELSE 0)'
    BY <1>2, <1>3
  <2> QED BY <2>1, <2>2, <2>3, <2>4, <2>5, <2>6 DEF InLine
<1>7. 0 \in Nat
  OBVIOUS
<1> QED BY <1>0, <1>2, <1>5, <1>6, <1>7, Zenon DEF Parsing

-----------------------------------------------------------------------------
(* The conversation: the client waits, the server answers, or the message    *)
(* written last is read and understood.                                      *)
Asks == {Meaning[m] : m \in Messages}

InWork(m, k, a) ==
  /\ Layout(m, k, a) /\ Len(sent) = Len(done) + 1 /\ sent[Len(sent)] = Meaning[m]
  /\ (phase \in {"reading", "parsing"} /\ Parsing(m, k, a)) \/ Final(m)

Talk == \/ Between /\ Len(done) = Len(sent)
        \/ phase \in {"writing", "closed"} /\ wire = <<>> /\ Len(done) = Len(sent)
        \/ \E m, k, a : InWork(m, k, a)

PInv == /\ RInv /\ (phase # "parsing" => chunk = <<>>)
        /\ sent \in Seq(Asks) /\ done \in Seq(Asks) /\ ParsedAsSent
        /\ Talk

LEMMA PInvInit == HInit => PInv
<1> SUFFICES ASSUME HInit PROVE PInv
  OBVIOUS
<1>1. Init /\ sent = <<>> /\ done = <<>>
  BY DEF HInit
<1>2. RInv
  BY <1>1, RInvInit
<1>3. sent \in Seq(Asks) /\ done \in Seq(Asks) /\ Len(done) = Len(sent) /\ ParsedAsSent
  BY <1>1 DEF ParsedAsSent
<1>4. chunk = <<>> /\ Between
  BY <1>1 DEF Init, Between
<1> QED BY <1>2, <1>3, <1>4 DEF PInv, Talk

(* Nothing is recorded by these steps.                                       *)
LEMMA SameTalk ==
  ASSUME PInv, sent' = sent, done' = done
  PROVE  sent' \in Seq(Asks) /\ done' \in Seq(Asks) /\ ParsedAsSent'
  BY DEF PInv, ParsedAsSent

(* What is understood is recorded.                                           *)
LEMMA Recorded ==
  ASSUME PInv, NEW m, NEW k, NEW a, InWork(m, k, a), Final(m),
         sent' = sent, done' = Append(done, Understood)
  PROVE  /\ sent' \in Seq(Asks) /\ done' \in Seq(Asks) /\ ParsedAsSent'
         /\ Len(done') = Len(sent')
<1>1. /\ sent \in Seq(Asks) /\ done \in Seq(Asks) /\ Len(sent) \in Nat /\ Len(done) \in Nat
      /\ \A i \in 1..Len(done) : done[i] = sent[i]
  BY DEF PInv, ParsedAsSent
<1>2. PICK u \in Asks : u = Understood /\ u = sent[Len(sent)]
  BY DEF InWork, Final, Layout, Asks
<1>3. Len(sent) = Len(done) + 1
  BY DEF InWork
<1>4. /\ done' \in Seq(Asks) /\ Len(done') = Len(done) + 1
      /\ \A i \in 1..Len(done) : done'[i] = done[i]
      /\ done'[Len(done) + 1] = u
  BY <1>1, <1>2, AppendProperties
<1>5. Len(done') = Len(sent') /\ Len(done') <= Len(sent')
  BY <1>1, <1>3, <1>4
<1>6. ASSUME NEW i \in 1..Len(done') PROVE done'[i] = sent'[i]
  <2>1. CASE i = Len(done) + 1
    BY <1>2, <1>3, <1>4, <2>1
  <2>2. CASE i # Len(done) + 1
    <3>1. i \in 1..Len(done)
      BY <1>1, <1>4, <2>2
    <3> QED BY <1>1, <1>4, <3>1
  <2> QED BY <2>1, <2>2
<1> QED BY <1>1, <1>4, <1>5, <1>6 DEF ParsedAsSent

LEMMA WorkSame ==
  ASSUME NEW m, NEW k, NEW a, InWork(m, k, a), sent' = sent, done' = done,
         (phase' \in {"reading", "parsing"} /\ Parsing(m, k, a)') \/ Final(m)'
  PROVE  Talk'
<1>1. InWork(m, k, a)'
  BY DEF InWork, Layout
<1> QED BY <1>1, Zenon DEF Talk

(* A step that leaves all but the phase alone.                               *)
LEMMA ParsingKept ==
  ASSUME NEW m, NEW k, NEW a, Parsing(m, k, a), UNCHANGED <<wire, chunk, parser>>
  PROVE  Parsing(m, k, a)'
<1>1. PICK p \in Nat : /\ Rest(m, p)
                       /\ (\E i \in 1..(k + 1) : InLine(m, k, a, p, i)) \/ InData(m, k, a, p)
  BY Zenon DEF Parsing
<1>2. /\ wire' = wire /\ chunk' = chunk /\ status' = status /\ command' = command /\ keys' = keys
      /\ remaining' = remaining /\ no_reply' = no_reply /\ buffer' = buffer /\ response' = response
  BY DEF parser, numbers
<1>3. Rest(m, p)'
  BY <1>1, <1>2 DEF Rest
<1>4. ASSUME NEW i \in 1..(k + 1), InLine(m, k, a, p, i) PROVE InLine(m, k, a, p, i)'
  BY <1>2, <1>4 DEF InLine, BufferIs, Has
<1>5. InData(m, k, a, p) => InData(m, k, a, p)'
  BY <1>2 DEF InData, BufferIs, Has
<1> QED BY <1>1, <1>3, <1>4, <1>5, Zenon DEF Parsing

(* The message in work, when the read handler has returned.                  *)
LEMMA AtReturn ==
  ASSUME PInv, Returned, NEW m, NEW k, NEW a, InWork(m, k, a)
  PROVE  Final(m) <=> status \in {"FINISHED", "QUITTING"}
<1>1. RInv /\ chunk = <<>> /\ Layout(m, k, a)
  BY DEF PInv, Returned, InWork
<1>2. ASSUME Parsing(m, k, a) PROVE status \notin {"FINISHED", "QUITTING"}
  <2>1. PICK p \in Nat : /\ Rest(m, p)
                         /\ (\E i \in 1..(k + 1) : InLine(m, k, a, p, i)) \/ InData(m, k, a, p)
    BY <1>2, Zenon DEF Parsing
  <2> QED BY <1>1, <2>1, Unfinished
<1>3. Final(m) => status \in {"FINISHED", "QUITTING"}
  BY Zenon DEF Final
<1> QED BY <1>2, <1>3, Zenon DEF InWork

(* A client that waits for its turn finds nothing in work.                   *)
LEMMA IdleIsBetween ==
  ASSUME PInv, phase = "reading", wire = <<>>
  PROVE  Between /\ Len(done) = Len(sent)
<1>1. ASSUME NEW m, NEW k, NEW a, InWork(m, k, a) PROVE FALSE
  <2>1. ~Final(m)
    BY DEF Final
  <2>2. RInv /\ chunk = <<>> /\ Layout(m, k, a) /\ Parsing(m, k, a)
    BY <1>1, <2>1 DEF PInv, InWork
  <2>3. PICK p \in Nat : /\ Rest(m, p)
                         /\ (\E i \in 1..(k + 1) : InLine(m, k, a, p, i)) \/ InData(m, k, a, p)
    BY <2>2, Zenon DEF Parsing
  <2> QED BY <2>2, <2>3, Unfinished
<1>2. phase \notin {"writing", "closed"}
  OBVIOUS
<1>3. Talk
  BY DEF PInv
<1> QED BY <1>1, <1>2, <1>3, Zenon DEF Talk

LEMMA PInvStep == Careful /\ PInv /\ [HNext]_hvars => PInv'
<1> SUFFICES ASSUME Careful, PInv, [HNext]_hvars PROVE PInv'
  OBVIOUS
<1>1. [Next]_vars
  BY DEF HNext, HSend, HServer, Next, hvars
<1>2. RInv /\ RInv'
  BY <1>1, RInvStep DEF PInv
<1>3. /\ phase # "parsing" => chunk = <<>>
      /\ sent \in Seq(Asks) /\ done \in Seq(Asks) /\ ParsedAsSent /\ Talk
  BY DEF PInv
<1>4. CASE UNCHANGED hvars
  <2>1. /\ UNCHANGED vars /\ sent' = sent /\ done' = done
    BY <1>4 DEF hvars
  <2>2. /\ UNCHANGED <<wire, chunk, parser>> /\ phase' = phase
    BY <2>1 DEF vars
  <2>3. wire' = wire /\ chunk' = chunk /\ status' = status /\ buffer' = buffer
    BY <2>2 DEF parser
  <2>4. Talk'
    <3>1. CASE Between /\ Len(done) = Len(sent)
      BY <2>1, <2>2, <2>3, <3>1 DEF Talk, Between
    <3>2. CASE phase \in {"writing", "closed"} /\ wire = <<>> /\ Len(done) = Len(sent)
      BY <2>1, <2>2, <2>3, <3>2 DEF Talk
    <3>3. ASSUME NEW m, NEW k, NEW a, InWork(m, k, a) PROVE Talk'
      <4>1. CASE Final(m)
        <5>1. Final(m)'
          BY <2>2, <4>1 DEF Final, Understood, parser
        <5> QED BY <2>1, <3>3, <5>1, WorkSame
      <4>2. CASE phase \in {"reading", "parsing"} /\ Parsing(m, k, a)
        BY <2>1, <2>2, <3>3, <4>2, ParsingKept, WorkSame
      <4> QED BY <3>3, <4>1, <4>2 DEF InWork
    <3> QED BY <1>3, <3>1, <3>2, <3>3, Zenon DEF Talk
  <2> QED BY <1>2, <1>3, <2>1, <2>2, <2>3, <2>4, SameTalk DEF PInv
<1>5. ASSUME NEW m \in Messages, HSend(m) PROVE PInv'
  <2>1. Send(m) /\ sent' = Append(sent, Meaning[m]) /\ done' = done
    BY <1>5 DEF HSend
  <2>2. phase = "reading" /\ wire = <<>>
    BY <2>1 DEF Send, Careful, Idle
  <2>3. Between /\ Len(done) = Len(sent)
    BY <2>2, IdleIsBetween
  <2>4. PICK k \in Nat \ {0} : \E a \in [0..k -> Nat] : WellFormed(m, k, a)
    BY DEF Careful
  <2>5. PICK a \in [0..k -> Nat] : WellFormed(m, k, a)
    BY <2>4
  <2>6. Layout(m, k, a) /\ Layout(m, k, a)'
    BY <2>5 DEF Layout
  <2>7. Parsing(m, k, a)' /\ phase' = "reading" /\ chunk' = <<>>
    BY <1>2, <2>1, <2>3, <2>6, Starts
  <2>8. Meaning[m] \in Asks
    BY DEF Asks
  <2>9. /\ sent' \in Seq(Asks) /\ Len(sent') = Len(sent) + 1 /\ sent'[Len(sent) + 1] = Meaning[m]
        /\ \A i \in 1..Len(sent) : sent'[i] = sent[i]
    BY <1>3, <2>1, <2>8, AppendProperties
  <2>10. InWork(m, k, a)'
    BY <2>1, <2>3, <2>6, <2>7, <2>9 DEF InWork
  <2>11. ParsedAsSent'
    <3>1. Len(done) \in Nat /\ Len(sent) \in Nat
      BY <1>3
    <3>2. Len(done') <= Len(sent')
      BY <2>1, <2>3, <2>9, <3>1
    <3>3. \A i \in 1..Len(done') : done'[i] = sent'[i]
      BY <1>3, <2>1, <2>3, <2>9 DEF ParsedAsSent
    <3> QED BY <3>2, <3>3 DEF ParsedAsSent
  <2>12. Talk'
    BY <2>10, Zenon DEF Talk
  <2> QED BY <1>2, <1>3, <2>1, <2>7, <2>9, <2>11, <2>12 DEF PInv
<1>6. ASSUME HServer, ~(Returned /\ status \in {"FINISHED", "QUITTING"}) PROVE sent' = sent /\ done' = done
  BY <1>6 DEF HServer
<1>7. ASSUME HServer, NEW n, Read(n) PROVE PInv'
  <2>1. phase = "reading" /\ chunk = <<>> /\ phase' = "parsing"
    BY <1>3, <1>7 DEF Read
  <2>2. sent' = sent /\ done' = done
    BY <1>6, <1>7, <2>1 DEF Returned
  <2>3. wire # <<>>
    <3>1. wire \in Seq(Bytes) /\ n \in 1..MaxChunk /\ n <= Len(wire) /\ MaxChunk \in Nat
      BY <1>2, <1>7, RequestAssumptions DEF Read, RInv, TypeOK
    <3> QED BY <3>1
  <2>4. PICK m, k, a : InWork(m, k, a)
    <3>1. ~Between /\ ~(phase \in {"writing", "closed"})
      BY <2>1, <2>3 DEF Between
    <3> QED BY <1>3, <3>1, Zenon DEF Talk
  <2>5. ~Final(m)
    BY <2>1 DEF Final
  <2>6. Layout(m, k, a) /\ Parsing(m, k, a)
    BY <2>4, <2>5 DEF InWork
  <2>7. Parsing(m, k, a)'
    BY <1>2, <1>7, <2>1, <2>6, ReadStep
  <2>8. Talk'
    BY <2>1, <2>2, <2>4, <2>7, WorkSame
  <2> QED BY <1>2, <2>1, <2>2, <2>8, SameTalk DEF PInv
<1>8. ASSUME HServer, process PROVE PInv'
  <2>1. phase = "parsing" /\ phase' = "parsing" /\ chunk # <<>>
    BY <1>8, ByteAction DEF Looking
  <2>2. sent' = sent /\ done' = done
    BY <1>6, <1>8, <2>1 DEF Returned
  <2>3. PICK m, k, a : InWork(m, k, a)
    <3>1. ~Between /\ ~(phase \in {"writing", "closed"})
      BY <2>1 DEF Between
    <3> QED BY <1>3, <3>1, Zenon DEF Talk
  <2>4. ~Final(m)
    BY <2>1 DEF Final
  <2>5. Layout(m, k, a) /\ Parsing(m, k, a)
    BY <2>3, <2>4 DEF InWork
  <2>6. Final(m)' \/ Parsing(m, k, a)'
    BY <1>2, <1>8, <2>5, ParseStep
  <2>7. Talk'
    BY <2>1, <2>2, <2>3, <2>6, WorkSame
  <2> QED BY <1>2, <2>1, <2>2, <2>7, SameTalk DEF PInv
<1>9. ASSUME HServer, ReadMore PROVE PInv'
  <2>1. /\ Returned /\ phase = "parsing" /\ chunk = <<>> /\ status \notin {"FINISHED", "QUITTING"}
        /\ phase' = "reading" /\ UNCHANGED <<wire, chunk, parser>>
    BY <1>9 DEF ReadMore, Returned
  <2>2. sent' = sent /\ done' = done
    BY <1>6, <1>9, <2>1
  <2>3. PICK m, k, a : InWork(m, k, a)
    <3>1. ~Between /\ ~(phase \in {"writing", "closed"})
      BY <2>1 DEF Between
    <3> QED BY <1>3, <3>1, Zenon DEF Talk
  <2>4. Parsing(m, k, a)
    BY <2>1, <2>3, AtReturn DEF InWork
  <2>5. Parsing(m, k, a)'
    BY <2>1, <2>4, ParsingKept
  <2>6. Talk'
    BY <2>1, <2>2, <2>3, <2>5, WorkSame
  <2> QED BY <1>2, <2>1, <2>2, <2>6, SameTalk DEF PInv
<1>10. ASSUME HServer, Respond \/ StaySilent \/ Quit PROVE PInv'
  <2>1. /\ Returned /\ phase = "parsing" /\ chunk = <<>> /\ status \in {"FINISHED", "QUITTING"}
        /\ wire' = wire /\ chunk' = chunk
        /\ \/ phase' \in {"writing", "closed"}
           \/ phase' = "reading" /\ status' = "COMMAND" /\ buffer' = <<>>
    BY <1>10 DEF Respond, StaySilent, Quit, Returned, reset
  <2>2. sent' = sent /\ done' = Append(done, Understood)
    BY <1>10, <2>1 DEF HServer
  <2>3. PICK m, k, a : InWork(m, k, a)
    <3>1. ~Between /\ ~(phase \in {"writing", "closed"})
      BY <2>1 DEF Between
    <3> QED BY <1>3, <3>1, Zenon DEF Talk
  <2>4. Final(m) /\ wire = <<>>
    BY <2>1, <2>3, AtReturn DEF Final
  <2>5. /\ sent' \in Seq(Asks) /\ done' \in Seq(Asks) /\ ParsedAsSent' /\ Len(done') = Len(sent')
    BY <2>2, <2>3, <2>4, Recorded
  <2>6. Talk'
    BY <2>1, <2>4, <2>5 DEF Talk, Between
  <2> QED BY <1>2, <2>1, <2>5, <2>6 DEF PInv
<1>11. ASSUME HServer, Written PROVE PInv'
  <2>1. /\ phase = "writing" /\ chunk = <<>> /\ phase' = "reading" /\ wire' = wire /\ chunk' = chunk
        /\ status' = "COMMAND" /\ buffer' = <<>>
    BY <1>3, <1>11 DEF Written, reset
  <2>2. sent' = sent /\ done' = done
    BY <1>6, <1>11, <2>1 DEF Returned
  <2>3. wire = <<>> /\ Len(done) = Len(sent)
    <3>1. ~Between /\ \A m, k, a : ~InWork(m, k, a)
      BY <2>1 DEF Between, InWork, Final
    <3> QED BY <1>3, <3>1, Zenon DEF Talk
  <2>4. Talk'
    BY <2>1, <2>2, <2>3 DEF Talk, Between
  <2> QED BY <1>2, <2>1, <2>2, <2>4, SameTalk DEF PInv
<1>12. (\E m \in Messages : HSend(m)) \/ HServer \/ UNCHANGED hvars
  BY DEF HNext
<1>13. ASSUME HServer PROVE PInv'
  <2>1. Server
    BY <1>13 DEF HServer
  <2> QED BY <1>7, <1>8, <1>9, <1>10, <1>11, <1>13, <2>1 DEF Server
<1> QED BY <1>4, <1>5, <1>12, <1>13

(* Whatever the alphabet, the messages and their cutting into reads: when    *)
(* the clients write well-formed messages one at a time, below the limit of  *)
(* the server, and no read cuts the last three bytes of a message apart, the *)
(* server carries out what they ask for, in order and word for word.         *)
THEOREM RequestsAreUnderstood == ASSUME Careful PROVE HSpec => []ParsedAsSent
<1>1. PInv /\ [HNext]_hvars => PInv'
  BY PInvStep
<1>2. PInv => ParsedAsSent
  BY DEF PInv
<1> QED BY <1>1, <1>2, PInvInit, PTL DEF HSpec
=============================================================================
