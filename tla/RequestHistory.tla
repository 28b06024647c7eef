--------------------------- MODULE RequestHistory ---------------------------
(***************************************************************************)
(* Request with a history of the conversation: what the client asked for,  *)
(* and what the server made of it.                                         *)
(***************************************************************************)
EXTENDS Request

CONSTANTS Meaning,   \* Meaning[m]: the request a client writes m for
          MaxSent    \* bound: messages in a conversation

VARIABLES sent,   \* the requests the client has written
          done    \* the requests the server has carried out or refused

hvars == <<vars, sent, done>>

(* A request as the database sees it. *)
Asked(cmd, ks, data, silent) ==
  [command |-> cmd, keys |-> ks, data |-> data, silent |-> silent]

Understood ==
  IF response = "CLIENT_ERROR" THEN Asked("CLIENT_ERROR", <<>>, <<>>, no_reply)
  ELSE Asked(command, keys, IF command \in {"SET", "ADD"} THEN buffer ELSE <<>>, no_reply)

HInit == Init /\ sent = <<>> /\ done = <<>>

HSend(m) ==
  /\ Len(sent) < MaxSent
  /\ Send(m)
  /\ sent' = Append(sent, Meaning[m])
  /\ UNCHANGED done

HServer ==
  /\ Server
  /\ done' = IF Returned /\ status \in {"FINISHED", "QUITTING"}
             THEN Append(done, Understood) ELSE done
  /\ UNCHANGED sent

HNext == (\E m \in Messages : HSend(m)) \/ HServer

HSpec == HInit /\ [][HNext]_hvars

(* What is written reaches the server, and the threads of the io_service    *)
(* run every handler that is ready.                                         *)
HFairSpec == HSpec /\ WF_hvars(HServer)

-----------------------------------------------------------------------------
(* What a client may write and what it means by it.  A message begins with a *)
(* line of k words, each followed by a blank, and one more blank; a[i] is    *)
(* the place of the blank after word i.                                      *)
Word(m, a, i) == SubSeq(m, a[i - 1] + 1, a[i] - 1)

Line(m, k, a) ==
  /\ a[0] = 0
  /\ \A i \in 1..k : /\ a[i - 1] + 1 < a[i] /\ a[i] < Len(m) /\ m[a[i]] \in WhiteSpace
                     /\ \A p \in (a[i - 1] + 1)..(a[i] - 1) : m[p] \notin WhiteSpace
  /\ m[a[k] + 1] \in WhiteSpace

CommandOf(m, a) == command_from_str(Word(m, a, 1))
NBytes(m, a) == Numbers[Word(m, a, 5)]

Single(m, k, a) ==
  /\ CommandOf(m, a) \in {"PING", "QUIT"} /\ k = 1 /\ Len(m) = a[k] + 1
  /\ Meaning[m] = Asked(CommandOf(m, a), <<>>, <<>>, FALSE)

Retrieval(m, k, a) ==
  /\ CommandOf(m, a) \in {"GET", "GETS"} /\ k >= 2 /\ Len(m) = a[k] + 1
  /\ Meaning[m] = Asked(CommandOf(m, a), [i \in 1..(k - 1) |-> Word(m, a, i + 1)], <<>>, FALSE)

Deletion(m, k, a) ==
  /\ CommandOf(m, a) = "DELETE" /\ Len(m) = a[k] + 1
  /\ \/ k = 2 /\ Meaning[m] = Asked("DELETE", <<Word(m, a, 2)>>, <<>>, FALSE)
     \/ /\ k = 3 /\ Word(m, a, 3) = <<"noreply">>
        /\ Meaning[m] = Asked("DELETE", <<Word(m, a, 2)>>, <<>>, TRUE)

(* The data block is followed by two bytes, which nobody looks at.           *)
Storing(m, k, a) ==
  /\ CommandOf(m, a) \in {"SET", "ADD"} /\ k \in {5, 6}
  /\ {Word(m, a, 3), Word(m, a, 4), Word(m, a, 5)} \subseteq DOMAIN Numbers
  /\ NBytes(m, a) \in 0..(SizeModulus - 1) /\ Len(m) = a[k] + NBytes(m, a) + 3
  /\ LET data == SubSeq(m, a[k] + 2, a[k] + 1 + NBytes(m, a)) IN
     \/ k = 5 /\ Meaning[m] = Asked(CommandOf(m, a), <<Word(m, a, 2)>>, data, FALSE)
     \/ /\ k = 6 /\ Word(m, a, 6) = <<"noreply">>
        /\ Meaning[m] = Asked(CommandOf(m, a), <<Word(m, a, 2)>>, data, TRUE)

WellFormed(m, k, a) ==
  /\ Line(m, k, a)
  /\ Single(m, k, a) \/ Retrieval(m, k, a) \/ Deletion(m, k, a) \/ Storing(m, k, a)

(* Clients that write such messages, none too long for the server, wait for  *)
(* the answer, and are lucky with the end of a message.                      *)
Careful ==
  /\ Paced /\ KeepTogether >= 3
  /\ \A m \in Messages : /\ MaxBytes = 0 \/ Len(m) < MaxBytes
                         /\ \E k \in Nat \ {0} : \E a \in [0..k -> Nat] : WellFormed(m, k, a)

-----------------------------------------------------------------------------
(* The server carries out the requests of the client, in order and word for *)
(* word, and nothing else, however the bytes are cut into reads.            *)
ParsedAsSent ==
  /\ Len(done) <= Len(sent)
  /\ \A i \in 1..Len(done) : done[i] = sent[i]

(* A request that was written completely is carried out or refused, unless  *)
(* the connection is closed.                                                *)
EveryRequestHandled ==
  \A n \in 1..MaxSent : Len(sent) >= n ~> Len(done) >= n \/ phase = "closed"
=============================================================================
