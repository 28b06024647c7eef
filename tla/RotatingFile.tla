---------------------------- MODULE RotatingFile ----------------------------
(***************************************************************************)
(* rotating_file_sink over file_helper: messages go to the base file; one  *)
(* that would make it larger than max_size first moves file i - 1 to file  *)
(* i, the last one being removed, and opens an empty base file.  Removing, *)
(* renaming, opening and writing can fail; the exception leaves the sink   *)
(* with what was done so far, and the next message finds it so.  A process *)
(* that ends, or is killed with messages still in the buffer of the FILE,  *)
(* is followed by one that opens the same files.                           *)
(*                                                                         *)
(* File 0 is the base file.  A message is the record of its number, its    *)
(* size and the offset in its file where it ends; part of a message is as  *)
(* good as none of it.  A file also remembers how many messages had been   *)
(* written before it was made, which the code does not.  log holds the     *)
(* sink's mutex, so its steps are those of one call.                       *)
(***************************************************************************)
EXTENDS Naturals, Sequences

CONSTANTS MaxSize,      \* _max_size
          MaxFiles,     \* _max_files
          MsgSizes,     \* sizes of messages
          Absent,       \* there is no such file
          MaxMsgs,      \* bound on messages
          FileFaults,   \* bound on failures of the file system
          Opens         \* bound on processes that open the files

Messages == [n : Nat, size : Nat, end : Nat]
Files == [from : Nat, msgs : Seq(Messages)]

ASSUME RotatingAssumption ==
    /\ {MaxSize, MaxFiles, MaxMsgs, FileFaults, Opens} \subseteq Nat
    /\ MsgSizes \subseteq Nat
    /\ Absent \notin Files

VARIABLES file,          \* the files by index
          fd,            \* whether _fd is open, on file 0
          current_size,  \* _current_size
          rpc,           \* where log is
          index,         \* i of the loop in _rotate
          msg,           \* the message being logged
          buffered,      \* messages at the end of file 0 only in its buffer
          written,       \* history: the messages written and not lost
          msgs, ffaults, opens

rvars == <<file, fd, current_size, rpc, index, msg, buffered, written, msgs,
           ffaults, opens>>

SizeOf(f) == IF Len(f.msgs) = 0 THEN 0 ELSE f.msgs[Len(f.msgs)].end
NewFile == [from |-> Len(written), msgs |-> << >>]

RInit ==
    /\ file = [i \in 0..MaxFiles |-> Absent]
    /\ fd = FALSE /\ current_size = 0
    /\ rpc = "closed" /\ index = 0
    /\ msg = [n |-> 0, size |-> 0, end |-> 0]
    /\ buffered = 0 /\ written = << >>
    /\ msgs = 0 /\ ffaults = 0 /\ opens = 0

Exists(i) == file[i] # Absent
FileFault == ffaults < FileFaults /\ ffaults' = ffaults + 1

(* An exception: log is over, the rest stays as it is.                     *)
LeaveLog ==
    /\ FileFault
    /\ rpc' = "idle"
    /\ UNCHANGED <<file, fd, current_size, index, msg, buffered, written, msgs, opens>>

(* The constructor: the base file opened to append, its size asked once.   *)
Construct ==
    /\ rpc = "closed" /\ opens < Opens
    /\ opens' = opens + 1
    /\ LET base == IF Exists(0) THEN file[0] ELSE NewFile IN
       /\ file' = [file EXCEPT ![0] = base]
       /\ current_size' = SizeOf(base)
    /\ fd' = TRUE /\ rpc' = "idle"
    /\ UNCHANGED <<index, msg, buffered, written, msgs, ffaults>>

(* The process ends, in whatever step; killed, it loses what is buffered.  *)
EndProcess ==
    /\ rpc # "closed"
    /\ \E lost \in 0..buffered :
         /\ file' = IF lost = 0 THEN file
                    ELSE [file EXCEPT ![0].msgs = SubSeq(@, 1, Len(@) - lost)]
         /\ written' = SubSeq(written, 1, Len(written) - lost)
    /\ rpc' = "closed" /\ fd' = FALSE /\ buffered' = 0
    /\ UNCHANGED <<current_size, index, msg, msgs, ffaults, opens>>

Flush ==
    /\ rpc = "idle" /\ buffered > 0
    /\ buffered' = 0
    /\ UNCHANGED <<file, fd, current_size, rpc, index, msg, written, msgs, ffaults, opens>>

sink_it_ResetsFirst(s) ==
    /\ rpc = "idle" /\ msgs < MaxMsgs
    /\ msgs' = msgs + 1
    /\ msg' = [n |-> msgs + 1, size |-> s, end |-> s]
    /\ IF current_size + s > MaxSize
       THEN /\ rpc' = "rotate" /\ fd' = FALSE /\ buffered' = 0 /\ index' = MaxFiles
            /\ current_size' = s
       ELSE /\ rpc' = "write" /\ current_size' = current_size + s
            /\ UNCHANGED <<fd, buffered, index>>
    /\ UNCHANGED <<file, written, ffaults, opens>>

(* _sink_it up to _rotate, which closes the file and starts its loop.      *)
sink_it(s) ==
    /\ rpc = "idle" /\ msgs < MaxMsgs
    /\ msgs' = msgs + 1
    /\ msg' = [n |-> msgs + 1, size |-> s, end |-> s]
    /\ current_size' = current_size + s
    /\ IF current_size + s > MaxSize
       THEN rpc' = "rotate" /\ fd' = FALSE /\ buffered' = 0 /\ index' = MaxFiles
       ELSE rpc' = "write" /\ UNCHANGED <<fd, buffered, index>>
    /\ UNCHANGED <<file, written, ffaults, opens>>

RemoveTarget ==
    /\ rpc = "rotate" /\ index > 0
    /\ \/ /\ file' = [file EXCEPT ![index] = Absent]
          /\ rpc' = "rename"
          /\ UNCHANGED <<fd, current_size, index, msg, buffered, written, msgs, ffaults, opens>>
       \/ Exists(index) /\ LeaveLog

RenameSource_Upwards ==
    /\ rpc = "rename"
    /\ \/ /\ file' = IF Exists(index - 1)
                     THEN [file EXCEPT ![index] = file[index - 1]] ELSE file
          /\ rpc' = "rotate" /\ index' = index - 1
          /\ UNCHANGED <<fd, current_size, msg, buffered, written, msgs, ffaults, opens>>
       \/ Exists(index - 1) /\ LeaveLog

RenameSource ==
    /\ rpc = "rename"
    /\ \/ /\ file' = IF Exists(index - 1)
                     THEN [file EXCEPT ![index] = file[index - 1], ![index - 1] = Absent]
                     ELSE file
          /\ rpc' = "rotate" /\ index' = index - 1
          /\ UNCHANGED <<fd, current_size, msg, buffered, written, msgs, ffaults, opens>>
       \/ Exists(index - 1) /\ LeaveLog

(* reopen(true): the base file is truncated or made; or none of the        *)
(* open_tries attempts succeeds.                                           *)
Reopen ==
    /\ rpc = "rotate" /\ index = 0
    /\ \/ /\ file' = [file EXCEPT ![0] = NewFile]
          /\ fd' = TRUE
          /\ current_size' = msg.size
          /\ rpc' = "write"
          /\ UNCHANGED <<index, msg, buffered, written, msgs, ffaults, opens>>
       \/ LeaveLog

Write ==
    /\ rpc = "write"
    /\ \/ /\ LET placed == [msg EXCEPT !.end = SizeOf(file[0]) + msg.size] IN
             /\ file' = [file EXCEPT ![0].msgs = Append(@, placed)]
             /\ written' = Append(written, placed)
          /\ buffered' = buffered + 1
          /\ rpc' = "idle"
          /\ UNCHANGED <<fd, current_size, index, msg, msgs, ffaults, opens>>
       \/ LeaveLog

RNext ==
    \/ Construct \/ EndProcess \/ Flush
    \/ \E s \in MsgSizes : sink_it(s)
    \/ RemoveTarget \/ RenameSource \/ Reopen \/ Write

RSpec == RInit /\ [][RNext]_rvars

-----------------------------------------------------------------------------
(* How many messages had been written when the last one of file i was.     *)
EndsAt(i) == file[i].from + Len(file[i].msgs)

(* Whatever failed, and at whichever step the process ended, the files put *)
(* together from the oldest to the base file are the last messages written,*)
(* in order and without a gap: each goes on where the one before ends, up  *)
(* to the last message.  Rotation never drops a newer file before an older.*)
FilesAreSuffix ==
    \A i \in 0..MaxFiles : Exists(i) =>
      /\ \A j \in 1..Len(file[i].msgs) : file[i].msgs[j] = written[file[i].from + j]
      /\ \A k \in 0..i - 1 : Exists(k) /\ (\A l \in k + 1..i - 1 : ~Exists(l)) =>
           file[k].from = EndsAt(i)
      /\ (\A k \in 0..i - 1 : ~Exists(k)) => EndsAt(i) = Len(written)

(* fwrite never gets a null FILE: a rotation that failed half way leaves   *)
(* the sink without a file, and the next message rotates before it writes. *)
(* And a file outgrows max_size only by a single message that is too large,*)
(* across failures and restarts.                                           *)
RotationSafe ==
    /\ rpc = "write" => fd /\ Exists(0)
    /\ \A i \in 0..MaxFiles : Exists(i) =>
         SizeOf(file[i]) <= MaxSize \/ Len(file[i].msgs) = 1
=============================================================================
