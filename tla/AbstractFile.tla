---------------------------- MODULE AbstractFile ----------------------------
(***************************************************************************)
(* What a FILE promises to the program that uses it.  A stream is a file   *)
(* with a position, or a pipe with an input and an output; bytes that were *)
(* written may wait in memory, and a successful flush or close leaves none *)
(* behind.  Nothing here knows of a buffer: File, which models             *)
(* mlibc::abstract_file and mlibc::fd_file, is shown to implement this.    *)
(***************************************************************************)
EXTENDS ByteSeqs

VARIABLES
  kind,     \* "file" (seekable) or "pipe"
  content,  \* file: what a reader of the stream sees; pipe: the bytes written
  disk,     \* the part of content that reached the kernel
  inp,      \* pipe: the input, read from pos on
  pos,      \* the file position (pipe: bytes of inp consumed)
  pushed,   \* bytes pushed back by ungetc, next byte first
  ret       \* the last call: its name, argument, error and result

vars == <<kind, content, disk, inp, pos, pushed, ret>>

Source == IF kind = "file" THEN content ELSE inp
Unread == pushed \o Suffix(Source, pos)

\* Waiting bytes may reach the kernel during any call, each at its own place.
DrainsTo(target) ==
  IF kind = "file"
  THEN /\ Len(disk') \in Len(disk)..Max({Len(disk), Len(target)})
       /\ \A i \in 1..Len(disk') :
            \/ i <= Len(target) /\ disk'[i] = target[i]
            \/ i <= Len(disk) /\ disk'[i] = disk[i]
  ELSE IsPrefix(disk, disk') /\ IsPrefix(disk', target)

Answer(op, arg, e, data) ==
  ret' = [op |-> op, arg |-> arg, e |-> e, data |-> data]

Failed == ret'.e # "ok"

Init ==
  /\ content = disk
  /\ pos = 0
  /\ pushed = <<>>

(***************************************************************************)
(* A read returns the next bytes, at least one unless none is left.  When  *)
(* the file ends right behind pushed-back bytes, a read that asks for more *)
(* than those may drop them and report the end.                            *)
(***************************************************************************)
Read ==
  /\ ret'.op = "read"
  /\ \E n \in 0..Min({ret'.arg, Len(Unread)}) :
       /\ n = 0 => \/ Unread = <<>>
                   \/ Len(Unread) = Len(pushed) /\ Len(pushed) < ret'.arg
       /\ Answer("read", ret'.arg, "ok", Prefix(Unread, n))
       /\ pushed' = IF n = 0 THEN <<>> ELSE Suffix(pushed, n)
       /\ pos' = pos + Max({0, n - Len(pushed)})
  /\ UNCHANGED <<kind, content, inp>>
  /\ DrainsTo(content')

\* A failing read may have used up pushed-back bytes, never bytes of the file.
ReadFails ==
  /\ ret'.op = "read" /\ Failed
  /\ \E n \in 0..Len(pushed) : pushed' = Suffix(pushed, n)
  /\ UNCHANGED <<kind, content, inp, pos>>
  /\ DrainsTo(content')

(***************************************************************************)
(* A write takes a non-empty prefix of what it is given, at the position   *)
(* (or behind what a pipe was given before).  A failing write may have     *)
(* taken bytes too.                                                        *)
(***************************************************************************)
Write ==
  /\ ret'.op = "write"
  /\ \E n \in 0..Len(ret'.arg) :
       /\ \/ ret'.e = "ok" /\ n > 0 /\ ret'.data = n
          \/ Failed
       /\ content' = IF kind = "file"
                     THEN Overlay(content, pos, Prefix(ret'.arg, n))
                     ELSE content \o Prefix(ret'.arg, n)
       /\ pos' = IF kind = "file" THEN pos + n ELSE pos
  /\ UNCHANGED <<kind, inp, pushed>>
  /\ DrainsTo(content')

Unget ==
  /\ ret'.op = "unget"
  /\ pushed' = IF Failed THEN pushed ELSE <<ret'.arg>> \o pushed
  /\ UNCHANGED <<kind, content, disk, inp, pos>>

\* Seeking forgets the pushed-back bytes and writes every waiting byte first.
Seek ==
  /\ ret'.op = "seek" /\ ~Failed
  /\ kind = "file"
  /\ pos' = CASE ret'.arg[2] = "SET" -> ret'.arg[1]
              [] ret'.arg[2] = "CUR" -> pos + ret'.arg[1]
              [] ret'.arg[2] = "END" -> Len(content) + ret'.arg[1]
  /\ pushed' = <<>>
  /\ disk' = content
  /\ UNCHANGED <<kind, content, inp>>

Tell ==
  /\ ret'.op = "tell" /\ ~Failed
  /\ kind = "file"
  /\ ret'.data = pos - Len(pushed)
  /\ UNCHANGED <<kind, content, disk, inp, pos, pushed>>

\* After a successful flush nothing waits; unread pipe input is not lost.
Flush ==
  /\ ret'.op = "flush" /\ ~Failed
  /\ disk' = content
  /\ pushed' \in {pushed, <<>>}
  /\ UNCHANGED <<kind, content, inp, pos>>

\* A call that fails changes nothing, though waiting bytes may drain.
Fails ==
  /\ ret'.op \in {"seek", "tell", "flush"} /\ Failed
  /\ UNCHANGED <<kind, content, inp, pos, pushed>>
  /\ DrainsTo(content')

(***************************************************************************)
(* freopen and fclose: the stream starts afresh, or ends.  Bytes that      *)
(* waited are on the disk, or were given up because the flush had failed;  *)
(* fclose says so, freopen does not.                                       *)
(***************************************************************************)
Renew ==
  /\ ret'.op \in {"reopen", "close"}
  /\ ret'.op = "close" /\ ~Failed => disk' = content
  /\ \/ DrainsTo(content)
     \/ ret'.op = "reopen" /\ ret'.arg = "w" /\ disk' = <<>>
  /\ content' = disk'
  /\ pos' = 0 /\ pushed' = <<>>
  /\ UNCHANGED <<kind, inp>>

Next == \/ Read \/ ReadFails \/ Write \/ Unget \/ Seek \/ Tell \/ Flush
        \/ Fails \/ Renew

Spec == Init /\ [][Next]_vars
=============================================================================
