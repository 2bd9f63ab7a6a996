-------------------------------- MODULE File --------------------------------
(***************************************************************************)
(* One stdio stream: the buffer, the push-back area and the status bits of *)
(* mlibc::abstract_file (options/ansi/generic/file-io.cpp) over an fd_file *)
(* whose descriptor is a seekable file or a pipe.  Every call runs to its  *)
(* end under the stream's lock, so it is one action; what the kernel       *)
(* answers inside it (short reads and writes, errors) is a choice.         *)
(*                                                                         *)
(* The buffer is the sequence f.buf of its valid bytes, so __valid_limit   *)
(* is Len(f.buf).  An operator that models a member function returns the   *)
(* set of its possible outcomes [e, f, k]: the error it returns ("ok" for  *)
(* 0, "panic" for a failed __ensure), the stream and the kernel after it.  *)
(***************************************************************************)
EXTENDS ByteSeqs

CONSTANTS
  BufSize,      \* __buffer_size, 4096 in the code
  UngetSize,    \* ungetBufferSize, 8 in the code
  Written,      \* the byte sequences the program writes in one call
  NL,           \* the newline byte
  Inputs,       \* what a file holds, or a pipe delivers, at the start
  MaxReq,       \* bytes asked for by one read, at most
  MaxLen        \* bound: length of the file, and of what a pipe takes

VARIABLES
  f,    \* the stream
  k,    \* the kernel's side of the descriptor
  use,  \* what the program did since the last positioning: it may not read
        \* behind a write, nor write behind a read, without one
  ret   \* the last call: name, argument, error, result

vars == <<f, k, use, ret>>

Fresh == [buf |-> <<>>, unget |-> <<>>, offset |-> 0, io_offset |-> 0,
          dirty_begin |-> 0, dirty_end |-> 0, type |-> "unknown",
          bufmode |-> "unknown", eof |-> FALSE, error |-> FALSE]

\* The two returns of a member function, and "if (int e = ...; e) return e".
Ok(g, l) == {[e |-> "ok", f |-> g, k |-> l]}
Fail(err, g, l) == {[e |-> err, f |-> g, k |-> l]}
Then(rs, Op(_, _)) ==
  UNION {IF r.e = "ok" THEN Op(r.f, r.k) ELSE {r} : r \in rs}

Dirty(g) == g.dirty_begin # g.dirty_end
-----------------------------------------------------------------------------
(***************************************************************************)
(* The system calls, as fd_file uses them: read may return fewer bytes     *)
(* than asked for and returns none at the end only, write takes at least   *)
(* one byte, and each may fail.                                            *)
(***************************************************************************)
KernelInput(l) == IF l.kind = "file" THEN l.disk ELSE l.inp

io_read(l, max) ==
  IF ~l.open THEN {[e |-> "EBADF", k |-> l, data |-> <<>>]}
  ELSE LET left == Suffix(KernelInput(l), l.pos)
           most == Min({max, Len(left)})
       IN  {[e |-> "EIO", k |-> l, data |-> <<>>]} \cup
           {[e |-> "ok", k |-> [l EXCEPT !.pos = @ + n], data |-> Prefix(left, n)] :
              n \in Min({1, most})..most}

Store(l, bytes) ==
  IF l.kind = "file"
  THEN [l EXCEPT !.disk = Overlay(@, l.pos, bytes), !.pos = @ + Len(bytes)]
  ELSE [l EXCEPT !.disk = @ \o bytes]

io_write(l, bytes) ==
  IF ~l.open THEN {[e |-> "EBADF", k |-> l, n |-> 0]}
  ELSE {[e |-> "EIO", k |-> l, n |-> 0]} \cup
       {[e |-> "ok", k |-> Store(l, Prefix(bytes, n)), n |-> n] : n \in 1..Len(bytes)}

\* lseek: pipes answer ESPIPE, a position before the start EINVAL.
io_seek(l, off, whence) ==
  LET target == CASE whence = "SET" -> off
                  [] whence = "CUR" -> l.pos + off
                  [] whence = "END" -> Len(l.disk) + off
  IN  IF ~l.open THEN {[e |-> "EBADF", k |-> l]}
      ELSE IF l.kind = "pipe" THEN {[e |-> "ESPIPE", k |-> l]}
      ELSE IF target < 0 THEN {[e |-> "EINVAL", k |-> l]}
      ELSE {[e |-> "EIO", k |-> l], [e |-> "ok", k |-> [l EXCEPT !.pos = target]]}
-----------------------------------------------------------------------------
(***************************************************************************)
(* The private members of abstract_file.                                   *)
(***************************************************************************)
InitType(g, l) ==
  IF g.type # "unknown" THEN Ok(g, l)
  ELSE IF ~l.open THEN Fail("EBADF", g, l)
  ELSE Ok([g EXCEPT !.type = l.kind], l)

InitBufmode(g, l) ==
  IF g.bufmode # "unknown" THEN Ok(g, l)
  ELSE IF ~l.open THEN Fail("EBADF", g, l)
  ELSE Ok([g EXCEPT !.bufmode = IF l.tty THEN "line" ELSE "full"], l)

\* Mutant: the bytes written before an error are not taken off the dirty range.
WriteLoopRestart(g, l) ==
  LET todo == SubSeq(g.buf, g.io_offset + 1, g.dirty_end)
      Wrote(n) == [g EXCEPT !.io_offset = @ + n, !.dirty_begin = @ + n]
  IN  Ok(Wrote(Len(todo)), Store(l, todo)) \cup
      UNION {Fail("EIO", [g EXCEPT !.error = TRUE], Store(l, Prefix(todo, n))) :
               n \in 0..Len(todo) - 1}

\* The loop of _write_back: every byte is written, or an error cuts it short
\* behind n of them.
WriteLoop(g, l) ==
  LET todo == SubSeq(g.buf, g.io_offset + 1, g.dirty_end)
      Wrote(n) == [g EXCEPT !.io_offset = @ + n, !.dirty_begin = @ + n]
      Cut(n) == [Wrote(n) EXCEPT !.error = TRUE]
  IN  IF ~l.open THEN Fail("EBADF", Cut(0), l)
      ELSE Ok(Wrote(Len(todo)), Store(l, todo)) \cup
           UNION {Fail("EIO", Cut(n), Store(l, Prefix(todo, n))) : n \in 0..Len(todo) - 1}

SeekToDirty(g, l) ==
  IF g.io_offset = g.dirty_begin THEN Ok(g, l)
  ELSE IF g.type = "pipe" THEN Fail("ESPIPE", g, l)
  ELSE {[e |-> s.e, k |-> s.k,
         f |-> IF s.e = "ok" THEN [g EXCEPT !.io_offset = g.dirty_begin] ELSE g] :
           s \in io_seek(l, g.dirty_begin - g.io_offset, "CUR")}

WriteBack(g, l) ==
  Then(InitType(g, l),
       LAMBDA g1, l1 : IF Dirty(g1) THEN Then(SeekToDirty(g1, l1), WriteLoop)
                                    ELSE Ok(g1, l1))

Reset(g, l) ==
  Then(InitType(g, l),
       LAMBDA g1, l1 :
         IF Dirty(g1) \/ (g1.type = "pipe" /\ g1.offset # Len(g1.buf))
         THEN Fail("panic", g1, l1)
         ELSE Ok([g1 EXCEPT !.offset = 0, !.io_offset = 0, !.buf = <<>>], l1))

Purge(g) ==
  [g EXCEPT !.offset = 0, !.io_offset = 0, !.buf = <<>>,
            !.dirty_end = g.dirty_begin, !.unget = <<>>]

\* _save_pos, and the purge() that flush() calls unless it preserves the
\* unread bytes of a pipe.
SavePosAndPurge(g, l) ==
  IF g.bufmode = "no" \/ g.offset = g.io_offset THEN Ok(Purge(g), l)
  ELSE UNION {CASE s.e = "ok" -> Ok(Purge([g EXCEPT !.type = "file"]), s.k)
                [] s.e = "ESPIPE" -> Ok([g EXCEPT !.type = "pipe"], l)
                [] OTHER -> Fail(s.e, [g EXCEPT !.error = TRUE], l) :
                  s \in io_seek(l, g.offset - g.io_offset, "CUR")}

Flush(g, l) ==
  Then(Then(Then(IF Dirty(g) THEN WriteBack(g, l) ELSE Ok(g, l), InitType),
            InitBufmode),
       SavePosAndPurge)
-----------------------------------------------------------------------------
(***************************************************************************)
(* read().  The pushed-back bytes come first; then an unbuffered stream    *)
(* asks the kernel, a buffered one its buffer, filled anew when it is used *)
(* up.  The fill meets the end of the input by an early return ("end").    *)
(***************************************************************************)
FillFrom(g, l) ==
  {[e |-> IF s.e = "ok" /\ s.data = <<>> THEN "end" ELSE s.e,
    k |-> s.k,
    f |-> IF s.e # "ok" THEN [g EXCEPT !.error = TRUE]
          ELSE IF s.data = <<>> THEN [g EXCEPT !.eof = TRUE]
          ELSE [g EXCEPT !.buf = s.data, !.io_offset = Len(s.data)]] :
     s \in io_read(l, BufSize)}

Fill(g, l) ==
  IF g.offset # Len(g.buf) THEN Ok(g, l)
  ELSE Then(Then(WriteBack(g, l), Reset), FillFrom)

ReadDirect(g, l, head, rest) ==
  {[e |-> s.e, k |-> s.k, data |-> head \o s.data,
    f |-> IF s.e # "ok" THEN [g EXCEPT !.error = TRUE]
          ELSE IF s.data = <<>> THEN [g EXCEPT !.eof = TRUE] ELSE g] :
     s \in io_read(l, rest)}

ReadBuffered(g, l, head, rest) ==
  {CASE r.e = "ok" ->
          LET chunk == Prefix(Suffix(r.f.buf, r.f.offset),
                              Min({rest, Len(r.f.buf) - r.f.offset}))
          IN  [e |-> "ok", k |-> r.k, data |-> head \o chunk,
               f |-> [r.f EXCEPT !.offset = @ + Len(chunk)]]
     [] r.e = "end" -> [e |-> "ok", k |-> r.k, data |-> <<>>, f |-> r.f]
     [] OTHER -> [e |-> r.e, k |-> r.k, data |-> <<>>, f |-> r.f] :
       r \in Fill(g, l)}

ReadAll(g, l, max) ==
  UNION {LET head == Prefix(i.f.unget, Min({max, Len(i.f.unget)}))
             h == [i.f EXCEPT !.unget = Suffix(@, Len(head))]
             rest == max - Len(head)
         IN  IF i.e # "ok" THEN {[e |-> i.e, k |-> l, data |-> <<>>, f |-> g]}
             ELSE IF rest = 0
             THEN {[e |-> "ok", k |-> l, data |-> head, f |-> h]}
             ELSE IF h.bufmode = "no" THEN ReadDirect(h, l, head, rest)
             ELSE ReadBuffered(h, l, head, rest) :
           i \in InitBufmode(g, l)}

(***************************************************************************)
(* write().  A full buffer is written back first; the bytes then go behind *)
(* the offset, on a line-buffered stream up to the first newline, which    *)
(* writes the buffer back.                                                 *)
(***************************************************************************)
WriteDirect(g, l, bytes) ==
  {[e |-> s.e, k |-> s.k, n |-> s.n,
    f |-> IF s.e = "ok" THEN g ELSE [g EXCEPT !.error = TRUE]] :
     s \in IF Dirty(g) THEN {[e |-> "panic", k |-> l, n |-> 0]} ELSE io_write(l, bytes)}

\* memcpy, and the dirty range that now spans the new bytes too.
Buffer(g, bytes) ==
  LET end == g.offset + Len(bytes)
  IN  [g EXCEPT !.buf = Overlay(@, g.offset, bytes), !.offset = end,
                !.dirty_begin = IF Dirty(g) THEN Min({@, g.offset}) ELSE g.offset,
                !.dirty_end = IF Dirty(g) THEN Max({@, end}) ELSE end]

\* The bytes that one call takes: what fits, or the first line of it.
Chunk(g, bytes) ==
  LET fits == Prefix(bytes, Min({BufSize - g.offset, Len(bytes)}))
      nls == {i \in DOMAIN fits : g.bufmode = "line" /\ fits[i] = NL}
  IN  IF nls = {} THEN fits ELSE Prefix(fits, Min(nls))

WriteBuffered(g, l, bytes) ==
  LET chunk == Chunk(g, bytes)
      flush_line == g.bufmode = "line" /\ Last(chunk) = NL
      h == Buffer(g, chunk)
  IN  {[e |-> r.e, k |-> r.k, f |-> r.f, n |-> Len(chunk)] :
         r \in IF g.offset >= BufSize THEN Fail("panic", g, l)
               ELSE IF flush_line THEN WriteBack(h, l) ELSE Ok(h, l)}

MakeRoom(g, l) ==
  IF g.bufmode = "no" \/ g.offset # BufSize THEN Ok(g, l)
  ELSE Then(WriteBack(g, l), Reset)

WriteAll(g, l, bytes) ==
  UNION {IF r.e # "ok" THEN {[e |-> r.e, k |-> r.k, f |-> r.f, n |-> 0]}
         ELSE IF r.f.bufmode = "no" THEN WriteDirect(r.f, r.k, bytes)
         ELSE WriteBuffered(r.f, r.k, bytes) :
           r \in Then(InitBufmode(g, l), MakeRoom)}


\* seek() forgets the buffer once everything dirty is written back.
SeekTo(g, l, off, whence) ==
  Then(WriteBack(g, l),
       LAMBDA g1, l1 :
         UNION {CASE s.e = "ok" -> Ok([Purge(g1) EXCEPT !.eof = FALSE], s.k)
                  [] s.e = "ESPIPE" -> Fail("ESPIPE", [g1 EXCEPT !.type = "pipe"], l1)
                  [] OTHER -> Fail(s.e, g1, l1) :
                    s \in io_seek(l1, IF whence = "CUR" THEN off + g1.offset - g1.io_offset
                                                       ELSE off, whence)})
-----------------------------------------------------------------------------
(***************************************************************************)
(* What the program sees: Content is the file with the waiting bytes in    *)
(* place, Pos the position between its calls.                              *)
(***************************************************************************)
Waiting == SubSeq(f.buf, f.dirty_begin + 1, f.dirty_end)
Base == k.pos - f.io_offset

Content == IF k.kind = "file" THEN Overlay(k.disk, Base + f.dirty_begin, Waiting)
                              ELSE k.disk \o Waiting

Pos == IF k.kind = "file" THEN Base + f.offset
                          ELSE k.pos - (Len(f.buf) - f.offset)

A == INSTANCE AbstractFile
       WITH kind <- k.kind, content <- Content, disk <- k.disk, inp <- k.inp,
            pos <- Pos, pushed <- f.unget, ret <- ret
-----------------------------------------------------------------------------
(***************************************************************************)
(* The calls of the program.  C lets it turn from reading to writing only  *)
(* by a positioning call or at the end of the file, and back by a flush or *)
(* a positioning call; "use" keeps it to that.                             *)
(***************************************************************************)
Open == use # "closed"
MayRead == use \in {"fresh", "none", "read"}
MayWrite == use \in {"fresh", "none", "write"}

Return(op, arg, r, data) ==
  /\ f' = r.f
  /\ k' = r.k
  /\ ret' = [op |-> op, arg |-> arg, e |-> r.e, data |-> data]

setvbuf(mode) ==
  /\ use = "fresh"
  /\ f' = [f EXCEPT !.bufmode = mode]
  /\ UNCHANGED <<k, use, ret>>

read(n) ==
  /\ MayRead
  /\ \E r \in ReadAll(f, k, n) :
       /\ Return("read", n, r, r.data)
       /\ use' = IF r.e = "ok" /\ r.data = <<>> THEN "none" ELSE "read"

write(bytes) ==
  /\ MayWrite
  /\ (IF k.kind = "file" THEN Pos ELSE Len(Content)) + Len(bytes) <= MaxLen
  /\ \E r \in WriteAll(f, k, bytes) : Return("write", bytes, r, r.n)
  /\ use' = "write"

ungetc(c) ==
  /\ MayRead
  /\ IF Len(f.unget) + 1 > UngetSize
     THEN Return("unget", c, [e |-> "EOF", f |-> f, k |-> k], 0)
     ELSE Return("unget", c, [e |-> "ok", f |-> [f EXCEPT !.unget = <<c>> \o @], k |-> k], 0)
  /\ use' = "read"

fseek(off, whence) ==
  /\ Open
  /\ whence = "CUR" => Pos + off <= MaxLen
  /\ \E r \in SeekTo(f, k, off, whence) :
       /\ Return("seek", <<off, whence>>, r, 0)
       /\ use' = IF r.e = "ok" THEN "none" ELSE use

\* rewind() drops the error of its seek, and both status bits.
rewind ==
  /\ Open
  /\ \E r \in SeekTo(f, k, 0, "SET") :
       /\ Return("seek", <<0, "SET">>,
                 [r EXCEPT !.f.eof = FALSE, !.f.error = FALSE], 0)
       /\ use' = IF r.e = "ok" THEN "none" ELSE use

ftell ==
  /\ Open
  /\ \E s \in io_seek(k, 0, "CUR") :
       Return("tell", 0, [e |-> s.e, f |-> f, k |-> s.k],
              s.k.pos + f.offset - f.io_offset - Len(f.unget))
  /\ UNCHANGED use

fflush ==
  /\ Open
  /\ \E r \in Flush(f, k) :
       /\ Return("flush", 0, [r EXCEPT !.f.error = @ \/ r.e \notin {"ok", "ESPIPE"}], 0)
       /\ use' = IF r.e = "ok" /\ use = "write" THEN "none" ELSE use

(***************************************************************************)
(* freopen() of the same file: the result of the flush is not looked at;   *)
(* the descriptor is replaced by dup2, or, when open ("w" truncates) or    *)
(* dup2 fails, closed for good.                                            *)
(***************************************************************************)
freopen(mode) ==
  /\ Open /\ k.kind = "file"
  /\ \E r \in Flush(f, k), answer \in {"ok", "open", "dup2"} :
       LET disk == IF mode = "w" /\ answer # "open" THEN <<>> ELSE r.k.disk
           done == answer = "ok" /\ k.open
       IN  /\ Return("reopen", mode,
                     [e |-> IF done THEN "ok" ELSE "EIO",
                      f |-> [Purge(r.f) EXCEPT !.type = "unknown", !.bufmode = "unknown",
                                               !.eof = FALSE, !.error = FALSE],
                      k |-> [r.k EXCEPT !.disk = disk, !.pos = 0, !.open = done,
                                        !.tty = FALSE]], 0)
           /\ use' = "fresh"

\* fclose() reports the first error, and disposes of the stream whatever it is.
fclose ==
  /\ Open
  /\ \E r \in Flush(f, k), c \in {"ok", "EIO"} :
       Return("close", 0, [e |-> IF r.e = "ok" THEN c ELSE r.e, f |-> Fresh,
                           k |-> [r.k EXCEPT !.open = FALSE, !.pos = 0]], 0)
  /\ use' = "closed"

Init ==
  /\ f = Fresh
  /\ \E bytes \in Inputs, tty \in BOOLEAN :
       \/ k = [kind |-> "file", disk |-> bytes, inp |-> <<>>, pos |-> 0,
               open |-> TRUE, tty |-> FALSE] /\ ~tty
       \/ k = [kind |-> "pipe", disk |-> <<>>, inp |-> bytes, pos |-> 0,
               open |-> TRUE, tty |-> tty]
  /\ use = "fresh"
  /\ ret = [op |-> "none", arg |-> 0, e |-> "ok", data |-> 0]

SeekArgs == {<<0, "SET">>, <<1, "SET">>, <<-1, "CUR">>, <<0, "CUR">>, <<1, "CUR">>, <<0, "END">>}

Next ==
  \/ \E m \in {"no", "line", "full"} : setvbuf(m)
  \/ \E n \in 1..MaxReq : read(n)
  \/ \E bytes \in Written : write(bytes)
  \/ ungetc(NL)
  \/ \E s \in SeekArgs : fseek(s[1], s[2])
  \/ rewind
  \/ ftell
  \/ fflush
  \/ \E m \in {"r", "w"} : freopen(m)
  \/ fclose

Spec == Init /\ [][Next]_vars
-----------------------------------------------------------------------------
(***************************************************************************)
(* Properties                                                              *)
(***************************************************************************)

\* Whatever the kernel answers, and however often a call is repeated after an
\* error, the program sees one file with one position: every read returns the
\* next bytes, every accepted byte is written once and at its place, and after
\* a successful flush, seek or close none is missing on the disk.
ImplementsFile == A!Spec

=============================================================================
