------------------------------ MODULE Streams -------------------------------
(***************************************************************************)
(* The streams of io: MemoryStream over bytes of somebody else,            *)
(* MemoryBufferStream over an ArrayList, with a position for reading and   *)
(* one for writing, FileStream over a FILE of the C library, and the loop  *)
(* that copies one stream to another (util.cpp). Positions count bytes.    *)
(* rep has the streams, which kind is in use, and got, what the last read  *)
(* gave. ref has bytes that are written and read at positions of its own.  *)
(***************************************************************************)
EXTENDS Integers, SequencesExt

CONSTANTS Bytes, Room, Source,
          PageElements    \* bytes in a page of the ArrayList
VARIABLES rep, ref, fault

(* The ArrayList of the buffer, with its blocks.                           *)
List == INSTANCE ArrayLists WITH Data <- Bytes, rep <- rep.buffer, ref <- ref.buffer

vars == <<rep, ref, fault>>

Modes == {"Read", "ReadWrite", "WriteCreate", "ReadWriteCreate", "AppendCreate", "ReadAppendCreate"}
Reads(mode) == mode \in {"Read", "ReadWrite", "ReadWriteCreate", "ReadAppendCreate"}
Writes(mode) == mode # "Read"
Appends(mode) == mode \in {"AppendCreate", "ReadAppendCreate"}
Truncates(mode) == mode \in {"WriteCreate", "ReadWriteCreate"}

Closed == [open |-> FALSE, mode |-> "Read", real |-> "Read", pos |-> 0, eof |-> FALSE, last |-> "seek"]

Init ==
    /\ \E use \in {"memory", "file"} :
         rep = [use |-> use, buffer |-> List!Empty, rp |-> 0, wp |-> 0, source |-> 0,
                file |-> Closed, disk |-> <<>>, got |-> <<>>]
    /\ ref = [buffer |-> <<>>, rp |-> 0, wp |-> 0, source |-> 0, disk |-> <<>>, pos |-> 0, got |-> <<>>]
    /\ fault = "none"

(* What is at a position of a buffer, and a buffer with data written there. *)
Chunk(bytes, pos, n) == SubSeq(bytes, pos + 1, IF pos + n > Len(bytes) THEN Len(bytes) ELSE pos + n)
Overwritten(bytes, pos, data) ==
    SubSeq(bytes, 1, pos) \o data \o SubSeq(bytes, pos + Len(data) + 1, Len(bytes))

Pieces == UNION {[1 .. n -> Bytes] : n \in 0 .. 2}

-----------------------------------------------------------------------------
(* MemoryStream.                                                            *)
data_available(r) == Len(Source) - r.source
MemoryRead(r, max) == Chunk(Source, r.source, max)
MemoryReadAfter(r, max) == [r EXCEPT !.source = @ + (IF data_available(r) < max THEN data_available(r) ELSE max)]
MemorySeek(r, pos) == IF pos > Len(Source) THEN r ELSE [r EXCEPT !.source = pos]

(* MemoryBufferStream. A position behind the last byte is not accepted.     *)
size(r) == r.buffer.size
seek_read(r, pos) == IF pos >= size(r) THEN r ELSE [r EXCEPT !.rp = pos]
seek_write(r, pos) == IF pos >= size(r) THEN r ELSE [r EXCEPT !.wp = pos]
clear(r) == [r EXCEPT !.buffer = List!Empty, !.rp = 0, !.wp = 0]

read(r, max) ==
    LET chunk == Chunk(List!Contents(r.buffer.blocks), r.rp, max)
    IN  [r EXCEPT !.rp = @ + Len(chunk), !.got = chunk]

(* The list is made larger, one byte at a time, which invalidates the       *)
(* positions, then they are taken again, then the bytes are overwritten.    *)
Lost == -1
resize(r, n) ==
    [r EXCEPT !.buffer = FoldLeft(LAMBDA list, i : List!inserted(list, <<List!Filler>>, list.size),
                                  @, [i \in 1 .. n - size(r) |-> i]),
              !.rp = Lost, !.wp = Lost]

write(r, data) ==
    LET larger == r.wp + Len(data) - size(r)
        room   == IF larger > 0 THEN seek_read(seek_write(resize(r, size(r) + larger), r.wp), r.rp) ELSE r
    IN  [room EXCEPT !.buffer.blocks = List!Overwrite(@, room.wp, data), !.wp = @ + Len(data)]

(* ArrayList::insert, and both positions taken again where they were.       *)
insert(r, data) == [r EXCEPT !.buffer = List!inserted(@, data, r.wp), !.wp = @ + Len(data)]

-----------------------------------------------------------------------------
(* What is written, inserted and read in ref. Bytes inserted before the     *)
(* position for reading move it along with the byte it is at.               *)
Put(r, data) == [r EXCEPT !.buffer = Overwritten(@, r.wp, data), !.wp = @ + Len(data)]
Insert(r, data) ==
    [r EXCEPT !.buffer = SubSeq(@, 1, r.wp) \o data \o SubSeq(@, r.wp + 1, Len(@)),
              !.wp = @ + Len(data), !.rp = IF r.wp < @ THEN @ + Len(data) ELSE @]

ReadMemory ==
    \E max \in 1 .. 2 :
      LET next == Chunk(Source, ref.source, max)
      IN  /\ rep' = [MemoryReadAfter(rep, max) EXCEPT !.got = MemoryRead(rep, max)]
          /\ ref' = [ref EXCEPT !.source = @ + Len(next), !.got = next]
          /\ UNCHANGED fault

SeekMemory ==
    \E pos \in 0 .. Len(Source) + 1 :
      /\ rep' = MemorySeek(rep, pos)
      /\ ref' = [ref EXCEPT !.source = IF pos <= Len(Source) THEN pos ELSE @]
      /\ UNCHANGED fault

BufferRead ==
    \E max \in 1 .. 2 :
      LET next == Chunk(ref.buffer, ref.rp, max)
      IN  /\ rep.rp # size(rep)
          /\ rep' = read(rep, max)
          /\ ref' = [ref EXCEPT !.rp = @ + Len(next), !.got = next]
          /\ UNCHANGED fault

BufferSeek ==
    \E pos \in 0 .. Room :
      /\ \/ rep' = seek_read(rep, pos) /\ ref' = [ref EXCEPT !.rp = IF pos < Len(ref.buffer) THEN pos ELSE @]
         \/ rep' = seek_write(rep, pos) /\ ref' = [ref EXCEPT !.wp = IF pos < Len(ref.buffer) THEN pos ELSE @]
      /\ UNCHANGED fault

BufferWrite ==
    \E data \in Pieces :
      /\ rep.wp + Len(data) <= Room
      /\ rep' = write(rep, data) /\ ref' = Put(ref, data) /\ UNCHANGED fault

(* In the middle of a block, the ArrayList makes the gap elsewhere than the *)
(* bytes go unless they are as many as follow, and writes past its end when *)
(* these are more. Inserted before the position for reading, bytes push     *)
(* some that were read already behind it.                                   *)
BufferInsert ==
    \E data \in Pieces \ {<<>>} :
      LET split == List!IsSplit(rep.wp)
          m     == List!Follow(rep.buffer.blocks, rep.wp)
          n     == Len(data)
      IN  /\ size(rep) + n <= Room
          /\ IF split /\ rep.wp + 2 * m > size(rep) + n
             THEN fault' = "moved past the end" /\ UNCHANGED <<rep, ref>>
             ELSE /\ rep' = insert(rep, data) /\ ref' = Insert(ref, data)
                  /\ fault' = CASE split /\ m # n -> "gap elsewhere"
                                [] rep.wp < rep.rp -> "read twice"
                                [] OTHER -> fault

BufferClear ==
    /\ rep' = clear(rep)
    /\ ref' = [ref EXCEPT !.buffer = <<>>, !.rp = 0, !.wp = 0]
    /\ UNCHANGED fault

(* read_until_event from the memory to the buffer: until the memory says    *)
(* EndOfStream. The length it returns counts every byte twice.              *)
read_until_event ==
    /\ rep.wp + data_available(rep) <= Room /\ data_available(rep) > 0
    /\ rep' = [write(rep, MemoryRead(rep, data_available(rep))) EXCEPT !.source = Len(Source)]
    /\ ref' = [Put(ref, Chunk(Source, ref.source, Len(Source))) EXCEPT !.source = Len(Source)]
    /\ UNCHANGED fault

-----------------------------------------------------------------------------
(* FileStream. open and reopen of the C library; a mode that cannot create  *)
(* needs the file to be there, which it is. A caller asks is_readable or    *)
(* is_writable before it reads or writes. pos in ref is where the next read *)
(* or write goes; what is appended goes to the end.                         *)
Opened(mode, known) ==
    [open |-> TRUE, mode |-> known, real |-> mode, pos |-> 0, eof |-> FALSE, last |-> "seek"]
DiskAfterOpen(disk, mode) == IF Truncates(mode) THEN <<>> ELSE disk
OpenIn(mode, known) ==
    /\ rep' = [rep EXCEPT !.file = Opened(mode, known), !.disk = DiskAfterOpen(@, mode)]
    /\ ref' = [ref EXCEPT !.pos = 0, !.disk = DiskAfterOpen(@, mode)]

open == \E mode \in Modes : ~rep.file.open /\ OpenIn(mode, mode) /\ UNCHANGED fault

(* reopen does not note the new mode: what is_readable and is_writable say  *)
(* from then on is about the old one.                                       *)
reopen ==
    \E mode \in Modes :
      /\ rep.file.open
      /\ OpenIn(mode, rep.file.mode)
      /\ fault' = IF mode # rep.file.mode THEN "reopened in another mode" ELSE fault

close(f) == [f EXCEPT !.open = FALSE]
is_readable(f) == f.open /\ Reads(f.mode)
is_writable(f) == f.open /\ Writes(f.mode)

Close == rep' = [rep EXCEPT !.file = close(@)] /\ UNCHANGED <<ref, fault>>

seek(f, pos) == [f EXCEPT !.pos = pos, !.eof = FALSE, !.last = "seek"]

FileSeek ==
    /\ rep.file.open
    /\ \E pos \in 0 .. Len(rep.disk) :
         rep' = [rep EXCEPT !.file = seek(@, pos)] /\ ref' = [ref EXCEPT !.pos = pos]
    /\ UNCHANGED fault

(* fread meets the end when it asks for more than there is. C wants a seek  *)
(* between a write and a read, in either order, and says nothing of what    *)
(* comes of them otherwise: here they do nothing.                           *)
FileRead ==
    \E n \in 1 .. 2 :
      LET f     == rep.file
          bytes == IF f.last = "write" THEN <<>> ELSE Chunk(rep.disk, f.pos, n)
          next  == Chunk(ref.disk, ref.pos, n)
      IN  /\ is_readable(f) /\ ~f.eof
          /\ rep' = [rep EXCEPT !.got = bytes,
                                !.file = [f EXCEPT !.pos = f.pos + Len(bytes), !.last = "read",
                                                   !.eof = f.pos + n > Len(rep.disk)]]
          /\ ref' = [ref EXCEPT !.pos = @ + Len(next), !.got = next]
          /\ fault' = IF f.last = "write" THEN "read after write" ELSE fault

(* A stream that has met the end does not write any more: a file that was   *)
(* read to the end cannot be appended to before a seek.                     *)
FileWrite ==
    \E data \in Pieces \ {<<>>} :
      LET f     == rep.file
          at    == IF Appends(f.real) THEN Len(rep.disk) ELSE f.pos
          there == IF Appends(f.real) THEN Len(ref.disk) ELSE ref.pos
      IN  /\ is_writable(f) /\ there + Len(data) <= 2
          /\ rep' = IF f.eof \/ f.last = "read" THEN rep
                    ELSE [rep EXCEPT !.disk = Overwritten(@, at, data),
                                     !.file = [f EXCEPT !.pos = at + Len(data), !.last = "write"]]
          /\ ref' = [ref EXCEPT !.disk = Overwritten(@, there, data), !.pos = there + Len(data)]
          /\ fault' = CASE f.eof -> "not written at the end"
                        [] ~f.eof /\ f.last = "read" -> "write after read"
                        [] OTHER -> fault

Next ==
    /\ fault = "none"
    /\ \/ /\ rep.use = "memory"
          /\ \/ ReadMemory \/ SeekMemory \/ read_until_event
             \/ BufferRead \/ BufferSeek \/ BufferWrite \/ BufferInsert \/ BufferClear
       \/ rep.use = "file" /\ (open \/ reopen \/ Close \/ FileSeek \/ FileRead \/ FileWrite)

Spec == Init /\ [][Next]_vars

-----------------------------------------------------------------------------
(* Positions stay inside and the blocks of the buffer whole, whatever it    *)
(* went through; a file is taken for readable and writable exactly if it is.*)
ObjectsSound ==
    fault = "none" =>
      /\ List!BlocksSound
      /\ rep.rp \in 0 .. size(rep) /\ rep.wp \in 0 .. size(rep)
      /\ data_available(rep) >= 0
      /\ rep.file.open => /\ is_readable(rep.file) <=> Reads(rep.file.real)
                          /\ is_writable(rep.file) <=> Writes(rep.file.real)

(* What was written is there, at the place it was written to, and a read    *)
(* gives the bytes that come next.                                          *)
Represents ==
    fault = "none" =>
      /\ List!Contents(rep.buffer.blocks) = ref.buffer /\ rep.disk = ref.disk
      /\ rep.rp = ref.rp /\ rep.wp = ref.wp /\ rep.got = ref.got
=============================================================================
