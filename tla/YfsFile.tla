------------------------------ MODULE YfsFile ------------------------------
(***************************************************************************)
(* The bytes of a file under yfs_client::read, write and updatesize, which *)
(* work on the whole extent as a string.  Each runs with the file's lock   *)
(* held and is one step.  Sizes and offsets are small here; a byte is 0,   *)
(* which ends a C string, or one of Letters.                               *)
(***************************************************************************)
EXTENDS Naturals, Sequences

CONSTANTS Letters,   \* the bytes other than 0
          MaxSize    \* bound: offsets, sizes and file sizes

ASSUME YfsFileAssumption == Letters \subseteq Nat \ {0} /\ MaxSize \in Nat

VARIABLES content,  \* the file's extent
          last,     \* the last operation and what it was given
          buf       \* what the last read returned

fileVars == <<content, last, buf>>

Byte == Letters \cup {0}
Buffers == UNION {[1..n -> Byte] : n \in 0..MaxSize}
Zeros(n) == [i \in 1..n |-> 0]
Lower(i, j) == IF i < j THEN i ELSE j
NoOp == [op |-> "none"]

(* std::string::substr(pos, n) for pos within the string, and substr(pos). *)
substr(s, pos, n) == SubSeq(s, pos + 1, Lower(pos + n, Len(s)))
from(s, pos) == SubSeq(s, pos + 1, Len(s))

(* Every variable has its type; the file stays within the bound.           *)
FileTypeOK ==
  /\ content \in Buffers
  /\ buf \in Buffers
  /\ last.op \in {"none", "read", "write", "updatesize"}

FileInit == content = <<>> /\ last = NoOp /\ buf = <<>>

-----------------------------------------------------------------------------
(* The size bytes that write puts in the file: std::string(buf) ends       *)
(* before the first 0 and 0 bytes are appended up to size.  (If none of    *)
(* them is 0 the string runs on past them, which write cuts off again.)    *)
Padded(data) ==
  [i \in 1..Len(data) |-> IF \E j \in 1..i : data[j] = 0 THEN 0 ELSE data[i]]

(* yfs_client::write, on a file that is empty, written past its end, up to *)
(* or over its end, or in its middle.  The slip before it leaves the gap   *)
(* in front of the data out.                                               *)
WrittenUnfilled(s, data, off) ==
  LET d == Padded(data) IN
  IF Len(s) = 0 THEN d
  ELSE IF off > Len(s) THEN s \o d
  ELSE IF off + Len(d) >= Len(s) THEN substr(s, 0, off) \o d
  ELSE substr(s, 0, off) \o d \o from(s, off + Len(d))

Written(s, data, off) ==
  LET d == Padded(data) IN
  IF Len(s) = 0 THEN d
  ELSE IF off > Len(s) THEN s \o Zeros(off - Len(s)) \o d
  ELSE IF off + Len(d) >= Len(s) THEN substr(s, 0, off) \o d
  ELSE substr(s, 0, off) \o d \o from(s, off + Len(d))

write(data, off) ==
  /\ off + Len(data) <= MaxSize
  /\ content' = Written(content, data, off)
  /\ last' = [op |-> "write", data |-> data, off |-> off]
  /\ UNCHANGED buf

(* yfs_client::updatesize: the size of the attributes is the content's.    *)
Resized(s, n) == IF n > Len(s) THEN s \o Zeros(n - Len(s)) ELSE substr(s, 0, n)

updatesize(n) ==
  /\ content' = Resized(content, n)
  /\ last' = [op |-> "updatesize", size |-> n]
  /\ UNCHANGED buf

(* yfs_client::read.                                                       *)
ReadOut(s, size, off) == IF off < Len(s) THEN substr(s, off, size) ELSE <<>>

read(size, off) ==
  /\ buf' = ReadOut(content, size, off)
  /\ last' = [op |-> "read", size |-> size, off |-> off]
  /\ UNCHANGED content

FileNext ==
  \/ \E data \in Buffers, off \in 0..MaxSize : write(data, off)
  \/ \E n \in 0..MaxSize : updatesize(n)
  \/ \E size, off \in 0..MaxSize : read(size, off)

FileSpec == FileInit /\ [][FileNext]_fileVars

-----------------------------------------------------------------------------
(* Byte i of a file, counting from 0, as a reader sees it: 0 in a gap that *)
(* nobody wrote.                                                           *)
At(s, i) == IF i < Len(s) THEN s[i + 1] ELSE 0

(* What writing data at off should make of s, byte by byte (fuse.cc:206).  *)
RightlyWritten(s, data, off, t) ==
  /\ Len(t) = (IF off + Len(data) > Len(s) THEN off + Len(data) ELSE Len(s))
  /\ \A i \in 0..Len(t) - 1 :
       At(t, i) = IF i >= off /\ i < off + Len(data) THEN data[i - off + 1] ELSE At(s, i)

(* A write puts the given bytes at the given offset, lets the file grow if *)
(* it has to, fills a gap with 0 and leaves every other byte alone, when   *)
(* the data has no 0 byte and the file is not empty or the write starts at *)
(* its beginning.  (Data is cut at a 0 byte, yfs_client.cc:339, and the    *)
(* offset is not looked at in an empty file, :353.)                        *)
WritesText ==
  [][last'.op = "write" /\ (\A i \in 1..Len(last'.data) : last'.data[i] # 0)
                        /\ (content # <<>> \/ last'.off = 0)
       => RightlyWritten(content, last'.data, last'.off, content')]_fileVars

(* A new size keeps the bytes below it and adds 0 bytes above the old end. *)
Resizes ==
  [][last'.op = "updatesize" =>
       /\ Len(content') = last'.size
       /\ \A i \in 0..last'.size - 1 : At(content', i) = At(content, i)]_fileVars

(* A read returns the bytes from off, as many as asked for and there are.  *)
ReadsBytes ==
  [][last'.op = "read" =>
       /\ Len(buf') = (IF last'.off >= Len(content) THEN 0
                       ELSE Lower(last'.size, Len(content) - last'.off))
       /\ \A i \in 1..Len(buf') : buf'[i] = At(content, last'.off + i - 1)]_fileVars
=============================================================================
