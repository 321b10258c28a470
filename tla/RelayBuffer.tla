---------------------------- MODULE RelayBuffer ----------------------------
(***************************************************************************)
(* The byte buffer of one direction of a relayed connection                *)
(* (irodori-proxy/src/forwarder.rs, struct Buffer).                        *)
(*                                                                         *)
(* A buffer is a record: `data` holds Cap cells, the cells from read_pos   *)
(* to write_pos - 1 are the bytes not yet passed on, and the cells from    *)
(* write_pos on are free.  A byte is the position it had in the stream of  *)
(* the peer that sent it, so that loss, duplication and reordering show in *)
(* the contents and not only in the counters.                              *)
(***************************************************************************)
EXTENDS Integers

CONSTANT Cap              \* Capacity of a buffer: Buffer::new(32768)

ASSUME CapAssumption == Cap \in Nat \ {0}

\* The values a buffer can have: positions are usize, cells start as 0.
BufferType == [data : [0 .. Cap - 1 -> Nat], read_pos : Nat, write_pos : Nat]

NewBuffer == [data |-> [i \in 0 .. Cap - 1 |-> 0], read_pos |-> 0, write_pos |-> 0]

\* Slip: the last byte waits for one more.
IsEmptyOffByOne(b) == b.read_pos + 1 >= b.write_pos
IsEmpty(b) == b.read_pos = b.write_pos

AvailableWrite(b) == Cap - b.write_pos

\* Number of bytes waiting in the buffer: the length of read_slice().
Waiting(b) == b.write_pos - b.read_pos

\* A source put n bytes into write_slice(), the first of them being byte
\* `first` of its stream, and did_write(n) counted them.
Fill(b, first, n) ==
  [data      |-> [i \in 0 .. Cap - 1 |->
                    IF b.write_pos <= i /\ i < b.write_pos + n
                      THEN first + (i - b.write_pos)
                      ELSE b.data[i]],
   read_pos  |-> b.read_pos,
   write_pos |-> b.write_pos + n]

\* did_read(n): a sink took n bytes; an emptied buffer starts over at 0.
DidRead(b, n) ==
  IF b.read_pos + n = b.write_pos
    THEN [data |-> b.data, read_pos |-> 0, write_pos |-> 0]
    ELSE [data |-> b.data, read_pos |-> b.read_pos + n, write_pos |-> b.write_pos]

\* Slips: the copy forgotten; the subtraction the wrong way round.
CompactWithoutCopy(b) ==
  IF b.read_pos > 0
    THEN [data |-> b.data, read_pos |-> 0, write_pos |-> Waiting(b)]
    ELSE b
CompactSwapped(b) ==
  IF b.read_pos > 0
    THEN [data |-> b.data, read_pos |-> 0, write_pos |-> b.read_pos - b.write_pos]
    ELSE b

\* compact(): move the waiting bytes to the front.  copy_within leaves the
\* cells behind the moved bytes as they were.
Compact(b) ==
  IF b.read_pos > 0
    THEN [data      |-> [i \in 0 .. Cap - 1 |->
                           IF i < Waiting(b) THEN b.data[b.read_pos + i] ELSE b.data[i]],
          read_pos  |-> 0,
          write_pos |-> Waiting(b)]
    ELSE b

\* The first n bytes of read_slice(), in the order a sink gets them.
ReadSlice(b, n) == [i \in 1 .. n |-> b.data[b.read_pos + i - 1]]

\* The positions are within the allocation and the waiting cells hold
\* consecutive bytes, the next one to pass on being byte `first`.
Holds(b, first) ==
  /\ b.read_pos <= b.write_pos
  /\ b.write_pos <= Cap
  /\ \A i \in 0 .. Cap - 1 :
       (b.read_pos <= i /\ i < b.write_pos) => b.data[i] = first + (i - b.read_pos)
=============================================================================
