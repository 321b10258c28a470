-------------------------- MODULE ForwarderProofs --------------------------
(***************************************************************************)
(* Proofs about the forwarder: about Relay, for every capacity, socket     *)
(* size and stream length, and about Forwarder, for any set of connections *)
(* and any size of the blocking pool.                                      *)
(*                                                                         *)
(* The inductive invariant of a relay is the type invariant with InOrder,  *)
(* BufferIsTheGap and EofAfterLastByte.  BufferIsTheGap is what makes it   *)
(* inductive: InOrder alone does not say what the next write will hand     *)
(* over, and the positions of Buffer stay natural numbers only because     *)
(* read_pos never passes write_pos.                                        *)
(***************************************************************************)
EXTENDS Relay, Forwarder, SequenceTheorems, FiniteSetTheorems, TLAPS

-----------------------------------------------------------------------------
(* The buffer. *)

\* A new buffer is empty and waits for byte 1.
LEMMA NewBufferHolds ==
  /\ NewBuffer \in BufferType
  /\ Holds(NewBuffer, 1)
  /\ Waiting(NewBuffer) = 0
  BY CapAssumption DEF NewBuffer, BufferType, Holds, Waiting

\* write_slice() and did_write(): the bytes read go behind the waiting ones.
LEMMA FillHolds ==
  ASSUME NEW b \in BufferType, NEW f \in Nat, Holds(b, f),
         NEW n \in 1 .. AvailableWrite(b)
  PROVE  /\ Fill(b, f + Waiting(b), n) \in BufferType
         /\ Holds(Fill(b, f + Waiting(b), n), f)
         /\ Waiting(Fill(b, f + Waiting(b), n)) = Waiting(b) + n
  <1>1. b.read_pos \in Nat /\ b.write_pos \in Nat /\ b.read_pos <= b.write_pos
        /\ b.data \in [0 .. Cap - 1 -> Nat]
    BY DEF BufferType, Holds
  <1>2. n \in Nat /\ n >= 1 /\ b.write_pos + n <= Cap /\ Cap \in Nat
    BY <1>1, CapAssumption DEF AvailableWrite
  <1>3. PICK c : c = Fill(b, f + Waiting(b), n)
    OBVIOUS
  <1>4. /\ c.read_pos = b.read_pos
        /\ c.write_pos = b.write_pos + n
        /\ c.data = [i \in 0 .. Cap - 1 |->
                       IF b.write_pos <= i /\ i < b.write_pos + n
                         THEN f + Waiting(b) + (i - b.write_pos)
                         ELSE b.data[i]]
    BY <1>3 DEF Fill
  <1>5. \A i \in 0 .. Cap - 1 :
          c.data[i] = IF b.write_pos <= i /\ i < b.write_pos + n
                        THEN f + (i - b.read_pos) ELSE b.data[i]
    BY <1>4, <1>1, <1>2 DEF Waiting
  <1>6. c.data \in [0 .. Cap - 1 -> Nat]
    <2>1. ASSUME NEW i \in 0 .. Cap - 1 PROVE c.data[i] \in Nat
      <3>1. CASE b.write_pos <= i /\ i < b.write_pos + n
        BY <3>1, <1>5, <1>1
      <3>2. CASE ~(b.write_pos <= i /\ i < b.write_pos + n)
        BY <3>2, <1>5, <1>1
      <3>3. QED BY <3>1, <3>2
    <2>2. c.data = [i \in 0 .. Cap - 1 |-> c.data[i]]
      BY <1>4
    <2>3. QED BY <2>1, <2>2
  <1>7. c \in BufferType
    BY <1>3, <1>6, <1>4, <1>1, <1>2 DEF BufferType, Fill
  <1>8. Holds(c, f)
    <2>1. c.read_pos <= c.write_pos /\ c.write_pos <= Cap
      BY <1>4, <1>1, <1>2
    <2>2. ASSUME NEW i \in 0 .. Cap - 1, c.read_pos <= i, i < c.write_pos
          PROVE  c.data[i] = f + (i - c.read_pos)
      <3>1. CASE i < b.write_pos
        BY <2>2, <3>1, <1>4, <1>5, <1>1, <1>2 DEF Holds
      <3>2. CASE i >= b.write_pos
        BY <2>2, <3>2, <1>4, <1>5, <1>1, <1>2
      <3>3. QED BY <3>1, <3>2, <1>1
    <2>3. QED BY <2>1, <2>2 DEF Holds
  <1>9. Waiting(c) = Waiting(b) + n
    BY <1>4, <1>1, <1>2 DEF Waiting
  <1>10. QED BY <1>3, <1>7, <1>8, <1>9

\* did_read(): the waiting bytes left are the ones behind those passed on.
LEMMA DidReadHolds ==
  ASSUME NEW b \in BufferType, NEW f \in Nat, Holds(b, f), NEW n \in 1 .. Waiting(b)
  PROVE  /\ DidRead(b, n) \in BufferType
         /\ Holds(DidRead(b, n), f + n)
         /\ Waiting(DidRead(b, n)) = Waiting(b) - n
  <1>1. b.read_pos \in Nat /\ b.write_pos \in Nat /\ b.write_pos <= Cap /\ Cap \in Nat
        /\ b.data \in [0 .. Cap - 1 -> Nat] /\ n \in Nat /\ b.read_pos + n <= b.write_pos
    BY CapAssumption DEF BufferType, Holds, Waiting
  <1>2. CASE b.read_pos + n = b.write_pos
    <2>1. /\ DidRead(b, n).read_pos = 0
          /\ DidRead(b, n).write_pos = 0
          /\ DidRead(b, n) \in BufferType
      BY <1>1, <1>2 DEF DidRead, BufferType
    <2>2. QED BY <2>1, <1>1, <1>2 DEF Holds, Waiting
  <1>3. CASE b.read_pos + n # b.write_pos
    <2>1. /\ DidRead(b, n).read_pos = b.read_pos + n
          /\ DidRead(b, n).write_pos = b.write_pos
          /\ DidRead(b, n).data = b.data
          /\ DidRead(b, n) \in BufferType
      BY <1>1, <1>3 DEF DidRead, BufferType
    <2>2. ASSUME NEW i \in 0 .. Cap - 1, b.read_pos + n <= i, i < b.write_pos
          PROVE  b.data[i] = (f + n) + (i - (b.read_pos + n))
      <3>1. b.data[i] = f + (i - b.read_pos)
        BY <2>2, <1>1 DEF Holds
      <3>2. QED BY <3>1, <1>1
    <2>3. Holds(DidRead(b, n), f + n)
      BY <2>1, <2>2, <1>1 DEF Holds
    <2>4. Waiting(DidRead(b, n)) = Waiting(b) - n
      BY <2>1, <1>1 DEF Waiting
    <2>5. QED BY <2>1, <2>3, <2>4
  <1>4. QED BY <1>2, <1>3

\* compact(): moving the waiting bytes to the front changes none of them.
LEMMA CompactHolds ==
  ASSUME NEW b \in BufferType, NEW f \in Nat, Holds(b, f)
  PROVE  /\ Compact(b) \in BufferType
         /\ Holds(Compact(b), f)
         /\ Waiting(Compact(b)) = Waiting(b)
  <1>1. b.read_pos \in Nat /\ b.write_pos \in Nat /\ b.read_pos <= b.write_pos
        /\ b.write_pos <= Cap /\ Cap \in Nat /\ b.data \in [0 .. Cap - 1 -> Nat]
    BY CapAssumption DEF BufferType, Holds
  <1>2. CASE b.read_pos > 0
    <2>1. /\ Compact(b).read_pos = 0
          /\ Compact(b).write_pos = b.write_pos - b.read_pos
          /\ Compact(b).data = [i \in 0 .. Cap - 1 |->
                                  IF i < Waiting(b) THEN b.data[b.read_pos + i] ELSE b.data[i]]
      BY <1>1, <1>2 DEF Compact, Waiting
    <2>2. \A i \in 0 .. Cap - 1 : i < Waiting(b) => b.read_pos + i \in 0 .. Cap - 1
      BY <1>1 DEF Waiting
    <2>3. Compact(b).data \in [0 .. Cap - 1 -> Nat]
      BY <2>1, <2>2, <1>1
    <2>4. Compact(b) \in BufferType
      BY <2>3, <1>1, <1>2 DEF BufferType, Compact, Waiting
    <2>5. Holds(Compact(b), f)
      <3> SUFFICES ASSUME NEW i \in 0 .. Cap - 1, i < b.write_pos - b.read_pos
                   PROVE  Compact(b).data[i] = f + i
        BY <2>1, <1>1 DEF Holds
      <3>1. Compact(b).data[i] = b.data[b.read_pos + i]
        BY <2>1, <1>1 DEF Waiting
      <3>2. /\ b.read_pos + i \in 0 .. Cap - 1
            /\ b.read_pos <= b.read_pos + i
            /\ b.read_pos + i < b.write_pos
        BY <1>1
      <3>3. b.data[b.read_pos + i] = f + ((b.read_pos + i) - b.read_pos)
        BY <3>2 DEF Holds
      <3>4. QED BY <3>1, <3>3, <1>1
    <2>6. QED BY <2>1, <2>4, <2>5, <1>1 DEF Waiting
  <1>3. CASE ~(b.read_pos > 0)
    BY <1>3 DEF Compact
  <1>4. QED BY <1>2, <1>3

\* read_slice(): a sink is handed the next bytes of the stream, in order.
LEMMA ReadSliceHolds ==
  ASSUME NEW b \in BufferType, NEW f \in Nat, Holds(b, f), NEW n \in 0 .. Waiting(b)
  PROVE  /\ ReadSlice(b, n) \in Seq(Nat)
         /\ Len(ReadSlice(b, n)) = n
         /\ \A i \in 1 .. n : ReadSlice(b, n)[i] = f + i - 1
         /\ ReadSlice(b, n) = [i \in 1 .. n |-> f + i - 1]
  <1>1. b.read_pos \in Nat /\ b.write_pos \in Nat /\ b.read_pos <= b.write_pos
        /\ b.write_pos <= Cap /\ Cap \in Nat /\ b.data \in [0 .. Cap - 1 -> Nat]
        /\ n \in Nat /\ b.read_pos + n <= b.write_pos
    BY CapAssumption DEF BufferType, Holds, Waiting
  <1>2. \A i \in 1 .. n : /\ b.read_pos + i - 1 \in 0 .. Cap - 1
                          /\ b.data[b.read_pos + i - 1] = f + i - 1
    <2> SUFFICES ASSUME NEW i \in 1 .. n
                 PROVE  /\ b.read_pos + i - 1 \in 0 .. Cap - 1
                        /\ b.data[b.read_pos + i - 1] = f + i - 1
      OBVIOUS
    <2>1. /\ b.read_pos + i - 1 \in 0 .. Cap - 1
          /\ b.read_pos <= b.read_pos + i - 1
          /\ b.read_pos + i - 1 < b.write_pos
      BY <1>1
    <2>2. b.data[b.read_pos + i - 1] = f + ((b.read_pos + i - 1) - b.read_pos)
      BY <2>1 DEF Holds
    <2>3. QED BY <2>1, <2>2, <1>1
  <1>3. ReadSlice(b, n) = [i \in 1 .. n |-> f + i - 1]
    BY <1>2 DEF ReadSlice
  <1>4. [i \in 1 .. n |-> f + i - 1] \in Seq(Nat) /\ Len([i \in 1 .. n |-> f + i - 1]) = n
    BY SMTT(30), <1>1
  <1>5. QED BY <1>3, <1>4

-----------------------------------------------------------------------------
(* The invariant. *)

\* The loop has stopped exactly when the relay has an outcome.
DoneIffEnded == (pc = "done") <=> Ended

IInv ==
  /\ TypeOK
  /\ InOrder
  /\ BufferIsTheGap
  /\ EofAfterLastByte
  /\ DoneIffEnded

Steps == {"select", "writeRemote", "readClient", "writeClient", "readRemote", "endTurn"}

\* What the invariant says of the data of the two directions.
DataInv ==
  /\ buf \in [Dirs -> BufferType]
  /\ sent \in [Dirs -> Nat]
  /\ taken \in [Dirs -> Nat]
  /\ out \in [Dirs -> Seq(Nat)]
  /\ InOrder
  /\ BufferIsTheGap

\* The sizes of a buffer that is in order are natural numbers.
LEMMA SizesAreNat ==
  ASSUME NEW b \in BufferType, NEW f, Holds(b, f)
  PROVE  Waiting(b) \in Nat /\ AvailableWrite(b) \in Nat
  BY CapAssumption DEF BufferType, Holds, Waiting, AvailableWrite

\* A sequence that counts from 1, followed by one that counts on from its end.
LEMMA CountOn ==
  ASSUME NEW s \in Seq(Nat), NEW r \in Seq(Nat),
         \A i \in 1 .. Len(s) : s[i] = i,
         \A i \in 1 .. Len(r) : r[i] = Len(s) + i
  PROVE  /\ s \o r \in Seq(Nat)
         /\ Len(s \o r) = Len(s) + Len(r)
         /\ \A i \in 1 .. Len(s \o r) : (s \o r)[i] = i
  <1>1. /\ s \o r \in Seq(Nat)
        /\ Len(s \o r) = Len(s) + Len(r)
        /\ \A i \in 1 .. Len(s) + Len(r) :
             (s \o r)[i] = IF i <= Len(s) THEN s[i] ELSE r[i - Len(s)]
    BY ConcatProperties
  <1>2. Len(s) \in Nat /\ Len(r) \in Nat
    OBVIOUS
  <1>3. ASSUME NEW i \in 1 .. Len(s) + Len(r) PROVE (s \o r)[i] = i
    <2>1. CASE i <= Len(s)
      BY <2>1, <1>1, <1>2
    <2>2. CASE i > Len(s)
      <3>1. i - Len(s) \in 1 .. Len(r)
        BY <2>2, <1>2
      <3>2. r[i - Len(s)] = Len(s) + (i - Len(s))
        BY <3>1
      <3>3. QED BY <3>2, <2>2, <1>1, <1>2
    <2>3. QED BY <2>1, <2>2, <1>2
  <1>4. QED BY <1>1, <1>3

LEMMA InitInv == Init => IInv
  <1> SUFFICES ASSUME Init PROVE IInv
    OBVIOUS
  <1>1. \A d \in Dirs : out[d] = << >> /\ Len(out[d]) = 0
    BY DEF Init
  <1>2. out \in [Dirs -> Seq(Nat)]
    BY DEF Init
  <1>3. TypeOK
    BY <1>2, NewBufferHolds DEF Init, TypeOK, Dirs, Peers
  <1>4. InOrder
    BY <1>1 DEF Init, InOrder
  <1>5. BufferIsTheGap
    BY <1>1, NewBufferHolds DEF Init, BufferIsTheGap
  <1>6. QED BY <1>3, <1>4, <1>5 DEF IInv, Init, EofAfterLastByte, DoneIffEnded, Ended

\* A write hands the sink the next bytes of the stream and forgets exactly those.
LEMMA PassOn ==
  ASSUME DataInv, NEW d \in Dirs, NEW n \in 1 .. Waiting(buf[d]),
         out' = [out EXCEPT ![d] = @ \o ReadSlice(buf[d], n)],
         buf' = [buf EXCEPT ![d] = DidRead(@, n)],
         UNCHANGED <<sent, taken>>
  PROVE  DataInv'
  <1>1. /\ buf[d] \in BufferType
        /\ out[d] \in Seq(Nat) /\ Len(out[d]) \in Nat
        /\ Holds(buf[d], Len(out[d]) + 1)
        /\ taken[d] = Len(out[d]) + Waiting(buf[d])
        /\ taken[d] <= sent[d] /\ taken[d] \in Nat /\ sent[d] \in Nat
    BY DEF DataInv, BufferIsTheGap
  <1>2. Waiting(buf[d]) \in Nat
    BY <1>1, SizesAreNat
  <1>3. n \in 0 .. Waiting(buf[d]) /\ n \in Nat /\ Len(out[d]) + 1 \in Nat
    BY <1>1, <1>2
  <1>4. /\ DidRead(buf[d], n) \in BufferType
        /\ Holds(DidRead(buf[d], n), (Len(out[d]) + 1) + n)
        /\ Waiting(DidRead(buf[d], n)) = Waiting(buf[d]) - n
    BY <1>1, <1>3, DidReadHolds
  <1>5. PICK r : r = ReadSlice(buf[d], n)
    OBVIOUS
  <1>6. /\ r \in Seq(Nat)
        /\ Len(r) = n
        /\ \A i \in 1 .. n : r[i] = (Len(out[d]) + 1) + i - 1
    BY <1>1, <1>3, <1>5, ReadSliceHolds
  <1>7. PICK o : /\ o = out[d] \o r
                 /\ o \in Seq(Nat)
                 /\ Len(o) = Len(out[d]) + n
                 /\ \A i \in 1 .. Len(o) : o[i] = i
    <2>1. \A i \in 1 .. Len(r) : r[i] = Len(out[d]) + i
      BY <1>1, <1>6
    <2>2. \A i \in 1 .. Len(out[d]) : out[d][i] = i
      BY DEF DataInv, InOrder
    <2>3. QED BY <2>1, <2>2, <1>1, <1>6, CountOn
  <1>8. /\ out' \in [Dirs -> Seq(Nat)]
        /\ out'[d] = o
        /\ \A e \in Dirs \ {d} : out'[e] = out[e]
    BY <1>5, <1>7 DEF DataInv
  <1>9. /\ buf' \in [Dirs -> BufferType]
        /\ buf'[d] = DidRead(buf[d], n)
        /\ \A e \in Dirs \ {d} : buf'[e] = buf[e]
    BY <1>4 DEF DataInv
  <1>10. Len(o) <= sent[d]
    BY <1>1, <1>2, <1>3, <1>7
  <1>11. InOrder'
    <2> SUFFICES ASSUME NEW e \in Dirs
                 PROVE  /\ Len(out'[e]) <= sent[e]
                        /\ \A i \in 1 .. Len(out'[e]) : out'[e][i] = i
      BY DEF InOrder
    <2>1. CASE e = d
      BY <2>1, <1>7, <1>8, <1>10
    <2>2. CASE e # d
      BY <2>2, <1>8 DEF DataInv, InOrder
    <2>3. QED BY <2>1, <2>2
  <1>12. BufferIsTheGap'
    <2> SUFFICES ASSUME NEW e \in Dirs
                 PROVE  /\ Holds(buf'[e], Len(out'[e]) + 1)
                        /\ taken[e] = Len(out'[e]) + Waiting(buf'[e])
                        /\ taken[e] <= sent[e]
      BY DEF BufferIsTheGap
    <2>1. CASE e = d
      <3>1. PICK l \in Nat, m \in Nat, w \in Nat :
              l = Len(out[d]) /\ m = Len(o) /\ w = Waiting(buf[d])
        BY <1>1, <1>2, <1>7
      <3>2. m = l + n /\ taken[d] = l + w
        BY <1>1, <1>7, <3>1
      <3>3. Len(o) + 1 = (Len(out[d]) + 1) + n /\ taken[d] = Len(o) + (Waiting(buf[d]) - n)
        <4>1. m + 1 = (l + 1) + n /\ l + w = m + (w - n)
          BY <1>3, <3>2
        <4>2. QED BY <3>1, <3>2, <4>1
      <3>4. QED BY <2>1, <3>3, <1>1, <1>4, <1>8, <1>9
    <2>2. CASE e # d
      BY <2>2, <1>8, <1>9 DEF DataInv, BufferIsTheGap
    <2>3. QED BY <2>1, <2>2
  <1>13. QED BY <1>8, <1>9, <1>11, <1>12 DEF DataInv

\* A read appends the next bytes of the source to the waiting ones.
LEMMA TakeIn ==
  ASSUME DataInv, NEW d \in Dirs, NEW n \in 1 .. AvailableWrite(buf[d]),
         n <= sent[d] - taken[d],
         buf' = [buf EXCEPT ![d] = Fill(@, taken[d] + 1, n)],
         taken' = [taken EXCEPT ![d] = @ + n],
         UNCHANGED <<sent, out>>
  PROVE  DataInv'
  <1>1. /\ buf[d] \in BufferType
        /\ Len(out[d]) \in Nat
        /\ Holds(buf[d], Len(out[d]) + 1)
        /\ taken[d] = Len(out[d]) + Waiting(buf[d])
        /\ taken[d] \in Nat /\ sent[d] \in Nat
    BY DEF DataInv, BufferIsTheGap
  <1>2. Waiting(buf[d]) \in Nat /\ n \in Nat
    BY <1>1, SizesAreNat
  <1>3. taken[d] + 1 = (Len(out[d]) + 1) + Waiting(buf[d])
    BY <1>1, <1>2
  <1>4. /\ Fill(buf[d], taken[d] + 1, n) \in BufferType
        /\ Holds(Fill(buf[d], taken[d] + 1, n), Len(out[d]) + 1)
        /\ Waiting(Fill(buf[d], taken[d] + 1, n)) = Waiting(buf[d]) + n
    BY <1>1, <1>3, FillHolds
  <1>5. /\ buf' \in [Dirs -> BufferType]
        /\ buf'[d] = Fill(buf[d], taken[d] + 1, n)
        /\ \A e \in Dirs \ {d} : buf'[e] = buf[e]
    BY <1>4 DEF DataInv
  <1>6. /\ taken' \in [Dirs -> Nat]
        /\ taken'[d] = taken[d] + n
        /\ \A e \in Dirs \ {d} : taken'[e] = taken[e]
    BY <1>1, <1>2 DEF DataInv
  <1>7. InOrder'
    BY DEF DataInv, InOrder
  <1>8. BufferIsTheGap'
    <2> SUFFICES ASSUME NEW e \in Dirs
                 PROVE  /\ Holds(buf'[e], Len(out[e]) + 1)
                        /\ taken'[e] = Len(out[e]) + Waiting(buf'[e])
                        /\ taken'[e] <= sent[e]
      BY DEF BufferIsTheGap
    <2>1. CASE e = d
      <3>1. /\ taken[d] + n = Len(out[d]) + (Waiting(buf[d]) + n)
            /\ taken[d] + n <= sent[d]
        BY <1>1, <1>2
      <3>2. QED BY <2>1, <3>1, <1>4, <1>5, <1>6
    <2>2. CASE e # d
      BY <2>2, <1>5, <1>6 DEF DataInv, BufferIsTheGap
    <2>3. QED BY <2>1, <2>2
  <1>9. QED BY <1>5, <1>6, <1>7, <1>8 DEF DataInv

\* Making room changes nothing that is waiting.
LEMMA MakeRoom ==
  ASSUME DataInv, NEW d \in Dirs,
         buf' = [buf EXCEPT ![d] = Compact(@)],
         UNCHANGED <<sent, taken, out>>
  PROVE  DataInv'
  <1>1. /\ buf[d] \in BufferType
        /\ Len(out[d]) + 1 \in Nat
        /\ Holds(buf[d], Len(out[d]) + 1)
    BY DEF DataInv, BufferIsTheGap
  <1>2. /\ Compact(buf[d]) \in BufferType
        /\ Holds(Compact(buf[d]), Len(out[d]) + 1)
        /\ Waiting(Compact(buf[d])) = Waiting(buf[d])
    BY <1>1, CompactHolds
  <1>3. /\ buf' \in [Dirs -> BufferType]
        /\ buf'[d] = Compact(buf[d])
        /\ \A e \in Dirs \ {d} : buf'[e] = buf[e]
    BY <1>2 DEF DataInv
  <1>4. InOrder'
    BY DEF DataInv, InOrder
  <1>5. BufferIsTheGap'
    <2> SUFFICES ASSUME NEW e \in Dirs
                 PROVE  /\ Holds(buf'[e], Len(out[e]) + 1)
                        /\ taken[e] = Len(out[e]) + Waiting(buf'[e])
                        /\ taken[e] <= sent[e]
      BY DEF BufferIsTheGap
    <2>1. CASE e = d
      BY <2>1, <1>2, <1>3 DEF DataInv, BufferIsTheGap
    <2>2. CASE e # d
      BY <2>2, <1>3 DEF DataInv, BufferIsTheGap
    <2>3. QED BY <2>1, <2>2
  <1>6. QED BY <1>3, <1>4, <1>5 DEF DataInv

\* While a step of the loop is due the relay is running.
LEMMA StepMeansRunning ==
  ASSUME IInv, pc # "done"
  PROVE  outcome = "running" /\ ~Ended
  BY DEF IInv, DoneIffEnded, Ended

\* Whatever a step of the loop does to the data, it either goes on or ends the
\* relay with an outcome that its data justifies.
LEMMA LoopKeepsInv ==
  ASSUME IInv, pc # "done", DataInv', UNCHANGED peerVars,
         \/ \E next \in Steps, moved \in BOOLEAN : GoOn(next, moved)
         \/ \E how \in {"error", "cancelled"} : Finish(how, "none")
         \/ \E d \in Dirs : /\ Finish("closed", d)
                            /\ fin[d]
                            /\ Len(out'[d]) = sent[d]
  PROVE  IInv'
  <1>1. outcome = "running"
    BY StepMeansRunning
  <1>2. /\ cancelled' \in BOOLEAN /\ got' \in [Dirs -> Nat]
        /\ fin' \in [Dirs -> BOOLEAN] /\ reset' \in [Peers -> BOOLEAN]
    BY DEF IInv, TypeOK, peerVars
  <1>3. CASE \E next \in Steps, moved \in BOOLEAN : GoOn(next, moved)
    <2>1. /\ pc' \in Steps /\ progress' \in BOOLEAN
          /\ outcome' = "running" /\ closedBy' = closedBy
      BY <1>1, <1>3 DEF GoOn
    <2>2. TypeOK'
      BY <2>1, <1>2 DEF IInv, TypeOK, DataInv, Steps
    <2>3. QED
      BY <2>1, <2>2 DEF IInv, DataInv, EofAfterLastByte, DoneIffEnded, Ended, Steps
  <1>4. CASE \E how \in {"error", "cancelled"} : Finish(how, "none")
    <2>1. /\ pc' = "done" /\ progress' \in BOOLEAN
          /\ outcome' \in {"error", "cancelled"} /\ closedBy' = "none"
      BY <1>4 DEF Finish, IInv, TypeOK
    <2>2. TypeOK'
      BY <2>1, <1>2 DEF TypeOK, DataInv
    <2>3. QED
      BY <2>1, <2>2 DEF IInv, DataInv, EofAfterLastByte, DoneIffEnded, Ended
  <1>5. CASE \E d \in Dirs : Finish("closed", d) /\ fin[d] /\ Len(out'[d]) = sent[d]
    <2>1. /\ pc' = "done" /\ progress' \in BOOLEAN
          /\ outcome' = "closed" /\ closedBy' \in Dirs
          /\ fin'[closedBy'] /\ Len(out'[closedBy']) = sent'[closedBy']
      BY <1>5 DEF Finish, IInv, TypeOK, peerVars
    <2>2. TypeOK'
      BY <2>1, <1>2 DEF TypeOK, DataInv
    <2>3. QED
      BY <2>1, <2>2 DEF IInv, DataInv, EofAfterLastByte, DoneIffEnded, Ended
  <1>6. QED BY <1>3, <1>4, <1>5

LEMMA WriteOnInv ==
  ASSUME IInv, pc # "done", NEW d \in Dirs, NEW next \in Steps,
         WriteOn(d, next), UNCHANGED <<peerVars, taken>>
  PROVE  IInv'
  <1>1. DataInv /\ progress \in BOOLEAN
    BY DEF IInv, TypeOK, DataInv
  <1>2. DataInv'
    <2>1. CASE UNCHANGED <<buf, out>>
      BY <2>1, <1>1 DEF DataInv, InOrder, BufferIsTheGap, peerVars
    <2>2. CASE \E n \in 1 .. Waiting(buf[d]) :
                 /\ out' = [out EXCEPT ![d] = @ \o ReadSlice(buf[d], n)]
                 /\ buf' = [buf EXCEPT ![d] = DidRead(@, n)]
      BY <2>2, <1>1, PassOn DEF peerVars
    <2>3. QED BY <2>1, <2>2 DEF WriteOn
  <1>3. \/ \E to \in Steps, moved \in BOOLEAN : GoOn(to, moved)
        \/ Finish("error", "none")
    BY <1>1 DEF WriteOn
  <1>4. QED BY <1>2, <1>3, LoopKeepsInv

LEMMA ReadIntoInv ==
  ASSUME IInv, pc # "done", NEW d \in Dirs, NEW next \in Steps,
         ReadInto(d, next), UNCHANGED <<peerVars, out>>
  PROVE  IInv'
  <1>1. DataInv /\ progress \in BOOLEAN
    BY DEF IInv, TypeOK, DataInv
  <1>2. DataInv'
    <2>1. CASE UNCHANGED <<buf, taken>>
      BY <2>1, <1>1 DEF DataInv, InOrder, BufferIsTheGap, peerVars
    <2>2. CASE \E n \in 1 .. AvailableWrite(buf[d]) :
                 /\ n <= sent[d] - taken[d]
                 /\ buf' = [buf EXCEPT ![d] = Fill(@, taken[d] + 1, n)]
                 /\ taken' = [taken EXCEPT ![d] = @ + n]
      BY <2>2, <1>1, TakeIn DEF peerVars
    <2>3. CASE buf' = [buf EXCEPT ![d] = Compact(@)] /\ UNCHANGED taken
      BY <2>3, <1>1, MakeRoom DEF peerVars
    <2>4. QED BY <2>1, <2>2, <2>3 DEF ReadInto, OnEof
  <1>3. \/ \E to \in Steps, moved \in BOOLEAN : GoOn(to, moved)
        \/ Finish("error", "none")
        \/ Finish("closed", d) /\ fin[d] /\ sent[d] = taken[d] /\ IsEmpty(buf[d])
    BY <1>1 DEF ReadInto, OnEof
  <1>4. IsEmpty(buf[d]) => taken[d] = Len(out[d])
    <2>1. /\ taken[d] = Len(out[d]) + Waiting(buf[d])
          /\ Len(out[d]) \in Nat
          /\ buf[d].read_pos \in Nat /\ buf[d].write_pos \in Nat
      BY <1>1 DEF DataInv, BufferIsTheGap, BufferType
    <2>2. QED BY <2>1 DEF IsEmpty, Waiting
  <1>5. QED BY <1>2, <1>3, <1>4, LoopKeepsInv

LEMMA EnvironmentInv ==
  ASSUME IInv, Environment
  PROVE  IInv'
  <1>1. ASSUME NEW d \in Dirs, Send(d) PROVE IInv'
    <2>1. /\ sent[d] \in Nat
          /\ sent' = [sent EXCEPT ![d] = @ + 1]
          /\ UNCHANGED <<pc, progress, outcome, closedBy, cancelled, buf, taken, out,
                         got, fin, reset>>
          /\ outcome = "running"
      BY <1>1 DEF Send, loopVars, IInv, TypeOK, Ended
    <2>2. /\ sent' \in [Dirs -> Nat]
          /\ \A e \in Dirs : sent[e] \in Nat /\ (sent'[e] = sent[e] \/ sent'[e] = sent[e] + 1)
      BY <2>1 DEF IInv, TypeOK
    <2>3. TypeOK'
      BY <2>1, <2>2 DEF IInv, TypeOK
    <2>4. InOrder'
      <3> SUFFICES ASSUME NEW e \in Dirs PROVE Len(out[e]) <= sent'[e]
        BY <2>1 DEF IInv, InOrder
      <3>1. Len(out[e]) \in Nat /\ Len(out[e]) <= sent[e]
        BY DEF IInv, TypeOK, InOrder
      <3>2. QED BY <3>1, <2>2
    <2>5. BufferIsTheGap'
      <3> SUFFICES ASSUME NEW e \in Dirs PROVE taken[e] <= sent'[e]
        BY <2>1 DEF IInv, BufferIsTheGap
      <3>1. taken[e] \in Nat /\ taken[e] <= sent[e]
        BY DEF IInv, TypeOK, BufferIsTheGap
      <3>2. QED BY <3>1, <2>2
    <2>6. QED
      BY <2>1, <2>3, <2>4, <2>5 DEF IInv, EofAfterLastByte, DoneIffEnded, Ended
  <1>2. ASSUME NEW d \in Dirs, ShutdownWrite(d) PROVE IInv'
    <2>1. /\ fin' = [fin EXCEPT ![d] = TRUE]
          /\ UNCHANGED <<pc, progress, outcome, closedBy, cancelled, buf, sent, taken, out,
                         got, reset>>
          /\ outcome = "running"
      BY <1>2 DEF ShutdownWrite, loopVars, Ended
    <2>2. TypeOK'
      BY <2>1 DEF IInv, TypeOK
    <2>3. QED
      BY <2>1, <2>2 DEF IInv, InOrder, BufferIsTheGap, EofAfterLastByte, DoneIffEnded, Ended
  <1>3. ASSUME NEW d \in Dirs, Receive(d) PROVE IInv'
    <2>1. /\ got' = [got EXCEPT ![d] = @ + 1]
          /\ UNCHANGED <<pc, progress, outcome, closedBy, cancelled, buf, sent, taken, out,
                         fin, reset>>
      BY <1>3 DEF Receive, loopVars
    <2>2. TypeOK'
      BY <2>1 DEF IInv, TypeOK
    <2>3. QED
      BY <2>1, <2>2 DEF IInv, InOrder, BufferIsTheGap, EofAfterLastByte, DoneIffEnded, Ended
  <1>4. ASSUME NEW p \in Peers, Reset(p) PROVE IInv'
    <2>1. /\ reset' = [reset EXCEPT ![p] = TRUE]
          /\ UNCHANGED <<pc, progress, outcome, closedBy, cancelled, buf, sent, taken, out,
                         got, fin>>
      BY <1>4 DEF Reset, loopVars
    <2>2. TypeOK'
      BY <2>1 DEF IInv, TypeOK
    <2>3. QED
      BY <2>1, <2>2 DEF IInv, InOrder, BufferIsTheGap, EofAfterLastByte, DoneIffEnded, Ended
  <1>5. ASSUME Cancel PROVE IInv'
    <2>1. /\ cancelled' = TRUE
          /\ UNCHANGED <<pc, progress, outcome, closedBy, buf, sent, taken, out,
                         got, fin, reset>>
      BY <1>5 DEF Cancel, loopVars
    <2>2. TypeOK'
      BY <2>1 DEF IInv, TypeOK
    <2>3. QED
      BY <2>1, <2>2 DEF IInv, InOrder, BufferIsTheGap, EofAfterLastByte, DoneIffEnded, Ended
  <1>6. QED BY <1>1, <1>2, <1>3, <1>4, <1>5 DEF Environment

LEMMA StutterInv ==
  ASSUME IInv, UNCHANGED vars
  PROVE  IInv'
  BY DEF IInv, TypeOK, InOrder, BufferIsTheGap, EofAfterLastByte, DoneIffEnded, Ended,
         vars, loopVars, peerVars

LEMMA NextInv ==
  ASSUME IInv, [Next]_vars
  PROVE  IInv'
  <1> USE DEF Steps
  <1>1. "up" \in Dirs /\ "down" \in Dirs
    BY DEF Dirs
  <1>2. CASE WriteRemote
    BY <1>1, <1>2, WriteOnInv DEF WriteRemote
  <1>3. CASE ReadClient
    BY <1>1, <1>3, ReadIntoInv DEF ReadClient
  <1>4. CASE WriteClient
    BY <1>1, <1>4, WriteOnInv DEF WriteClient
  <1>5. CASE ReadRemote
    BY <1>1, <1>5, ReadIntoInv DEF ReadRemote
  <1>6. ASSUME UNCHANGED <<peerVars, buf, taken, out>> PROVE DataInv'
    BY <1>6 DEF IInv, TypeOK, DataInv, InOrder, BufferIsTheGap, peerVars
  <1>7. CASE EndTurn
    <2>1. pc # "done" /\ UNCHANGED peerVars /\ DataInv'
      BY <1>6, <1>7 DEF EndTurn
    <2>2. \E to \in Steps, moved \in BOOLEAN : GoOn(to, moved)
      BY <1>7 DEF EndTurn
    <2>3. QED BY <2>1, <2>2, LoopKeepsInv
  <1>8. CASE Resume
    <2>1. pc # "done" /\ UNCHANGED peerVars /\ DataInv'
      BY <1>6, <1>8 DEF Resume
    <2>2. \E to \in Steps, moved \in BOOLEAN : GoOn(to, moved)
      BY <1>8 DEF Resume
    <2>3. QED BY <2>1, <2>2, LoopKeepsInv
  <1>9. CASE StopOnCancel
    <2>1. pc # "done" /\ UNCHANGED peerVars /\ DataInv'
      BY <1>6, <1>9 DEF StopOnCancel
    <2>2. Finish("cancelled", "none")
      BY <1>9 DEF StopOnCancel
    <2>3. QED BY <2>1, <2>2, LoopKeepsInv
  <1>10. CASE Environment
    BY <1>10, EnvironmentInv
  <1>11. CASE UNCHANGED vars
    BY <1>11, StutterInv
  <1>12. QED
    BY <1>2, <1>3, <1>4, <1>5, <1>7, <1>8, <1>9, <1>10, <1>11 DEF Next, LoopStep

\* The invariant holds of every reachable state.
THEOREM Invariance == Spec => []IInv
  BY InitInv, NextInv, PTL DEF Spec

\* Every variable keeps its type; in particular the positions of the two buffers
\* never go below 0, which is what an underflow of usize would be.
THEOREM TypeCorrect == Spec => []TypeOK
  <1>1. IInv => TypeOK
    BY DEF IInv
  <1>2. QED BY <1>1, Invariance, PTL

\* No byte is lost, repeated or reordered between a peer and the other one.
THEOREM BytesInOrder == Spec => []InOrder
  <1>1. IInv => InOrder
    BY DEF IInv
  <1>2. QED BY <1>1, Invariance, PTL

\* Buffers stay within their allocation and hold exactly the undelivered bytes.
THEOREM GapInBuffer == Spec => []BufferIsTheGap
  <1>1. IInv => BufferIsTheGap
    BY DEF IInv
  <1>2. QED BY <1>1, Invariance, PTL

\* An end of stream never overtakes the bytes sent before it.
THEOREM EofIsLast == Spec => []EofAfterLastByte
  <1>1. IInv => EofAfterLastByte
    BY DEF IInv
  <1>2. QED BY <1>1, Invariance, PTL

-----------------------------------------------------------------------------
(* The refinement. *)

\* The sequence of n bytes that follow byte f.
Following(f, n) == [i \in 1 .. n |-> f + i]

LEMMA FollowingIsSeq ==
  ASSUME NEW f \in Nat, NEW n \in Nat
  PROVE  Following(f, n) \in Seq(Nat) /\ Len(Following(f, n)) = n
  BY DEF Following

\* The first k of n following bytes, and the rest of them.
LEMMA SplitFollowing ==
  ASSUME NEW f \in Nat, NEW n \in Nat, NEW k \in 1 .. n
  PROVE  /\ SubSeq(Following(f, n), 1, k) = Following(f, k)
         /\ SubSeq(Following(f, n), k + 1, n) = Following(f + k, n - k)
  BY FollowingIsSeq DEF Following

\* The elements of two sequences joined.
LEMMA JoinSeq ==
  ASSUME NEW a \in Seq(Nat), NEW b \in Seq(Nat)
  PROVE  /\ a \o b \in Seq(Nat)
         /\ Len(a \o b) = Len(a) + Len(b)
         /\ \A i \in 1 .. Len(a) + Len(b) :
              (a \o b)[i] = IF i <= Len(a) THEN a[i] ELSE b[i - Len(a)]
  OBVIOUS

\* Following bytes joined to the ones that follow them.
LEMMA JoinFollowing ==
  ASSUME NEW f \in Nat, NEW n \in Nat, NEW k \in Nat
  PROVE  Following(f, n) \o Following(f + n, k) = Following(f, n + k)
  <1>1. PICK a : a = Following(f, n)
    OBVIOUS
  <1>2. PICK b : b = Following(f + n, k)
    OBVIOUS
  <1>3. PICK c : c = Following(f, n + k)
    OBVIOUS
  <1>4. /\ a \in Seq(Nat) /\ Len(a) = n
        /\ \A i \in 1 .. n : a[i] = f + i
    BY <1>1, FollowingIsSeq DEF Following
  <1>5. /\ b \in Seq(Nat) /\ Len(b) = k
        /\ \A i \in 1 .. k : b[i] = f + n + i
    <2>1. f + n \in Nat
      OBVIOUS
    <2>2. QED BY <1>2, <2>1, FollowingIsSeq DEF Following
  <1>6. /\ c \in Seq(Nat) /\ Len(c) = n + k
        /\ \A i \in 1 .. n + k : c[i] = f + i
    <2>1. n + k \in Nat
      OBVIOUS
    <2>2. QED BY <1>3, <2>1, FollowingIsSeq DEF Following
  <1>7. PICK s : s = a \o b
    OBVIOUS
  <1>8. /\ s \in Seq(Nat) /\ Len(s) = n + k
        /\ \A i \in 1 .. n + k : s[i] = IF i <= n THEN a[i] ELSE b[i - n]
    BY <1>4, <1>5, <1>7, JoinSeq
  <1>9. \A i \in 1 .. n + k : s[i] = c[i]
    <2> SUFFICES ASSUME NEW i \in 1 .. n + k PROVE s[i] = f + i
      BY <1>6
    <2>1. CASE i <= n
      <3>1. i \in 1 .. n /\ s[i] = a[i]
        BY <1>8, <2>1
      <3>2. QED BY <1>4, <3>1
    <2>2. CASE ~(i <= n)
      <3>1. i - n \in 1 .. k /\ s[i] = b[i - n] /\ f + n + (i - n) = f + i
        BY <1>8, <2>2
      <3>2. QED BY <1>5, <3>1
    <2>3. QED BY <2>1, <2>2
  <1>10. s = c
    BY <1>6, <1>8, <1>9, SeqEqual
  <1>11. QED BY <1>1, <1>2, <1>3, <1>7, <1>10

\* The waiting part of a buffer in order is the bytes that follow the delivered ones.
LEMMA WaitingFollows ==
  ASSUME NEW b \in BufferType, NEW f \in Nat, Holds(b, f + 1), NEW n \in 0 .. Waiting(b)
  PROVE  ReadSlice(b, n) = Following(f, n)
  <1>1. f + 1 \in Nat
    OBVIOUS
  <1>2. ReadSlice(b, n) = [i \in 1 .. n |-> (f + 1) + i - 1]
    BY <1>1, ReadSliceHolds
  <1>3. \A i \in 1 .. n : (f + 1) + i - 1 = f + i
    OBVIOUS
  <1>4. QED BY <1>2, <1>3 DEF Following

LEMMA InitPipe == Init => Pipe!Init
  <1> SUFFICES ASSUME Init PROVE OnTheWay = [d \in Dirs |-> << >>]
    BY DEF Init, Pipe!Init
  <1>1. \A d \in Dirs : ReadSlice(buf[d], Waiting(buf[d])) = << >>
    BY DEF Init, NewBuffer, Waiting, ReadSlice
  <1>2. QED BY <1>1 DEF OnTheWay

\* The data of one direction, as the pipe sees it.
LEMMA PipeContents ==
  ASSUME DataInv, NEW d \in Dirs
  PROVE  /\ OnTheWay[d] = Following(Len(out[d]), Waiting(buf[d]))
         /\ Len(OnTheWay[d]) = Waiting(buf[d])
         /\ Len(out[d]) \in Nat /\ Waiting(buf[d]) \in Nat
  <1>1. /\ buf[d] \in BufferType /\ Len(out[d]) \in Nat
        /\ Holds(buf[d], Len(out[d]) + 1)
    BY DEF DataInv, BufferIsTheGap
  <1>2. Waiting(buf[d]) \in Nat
    BY <1>1, SizesAreNat
  <1>3. Waiting(buf[d]) \in 0 .. Waiting(buf[d])
    BY <1>2
  <1>4. OnTheWay[d] = Following(Len(out[d]), Waiting(buf[d]))
    BY <1>1, <1>3, WaitingFollows DEF OnTheWay
  <1>5. QED BY <1>1, <1>2, <1>4, FollowingIsSeq

\* The pipe of a direction changes only with its buffer.
LEMMA OnlyOneChanges ==
  ASSUME NEW d \in Dirs, NEW c, OnTheWay'[d] = c, \A e \in Dirs \ {d} : buf'[e] = buf[e]
  PROVE  OnTheWay' = [OnTheWay EXCEPT ![d] = c]
  <1>1. \A e \in Dirs \ {d} : OnTheWay'[e] = OnTheWay[e]
    BY DEF OnTheWay
  <1>2. /\ OnTheWay = [e \in Dirs |-> OnTheWay[e]]
        /\ OnTheWay' = [e \in Dirs |-> OnTheWay'[e]]
    BY DEF OnTheWay
  <1>3. QED BY <1>1, <1>2

LEMMA PassOnIsLeave ==
  ASSUME DataInv, outcome = "running", NEW d \in Dirs, NEW n \in 1 .. Waiting(buf[d]),
         out' = [out EXCEPT ![d] = @ \o ReadSlice(buf[d], n)],
         buf' = [buf EXCEPT ![d] = DidRead(@, n)],
         UNCHANGED <<sent, fin, outcome>>
  PROVE  Pipe!Leave(d)
  <1> DEFINE w == Waiting(buf[d])
             f == Len(out[d])
  <1>1. /\ OnTheWay[d] = Following(f, w) /\ Len(OnTheWay[d]) = w
        /\ f \in Nat /\ w \in Nat
    BY PipeContents
  <1>2. /\ buf[d] \in BufferType /\ Holds(buf[d], f + 1)
        /\ n \in 0 .. w /\ n \in Nat /\ f + 1 \in Nat
    BY <1>1 DEF DataInv, BufferIsTheGap
  <1>3. ReadSlice(buf[d], n) = SubSeq(OnTheWay[d], 1, n)
    <2>1. ReadSlice(buf[d], n) = Following(f, n)
      BY <1>1, <1>2, WaitingFollows
    <2>2. SubSeq(Following(f, w), 1, n) = Following(f, n)
      BY <1>1, SplitFollowing
    <2>3. QED BY <1>1, <2>1, <2>2
  <1>4. /\ DidRead(buf[d], n) \in BufferType
        /\ Holds(DidRead(buf[d], n), (f + 1) + n)
        /\ Waiting(DidRead(buf[d], n)) = w - n
    BY <1>2, DidReadHolds
  <1>5. /\ f + n \in Nat /\ (f + 1) + n = (f + n) + 1 /\ w - n \in 0 .. w - n
    BY <1>1, <1>2
  <1>6. ReadSlice(DidRead(buf[d], n), w - n) = Following(f + n, w - n)
    BY <1>4, <1>5, WaitingFollows
  <1>7. /\ buf'[d] = DidRead(buf[d], n)
        /\ \A e \in Dirs \ {d} : buf'[e] = buf[e]
    BY DEF DataInv
  <1>8. OnTheWay'[d] = SubSeq(OnTheWay[d], n + 1, Len(OnTheWay[d]))
    BY ZenonT(30), <1>1, <1>4, <1>6, <1>7, SplitFollowing DEF OnTheWay
  <1>9. OnTheWay' = [OnTheWay EXCEPT ![d] = SubSeq(@, n + 1, Len(@))]
    BY <1>7, <1>8, OnlyOneChanges
  <1>10. n \in 1 .. Len(OnTheWay[d])
    BY <1>1
  <1>11. out' = [out EXCEPT ![d] = @ \o SubSeq(OnTheWay[d], 1, n)]
    BY <1>3
  <1>12. QED
    BY <1>9, <1>10, <1>11 DEF Pipe!Leave, Pipe!Running

LEMMA TakeInIsEnter ==
  ASSUME DataInv, outcome = "running", NEW d \in Dirs, NEW n \in 1 .. AvailableWrite(buf[d]),
         n <= sent[d] - taken[d],
         buf' = [buf EXCEPT ![d] = Fill(@, taken[d] + 1, n)],
         UNCHANGED <<sent, fin, out, outcome>>
  PROVE  Pipe!Enter(d)
  <1> DEFINE w == Waiting(buf[d])
             f == Len(out[d])
  <1>1. /\ OnTheWay[d] = Following(f, w) /\ Len(OnTheWay[d]) = w
        /\ f \in Nat /\ w \in Nat
    BY PipeContents
  <1>2. /\ buf[d] \in BufferType /\ Holds(buf[d], f + 1)
        /\ taken[d] = f + w /\ sent[d] \in Nat
    BY DEF DataInv, BufferIsTheGap
  <1>0. n \in Nat
    BY <1>2, SizesAreNat
  <1> HIDE DEF w, f
  <1>3. /\ n \in Nat /\ taken[d] + 1 = (f + 1) + w /\ f + 1 \in Nat
        /\ n + w \in 0 .. w + n /\ f + w + n <= sent[d]
    BY <1>1, <1>2, <1>0
  <1>4. /\ Fill(buf[d], taken[d] + 1, n) \in BufferType
        /\ Holds(Fill(buf[d], taken[d] + 1, n), f + 1)
        /\ Waiting(Fill(buf[d], taken[d] + 1, n)) = w + n
    <2>1. taken[d] + 1 = (f + 1) + Waiting(buf[d])
      BY <1>3 DEF w
    <2>2. QED BY <1>2, <1>3, <2>1, FillHolds DEF w
  <1>5. ReadSlice(Fill(buf[d], taken[d] + 1, n), w + n) = Following(f, w + n)
    BY <1>1, <1>3, <1>4, WaitingFollows
  <1>6. /\ buf'[d] = Fill(buf[d], taken[d] + 1, n)
        /\ \A e \in Dirs \ {d} : buf'[e] = buf[e]
    BY DEF DataInv
  <1>7. Pipe!Entered(d) = f + w
    BY <1>1 DEF Pipe!Entered, f
  <1>8. OnTheWay'[d] = OnTheWay[d] \o [i \in 1 .. n |-> Pipe!Entered(d) + i]
    <2>1. OnTheWay'[d] = Following(f, w + n)
      BY <1>4, <1>5, <1>6 DEF OnTheWay
    <2>2. [i \in 1 .. n |-> Pipe!Entered(d) + i] = Following(f + w, n)
      BY <1>7 DEF Following
    <2>3. Following(f, w) \o Following(f + w, n) = Following(f, w + n)
      BY <1>1, <1>3, JoinFollowing
    <2>4. QED BY <2>1, <2>2, <2>3, <1>1
  <1>9. OnTheWay' = [OnTheWay EXCEPT ![d] = @ \o [i \in 1 .. n |-> Pipe!Entered(d) + i]]
    BY <1>6, <1>8, OnlyOneChanges
  <1>10. n \in 1 .. Cap - Len(OnTheWay[d])
    <2>1. /\ buf[d].read_pos \in Nat /\ buf[d].write_pos \in Nat
          /\ n <= Cap - buf[d].write_pos /\ w = buf[d].write_pos - buf[d].read_pos
      BY <1>2 DEF BufferType, AvailableWrite, Waiting, w
    <2>2. QED BY SMTT(30), <2>1, <1>1, CapAssumption
  <1>11. Pipe!Entered(d) + n <= sent[d]
    BY <1>3, <1>7
  <1>12. QED
    BY <1>9, <1>10, <1>11 DEF Pipe!Enter, Pipe!Running

LEMMA MakeRoomIsStutter ==
  ASSUME DataInv, NEW d \in Dirs, buf' = [buf EXCEPT ![d] = Compact(@)], UNCHANGED out
  PROVE  OnTheWay' = OnTheWay
  <1> DEFINE w == Waiting(buf[d])
             f == Len(out[d])
  <1>1. /\ OnTheWay[d] = Following(f, w) /\ f \in Nat /\ f + 1 \in Nat /\ w \in Nat
        /\ w \in 0 .. w
    BY PipeContents
  <1>2. buf[d] \in BufferType /\ Holds(buf[d], f + 1)
    BY DEF DataInv, BufferIsTheGap
  <1>3. /\ Compact(buf[d]) \in BufferType
        /\ Holds(Compact(buf[d]), f + 1)
        /\ Waiting(Compact(buf[d])) = w
    BY <1>1, <1>2, CompactHolds
  <1>4. ReadSlice(Compact(buf[d]), w) = Following(f, w)
    BY <1>1, <1>3, WaitingFollows
  <1>5. /\ buf'[d] = Compact(buf[d])
        /\ \A e \in Dirs \ {d} : buf'[e] = buf[e]
    BY DEF DataInv
  <1>6. OnTheWay'[d] = OnTheWay[d]
    BY <1>1, <1>3, <1>4, <1>5 DEF OnTheWay
  <1>7. QED BY <1>5, <1>6 DEF OnTheWay

LEMMA DataOfInv == IInv => DataInv
  BY DEF IInv, TypeOK, DataInv

LEMMA NoDataIsStutter ==
  ASSUME UNCHANGED buf
  PROVE  OnTheWay' = OnTheWay
  BY DEF OnTheWay

\* Ending the relay ends the connection: orderly after the last byte, or by an abort.
LEMMA EndingIsAStep ==
  ASSUME DataInv, NEW how \in {"error", "cancelled", "closed"}, NEW d, Finish(how, d),
         outcome = "running", UNCHANGED <<sent, fin, out, buf>>,
         how = "closed" => (d \in Dirs /\ fin[d] /\ Len(out[d]) = sent[d])
  PROVE  Pipe!Next
  <1>1. OnTheWay' = OnTheWay
    BY NoDataIsStutter
  <1>2. CASE how = "closed"
    BY <1>1, <1>2 DEF Finish, Pipe!Next, Pipe!CloseOrderly, Pipe!Running
  <1>3. CASE how # "closed"
    BY <1>1, <1>3 DEF Finish, Pipe!Next, Pipe!Abort, Pipe!Running
  <1>4. QED BY <1>2, <1>3

LEMMA WriteOnIsAStep ==
  ASSUME IInv, NEW d \in Dirs, NEW next, WriteOn(d, next), UNCHANGED <<sent, fin>>,
         outcome = "running"
  PROVE  [Pipe!Next]_(Pipe!pipeVars)
  <1>1. CASE UNCHANGED <<buf, out, outcome>>
    BY <1>1, NoDataIsStutter DEF Pipe!pipeVars
  <1>2. CASE Finish("error", "none") /\ UNCHANGED <<buf, out>>
    BY <1>2, DataOfInv, EndingIsAStep
  <1>3. ASSUME NEW n \in 1 .. Waiting(buf[d]),
               out' = [out EXCEPT ![d] = @ \o ReadSlice(buf[d], n)],
               buf' = [buf EXCEPT ![d] = DidRead(@, n)],
               UNCHANGED outcome
        PROVE  Pipe!Next
    <2>1. Pipe!Leave(d)
      BY <1>3, DataOfInv, PassOnIsLeave
    <2>2. QED BY <2>1 DEF Pipe!Next
  <1>4. QED BY <1>1, <1>2, <1>3 DEF WriteOn, GoOn

LEMMA ReadIntoIsAStep ==
  ASSUME IInv, NEW d \in Dirs, NEW next, ReadInto(d, next), UNCHANGED <<sent, fin, out>>,
         outcome = "running"
  PROVE  [Pipe!Next]_(Pipe!pipeVars)
  <1>1. CASE UNCHANGED <<buf, outcome>>
    BY <1>1, NoDataIsStutter DEF Pipe!pipeVars
  <1>2. CASE Finish("error", "none") /\ UNCHANGED buf
    BY <1>2, DataOfInv, EndingIsAStep
  <1>3. CASE sent[d] = taken[d] /\ fin[d] /\ IsEmpty(buf[d]) /\ Finish("closed", d)
             /\ UNCHANGED buf
    <2>1. Len(out[d]) = sent[d]
      <3>1. taken[d] = Len(out[d]) + Waiting(buf[d]) /\ Len(out[d]) \in Nat
            /\ buf[d] \in BufferType
        BY DataOfInv DEF DataInv, BufferIsTheGap
      <3>2. Waiting(buf[d]) = 0
        BY <1>3, <3>1 DEF IsEmpty, Waiting, BufferType
      <3>3. QED BY <1>3, <3>1, <3>2
    <2>2. QED BY <1>3, <2>1, DataOfInv, EndingIsAStep
  <1>4. ASSUME NEW n \in 1 .. AvailableWrite(buf[d]), n <= sent[d] - taken[d],
               buf' = [buf EXCEPT ![d] = Fill(@, taken[d] + 1, n)],
               UNCHANGED outcome
        PROVE  Pipe!Next
    <2>1. Pipe!Enter(d)
      BY <1>4, DataOfInv, TakeInIsEnter
    <2>2. QED BY <2>1 DEF Pipe!Next
  <1>5. CASE buf' = [buf EXCEPT ![d] = Compact(@)] /\ UNCHANGED outcome
    BY <1>5, DataOfInv, MakeRoomIsStutter DEF Pipe!pipeVars
  <1>6. QED BY <1>1, <1>2, <1>3, <1>4, <1>5 DEF ReadInto, OnEof, GoOn

LEMMA EnvironmentIsAStep ==
  ASSUME Environment
  PROVE  [Pipe!Next]_(Pipe!pipeVars)
  <1>1. OnTheWay' = OnTheWay
    BY NoDataIsStutter DEF Environment, Send, ShutdownWrite, Receive, Reset, Cancel
  <1>2. CASE \E d \in Dirs : Send(d)
    BY <1>1, <1>2 DEF Send, Ended, loopVars, Pipe!Next, Pipe!Produce, Pipe!Running
  <1>3. CASE \E d \in Dirs : ShutdownWrite(d)
    BY <1>1, <1>3 DEF ShutdownWrite, Ended, loopVars, Pipe!Next, Pipe!Hangup, Pipe!Running
  <1>4. CASE UNCHANGED <<sent, fin, out, outcome>>
    BY <1>1, <1>4 DEF Pipe!pipeVars
  <1>5. QED
    BY <1>2, <1>3, <1>4 DEF Environment, Receive, Reset, Cancel, loopVars

LEMMA NextIsAStep ==
  ASSUME IInv, [Next]_vars
  PROVE  [Pipe!Next]_(Pipe!pipeVars)
  <1>1. "up" \in Dirs /\ "down" \in Dirs
    BY DEF Dirs
  <1>2. CASE LoopStep
    <2>1. outcome = "running"
      BY <1>2, StepMeansRunning DEF LoopStep, WriteRemote, ReadClient, WriteClient, ReadRemote,
                                   EndTurn, Resume
    <2>2. CASE WriteRemote
      BY <1>1, <2>1, <2>2, WriteOnIsAStep DEF WriteRemote, peerVars
    <2>3. CASE ReadClient
      BY <1>1, <2>1, <2>3, ReadIntoIsAStep DEF ReadClient, peerVars
    <2>4. CASE WriteClient
      BY <1>1, <2>1, <2>4, WriteOnIsAStep DEF WriteClient, peerVars
    <2>5. CASE ReadRemote
      BY <1>1, <2>1, <2>5, ReadIntoIsAStep DEF ReadRemote, peerVars
    <2>6. CASE EndTurn \/ Resume
      BY <2>6, NoDataIsStutter DEF EndTurn, Resume, GoOn, peerVars, Pipe!pipeVars
    <2>7. QED BY <1>2, <2>2, <2>3, <2>4, <2>5, <2>6 DEF LoopStep
  <1>3. CASE StopOnCancel
    <2>1. outcome = "running"
      BY <1>3, StepMeansRunning DEF StopOnCancel
    <2>2. QED BY <1>3, <2>1, DataOfInv, EndingIsAStep DEF StopOnCancel, peerVars
  <1>4. CASE Environment
    BY <1>4, EnvironmentIsAStep
  <1>5. CASE UNCHANGED vars
    BY <1>5, NoDataIsStutter DEF vars, loopVars, peerVars, Pipe!pipeVars
  <1>6. QED BY <1>2, <1>3, <1>4, <1>5 DEF Next

\* The relay implements a pair of first-in first-out pipes.
THEOREM Refinement == Spec => ImplementsPipe
  BY InitPipe, NextIsAStep, Invariance, PTL DEF Spec, ImplementsPipe, Pipe!Spec

-----------------------------------------------------------------------------
(* The accept loop and the tasks of the connections. *)

\* ForwarderTypeOK without its bound on the pool.
ForwarderTypes ==
  /\ tokenCancelled \in BOOLEAN
  /\ listener \in {"accepting", "backoff", "closed"}
  /\ client \in [Conns -> {"absent", "pending", "open", "closed"}]
  /\ left \in [Conns -> BOOLEAN]
  /\ task \in [Conns -> {"none", "queued", "dialing", "hung", "dialed", "relaying", "ended"}]
  /\ tunnel \in [Conns -> {"none", "open", "closed"}]

PoolBound == Cardinality(Busy) <= PoolSize

\* What one step must know of the step before.
ForwarderInv == ForwarderTypes /\ EndsTogether /\ OnlyCancelStops

LEMMA ForwarderInitInv == ForwarderInit => ForwarderInv
  BY ZenonT(30) DEF ForwarderInit, ForwarderInv, ForwarderTypes, EndsTogether, OnlyCancelStops

\* However a task ends, its client and its tunnel end with it.
LEMMA TaskEndsInv ==
  ASSUME ForwarderInv, NEW c \in Conns, TaskEnds(c), task[c] \notin {"none", "ended"}
  PROVE  ForwarderInv'
  BY DEF ForwarderInv, ForwarderTypes, EndsTogether, OnlyCancelStops, TaskEnds

LEMMA TaskInv ==
  ASSUME ForwarderInv, NEW c \in Conns, Task(c)
  PROVE  ForwarderInv'
  <1>1. CASE DialFails(c) \/ CannotRelay(c) \/ RelayEnds(c) \/ StopRelay(c)
    BY <1>1, TaskEndsInv DEF DialFails, CannotRelay, RelayEnds, StopRelay
  <1>2. CASE StartDial(c)
    BY <1>2 DEF StartDial, ForwarderInv, ForwarderTypes, EndsTogether, OnlyCancelStops
  <1>3. CASE DialSucceeds(c)
    BY <1>3 DEF DialSucceeds, ForwarderInv, ForwarderTypes, EndsTogether, OnlyCancelStops
  <1>4. CASE DialHangs(c)
    BY <1>4 DEF DialHangs, ForwarderInv, ForwarderTypes, EndsTogether, OnlyCancelStops
  <1>5. CASE StartRelay(c)
    BY <1>5 DEF StartRelay, ForwarderInv, ForwarderTypes, EndsTogether, OnlyCancelStops
  <1>6. QED
    BY <1>1, <1>2, <1>3, <1>4, <1>5 DEF Task, Dial

LEMMA ForwarderNextInv ==
  ASSUME ForwarderInv, [ForwarderNext]_forwarderVars
  PROVE  ForwarderInv'
  <1> USE DEF ForwarderInv, ForwarderTypes, EndsTogether, OnlyCancelStops
  <1>1. CASE AcceptFails \/ BackoffOver
    BY <1>1 DEF AcceptFails, BackoffOver
  <1>2. CASE StopAccepting
    BY <1>2 DEF StopAccepting
  <1>3. ASSUME NEW c \in Conns, Accept(c) PROVE ForwarderInv'
    BY <1>3 DEF Accept
  <1>4. ASSUME NEW c \in Conns, Connect(c) PROVE ForwarderInv'
    BY <1>4 DEF Connect
  <1>5. ASSUME NEW c \in Conns, Leave(c) PROVE ForwarderInv'
    BY <1>5 DEF Leave
  <1>6. CASE CancelForwarder
    BY <1>6 DEF CancelForwarder
  <1>7. CASE UNCHANGED forwarderVars
    BY <1>7 DEF forwarderVars
  <1>8. QED
    BY <1>1, <1>2, <1>3, <1>4, <1>5, <1>6, <1>7, TaskInv DEF ForwarderNext, AcceptLoop

THEOREM ForwarderInvariance == ForwarderSpec => []ForwarderInv
  BY ForwarderInitInv, ForwarderNextInv, PTL DEF ForwarderSpec

\* A tunnel and its client live and die together, whatever ends the task.
THEOREM TunnelAndClient == ForwarderSpec => []EndsTogether
  <1>1. ForwarderInv => EndsTogether
    BY DEF ForwarderInv
  <1>2. QED BY <1>1, ForwarderInvariance, PTL

\* Nothing but a cancellation ends the accept loop.
THEOREM ListensUntilCancelled == ForwarderSpec => []OnlyCancelStops
  <1>1. ForwarderInv => OnlyCancelStops
    BY DEF ForwarderInv
  <1>2. QED BY <1>1, ForwarderInvariance, PTL
-----------------------------------------------------------------------------
(* The bound on the dials under way. *)

LEMMA BusyIsFinite ==
  IsFiniteSet(Busy) /\ Cardinality(Busy) \in Nat
  <1>1. IsFiniteSet(Conns) /\ Busy \subseteq Conns
    BY ForwarderAssumption DEF Busy
  <1>2. QED BY <1>1, FS_Subset, FS_CardinalityType

\* Only StartDial puts a dial on the pool.
LEMMA OthersFreeThePool ==
  ASSUME ForwarderTypes, [ForwarderNext]_forwarderVars, \A c \in Conns : ~StartDial(c)
  PROVE  Busy' \subseteq Busy
  <1> USE DEF ForwarderTypes, Busy, OnPool
  <1>1. CASE UNCHANGED task
    BY <1>1
  <1>2. ASSUME NEW c \in Conns, Accept(c) PROVE Busy' \subseteq Busy
    BY <1>2 DEF Accept
  <1>3. ASSUME NEW c \in Conns, Task(c) PROVE Busy' \subseteq Busy
    BY <1>3 DEF Task, Dial, DialSucceeds, DialHangs, DialFails, StartRelay, CannotRelay,
                RelayEnds, StopRelay, TaskEnds
  <1>4. QED
    BY <1>1, <1>2, <1>3 DEF ForwarderNext, AcceptLoop, AcceptFails, BackoffOver, StopAccepting,
                            Connect, Leave, CancelForwarder, forwarderVars

LEMMA PoolStep ==
  ASSUME ForwarderTypes, PoolBound, [ForwarderNext]_forwarderVars
  PROVE  PoolBound'
  <1>1. PoolSize \in Nat
    BY ForwarderAssumption
  <1>2. ASSUME NEW c \in Conns, StartDial(c) PROVE PoolBound'
    <2>1. Busy' = Busy \cup {c} /\ c \notin Busy
      BY <1>2 DEF StartDial, Busy, OnPool, ForwarderTypes
    <2>2. Cardinality(Busy') = Cardinality(Busy) + 1
      BY <2>1, BusyIsFinite, FS_AddElement
    <2>3. QED BY <1>1, <1>2, <2>2, BusyIsFinite DEF StartDial, PoolBound
  <1>3. CASE \A c \in Conns : ~StartDial(c)
    <2>1. Cardinality(Busy') <= Cardinality(Busy) /\ Cardinality(Busy') \in Nat
      BY <1>3, OthersFreeThePool, BusyIsFinite, FS_Subset, FS_CardinalityType
    <2>2. QED BY <1>1, <2>1, BusyIsFinite DEF PoolBound
  <1>4. QED BY <1>2, <1>3

LEMMA PoolInit == ForwarderInit => PoolBound
  <1> SUFFICES ASSUME ForwarderInit PROVE PoolBound
    OBVIOUS
  <1>1. Busy = {}
    BY DEF ForwarderInit, Busy, OnPool
  <1>2. QED BY <1>1, FS_EmptySet, ForwarderAssumption DEF PoolBound

\* Every variable keeps its type and the dials under way never outnumber the pool.
THEOREM ForwarderTypeCorrect == ForwarderSpec => []ForwarderTypeOK
  <1>1. ForwarderInv => ForwarderTypes
    BY DEF ForwarderInv
  <1>2. ForwarderSpec => []PoolBound
    BY <1>1, ForwarderInvariance, PoolInit, PoolStep, PTL DEF ForwarderSpec
  <1>3. ForwarderTypes /\ PoolBound => ForwarderTypeOK
    BY DEF ForwarderTypes, PoolBound, ForwarderTypeOK
  <1>4. QED BY <1>1, <1>2, <1>3, ForwarderInvariance, PTL
=============================================================================
