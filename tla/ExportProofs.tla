---------------------------- MODULE ExportProofs ----------------------------
(***************************************************************************)
(* Proofs about ExportJob, for any formats, results, batch sizes and       *)
(* progress intervals: a job that was asked to stop looks in time, the     *)
(* file of a job that ended without an error is the rows it reports,       *)
(* whoever previews the file sees these rows, and the table made of it     *)
(* takes them.                                                             *)
(*                                                                         *)
(* The invariant of a file relates what is in it and what the encoder      *)
(* still keeps back to the rows taken so far: SoFar while the job goes on, *)
(* FileOf once the encoder is finished.  For a script that is that the     *)
(* rows fill batches, which are written, and leave fewer than a batch over *)
(* (Batched): how many statements there are is a division, and that a row  *)
(* more leaves the statements before it as they are is what BatchesGrow    *)
(* says.  For a delimited file it is what a reader makes of what is        *)
(* written so far (ReadsBack): it stands at the start of a line, with the  *)
(* fields of every row that is not a blank line.  For the JSON formats it  *)
(* is where the objects are (JsonHolds, NdjsonHolds).                      *)
(***************************************************************************)
EXTENDS ExportJob, SequenceFacts, FiniteSetTheorems

-----------------------------------------------------------------------------
(* Multiples and batches. *)

\* A multiple of k lies among any k numbers in a row.
LEMMA MultipleOf ==
  ASSUME NEW k \in Nat \ {0}, NEW q \in Nat
  PROVE  (q * k) % k = 0
  OBVIOUS

LEMMA MultipleAhead ==
  ASSUME NEW k \in Nat \ {0}, NEW n \in Nat
  PROVE  \E m \in n + 1 .. n + k : m % k = 0
  <1>1. n = k * (n \div k) + (n % k) /\ n % k \in 0 .. k - 1 /\ n \div k \in Nat
    OBVIOUS
  <1>2. PICK q \in Nat : q = n \div k
    BY <1>1
  <1>3. PICK r \in 0 .. k - 1 : r = n % k
    BY <1>1
  <1>4. PICK m \in Nat : m = (q + 1) * k
    OBVIOUS
  <1>5. m = q * k + k
    BY <1>4
  <1>6. n = q * k + r
    BY <1>1, <1>2, <1>3
  <1>7. m \in n + 1 .. n + k
    BY <1>5, <1>6
  <1>8. m % k = 0
    BY <1>4, MultipleOf
  <1> QED BY <1>7, <1>8

\* What is left over behind whole batches makes none.
LEMMA WholeBatches ==
  ASSUME NEW k \in Nat \ {0}, NEW q \in Nat, NEW r \in 0 .. k - 1
  PROVE  (q * k + r) \div k = q
  OBVIOUS

\* An encoder has the fields there are.
IsEncoder(e) == e = [ format |-> e.format, batch |-> e.batch, first |-> e.first,
                      open |-> e.open ]

\* The encoder keeps its format, whatever becomes of a row.
LEMMA RowKeepsFormat ==
  ASSUME NEW e, IsEncoder(e), KnownFormat(e.format), NEW row
  PROVE  /\ IsEncoder(WriteRow(e, row).encoder)
         /\ WriteRow(e, row).encoder.format = e.format
  <1>1. CASE e.format.kind = "delimited"
    <2>1. WriteRow(e, row) = WriteDelimitedRow(e, row)
      BY <1>1 DEF WriteRow
    <2>2. \A fields : WriteFields(e, fields).encoder = e
      BY DEF WriteFields, Result
    <2>3. WriteRow(e, row).encoder = e
      BY <2>1, <2>2 DEF WriteDelimitedRow
    <2> QED BY <2>3
  <1>2. CASE e.format.kind = "insert"
    <2>1. WriteRow(e, row) = WriteInsertRow(e, row)
      BY <1>2 DEF WriteRow
    <2>2. PICK out : WriteInsertRow(e, row) = Result(TRUE, out, e)
      BY DEF WriteInsertRow
    <2>3. WriteRow(e, row).encoder = e
      BY <2>1, <2>2 DEF Result
    <2> QED BY <2>3
  <1>3. CASE e.format.kind = "script"
    <2>1. WriteRow(e, row) = WriteScriptRow(e, row)
      BY <1>3 DEF WriteRow
    <2>2. PICK more : more = [e EXCEPT !.batch =
             Append(e.batch, Tuple([i \in DOMAIN row |-> SqlLiteral(row[i])]))]
      OBVIOUS
    <2>3. IsEncoder(more) /\ more.format = e.format
      BY <2>2 DEF IsEncoder
    <2>4. WriteRow(e, row) = IF Len(more.batch) >= AtLeastOne(e.format.batchSize)
                             THEN FlushBatch(more) ELSE Result(TRUE, << >>, more)
      BY <2>1, <2>2 DEF WriteScriptRow
    <2>5. FlushBatch(more).encoder \in {more, [more EXCEPT !.batch = << >>]}
      BY DEF FlushBatch, Result
    <2>6. WriteRow(e, row).encoder \in {more, [more EXCEPT !.batch = << >>]}
      BY <2>4, <2>5 DEF Result
    <2> QED BY <2>3, <2>6 DEF IsEncoder
  <1>4. CASE e.format.kind = "json"
    <2>1. WriteRow(e, row) = WriteJsonRow(e, row)
      BY <1>4 DEF WriteRow
    <2>2. PICK out : WriteJsonRow(e, row) = Result(TRUE, out, [e EXCEPT !.first = FALSE])
      BY DEF WriteJsonRow
    <2>3. WriteRow(e, row).encoder = [e EXCEPT !.first = FALSE]
      BY <2>1, <2>2 DEF Result
    <2> QED BY <2>3 DEF IsEncoder
  <1>5. CASE e.format.kind = "ndjson"
    <2>1. WriteRow(e, row) = WriteNdjsonRow(e, row)
      BY <1>5 DEF WriteRow
    <2>2. WriteRow(e, row).encoder = e
      BY <2>1 DEF WriteNdjsonRow, Result
    <2> QED BY <2>2
  <1>6. CASE e.format.kind = "avro"
    <2>1. WriteRow(e, row).encoder =
            [e EXCEPT !.batch = Append(e.batch, AvroRecord(e, row))]
      BY <1>6 DEF WriteRow, Result
    <2> QED BY <2>1 DEF IsEncoder
  <1>7. CASE e.format.kind = "parquet"
    <2>1. WriteRow(e, row).encoder = [e EXCEPT !.batch = Append(e.batch, row)]
      BY <1>7 DEF WriteRow, Result
    <2> QED BY <2>1 DEF IsEncoder
  <1> QED BY <1>1, <1>2, <1>3, <1>4, <1>5, <1>6, <1>7 DEF KnownFormat

\* Nor does the end of the file change it.
LEMMA EndKeepsFormat ==
  ASSUME NEW e, IsEncoder(e), KnownFormat(e.format)
  PROVE  /\ IsEncoder(FinishEncoder(e).encoder)
         /\ FinishEncoder(e).encoder.format = e.format
  <1>1. CASE e.format.kind = "script"
    <2>1. FlushBatch(e).encoder \in {e, [e EXCEPT !.batch = << >>]}
      BY DEF FlushBatch, Result
    <2>2. FinishEncoder(e) = FlushBatch(e)
      BY <1>1 DEF FinishEncoder
    <2> QED BY <2>1, <2>2 DEF IsEncoder
  <1>2. CASE e.format.kind = "avro"
    <2>1. FinishEncoder(e).encoder = [e EXCEPT !.batch = << >>]
      BY <1>2 DEF FinishEncoder, Result
    <2> QED BY <2>1 DEF IsEncoder
  <1>3. CASE e.format.kind = "parquet"
    <2>1. FinishEncoder(e) = FinishParquet(e)
      BY <1>3 DEF FinishEncoder
    <2>2. FinishParquet(e).encoder \in {e, [e EXCEPT !.open = FALSE]}
      BY DEF FinishParquet, Result
    <2> QED BY <2>1, <2>2 DEF IsEncoder
  <1>4. CASE e.format.kind \in {"delimited", "insert", "json", "ndjson"}
    <2>1. FinishEncoder(e).encoder = e
      BY <1>4 DEF FinishEncoder, Result
    <2> QED BY <2>1
  <1> QED BY <1>1, <1>2, <1>3, <1>4 DEF KnownFormat

\* What the constructor leaves.
LEMMA NewIsEmpty ==
  ASSUME NEW format, KnownFormat(format)
  PROVE  /\ NewEncoder(format).encoder = [ format |-> format, batch |-> << >>,
                                           first |-> TRUE, open |-> TRUE ]
         /\ IsEncoder(NewEncoder(format).encoder)
         /\ NewEncoder(format).encoder.format = format
  <1>1. PICK e : e = [ format |-> format, batch |-> << >>, first |-> TRUE, open |-> TRUE ]
    OBVIOUS
  <1>2. CASE format.kind = "delimited"
    <2>1. WriteFields(e, format.columns).encoder = e
      BY DEF WriteFields, Result
    <2>2. NewEncoder(format).encoder = e
      BY <1>1, <1>2, <2>1 DEF NewEncoder, Result
    <2> QED BY <1>1, <2>2 DEF IsEncoder
  <1>3. CASE format.kind = "script"
    <2>1. CreateTable(e).encoder = e
      BY DEF CreateTable, Result
    <2>2. NewEncoder(format).encoder = e
      BY <1>1, <1>3, <2>1 DEF NewEncoder, Result
    <2> QED BY <1>1, <2>2 DEF IsEncoder
  <1>4. CASE format.kind \in {"insert", "json", "ndjson", "avro", "parquet"}
    <2>1. NewEncoder(format).encoder = e
      BY <1>1, <1>4 DEF NewEncoder, Result
    <2> QED BY <1>1, <2>1 DEF IsEncoder
  <1> QED BY <1>2, <1>3, <1>4 DEF KnownFormat

-----------------------------------------------------------------------------
(* The course of a job. *)

Places == {"rows", "progress", "check", "finish", "last", "outcome", "over"}

\* The job keeps its format and its rows, and takes them one by one; it is past them all
\* when it ends without a cancellation.
OnCourse ==
  /\ IsEncoder(encoder) /\ Format \in Formats /\ rows \in Results(Format)
  /\ rowsWritten \in Nat /\ rowsWritten <= Len(rows)
  /\ pc \in Places
  /\ job = [status |-> job.status, artifacts |-> job.artifacts]
  /\ pc # "over" => job.status = "running"
  /\ pc \in {"finish", "last", "outcome"} /\ ~cancelled => rowsWritten = Len(rows)
  /\ job.status = "succeeded" => /\ rowsWritten = Len(rows)
                                 /\ job.artifacts = {Len(rows)}

\* What the assumption says of one format and one result.
LEMMA RowsOfAFormat ==
  ASSUME NEW format \in Formats, NEW table \in Results(format)
  PROVE  /\ KnownFormat(format) /\ table \in Seq(Seq(Cells)) /\ Len(table) \in Nat
         /\ \A r \in DOMAIN table : RowFits(table[r], format)
  BY ExportAssumption

\* A job starts on its course, or is over before it starts.
LEMMA CourseInit == Init => OnCourse
  <1> SUFFICES ASSUME Init PROVE OnCourse
    OBVIOUS
  <1>1. PICK format \in Formats :
          /\ rows \in Results(format)
          /\ encoder = NewEncoder(format).encoder
          /\ pc = IF NewEncoder(format).ok THEN "rows" ELSE "over"
          /\ job = [ status |-> IF NewEncoder(format).ok THEN "running" ELSE "none",
                     artifacts |-> {} ]
          /\ rowsWritten = 0
    BY DEF Init
  <1>2. KnownFormat(format) /\ Len(rows) \in Nat
    BY <1>1, RowsOfAFormat
  <1>3. IsEncoder(encoder) /\ encoder.format = format
    BY <1>1, <1>2, NewIsEmpty
  <1>4. pc \in Places /\ rowsWritten \in Nat /\ rowsWritten <= Len(rows)
    BY <1>1, <1>2 DEF Places
  <1>5. /\ job = [status |-> job.status, artifacts |-> job.artifacts]
        /\ pc # "over" => job.status = "running"
        /\ job.status # "succeeded" /\ pc \notin {"finish", "last", "outcome"}
    BY <1>1
  <1> QED BY <1>1, <1>3, <1>4, <1>5 DEF OnCourse, Format

\* An error leaves everything but the job's end as it is.
LEMMA CourseFails ==
  ASSUME OnCourse, JobFails, UNCHANGED <<rows, rowsWritten, cancelled>>,
         IsEncoder(encoder'), encoder'.format = encoder.format
  PROVE  OnCourse'
  <1>1. pc' = "over" /\ job' = [status |-> "failed", artifacts |-> job.artifacts]
    BY DEF JobFails, OnCourse
  <1>2. pc' \in Places /\ job'.status = "failed"
        /\ job' = [status |-> job'.status, artifacts |-> job'.artifacts]
    BY <1>1 DEF Places
  <1> QED BY <1>1, <1>2 DEF OnCourse, Format

\* No step leaves the course.
LEMMA CourseNext ==
  ASSUME OnCourse, [Next]_vars
  PROVE  OnCourse'
  <1>0. KnownFormat(encoder.format) /\ Len(rows) \in Nat
    BY RowsOfAFormat DEF OnCourse, Format
  <1>1. CASE RequestCancel
    BY <1>1 DEF RequestCancel, OnCourse, Format
  <1>2. CASE ExportRow
    <2>1. PICK w : w = WriteRow(encoder, rows[rowsWritten + 1])
      OBVIOUS
    <2>2. encoder' = w.encoder /\ UNCHANGED <<rows, cancelled>>
      BY <1>2, <2>1 DEF ExportRow
    <2>3. IsEncoder(encoder') /\ encoder'.format = encoder.format
      BY <1>0, <2>1, <2>2, RowKeepsFormat DEF OnCourse
    <2>4. CASE w.ok
      <3>1. /\ rowsWritten' = rowsWritten + 1 /\ pc' \in {"progress", "rows"}
            /\ UNCHANGED job /\ pc = "rows" /\ rowsWritten < Len(rows)
        BY <1>2, <2>1, <2>4 DEF ExportRow
      <3>2. rowsWritten' \in Nat /\ rowsWritten' <= Len(rows') /\ pc' \in Places
        BY <1>0, <2>2, <3>1 DEF OnCourse, Places
      <3> QED BY <2>2, <2>3, <3>1, <3>2 DEF OnCourse, Format
    <2>5. CASE ~w.ok
      <3>1. JobFails /\ UNCHANGED rowsWritten
        BY <1>2, <2>1, <2>5 DEF ExportRow
      <3> QED BY <2>2, <2>3, <3>1, CourseFails
    <2> QED BY <2>4, <2>5
  <1>3. CASE RowsAreOver
    BY <1>3 DEF RowsAreOver, OnCourse, Format, Places
  <1>4. ASSUME NEW ok \in BOOLEAN, ReportProgress(ok) PROVE OnCourse'
    <2>1. CASE ok
      BY <1>4, <2>1 DEF ReportProgress, OnCourse, Format, Places
    <2>2. CASE ~ok
      <3>1. JobFails /\ UNCHANGED <<rows, rowsWritten, cancelled, encoder>>
        BY <1>4, <2>2 DEF ReportProgress
      <3> QED BY <3>1, CourseFails DEF OnCourse
    <2> QED BY <2>1, <2>2
  <1>5. CASE CheckCancel
    <2>1. /\ cancelled' = (cancelAt # Absent) /\ pc' = IF cancelled' THEN "finish" ELSE "rows"
          /\ pc = "check" /\ UNCHANGED <<rows, encoder, rowsWritten, job>>
      BY <1>5 DEF CheckCancel
    <2>2. CASE cancelled'
      BY <2>1, <2>2 DEF OnCourse, Format, Places
    <2>3. CASE ~cancelled'
      BY <2>1, <2>3 DEF OnCourse, Format, Places
    <2> QED BY <2>2, <2>3
  <1>6. CASE Finish
    <2>1. PICK w : w = FinishEncoder(encoder)
      OBVIOUS
    <2>2. encoder' = w.encoder /\ UNCHANGED <<rows, rowsWritten, cancelled>>
      BY <1>6, <2>1 DEF Finish
    <2>3. IsEncoder(encoder') /\ encoder'.format = encoder.format
      BY <1>0, <2>1, <2>2, EndKeepsFormat DEF OnCourse
    <2>4. CASE w.ok
      <3>1. pc = "finish" /\ pc' \in {"outcome", "last"} /\ UNCHANGED job
        BY <1>6, <2>1, <2>4 DEF Finish
      <3> QED BY <2>2, <2>3, <3>1 DEF OnCourse, Format, Places
    <2>5. CASE ~w.ok
      <3>1. JobFails
        BY <1>6, <2>1, <2>5 DEF Finish
      <3> QED BY <2>2, <2>3, <3>1, CourseFails
    <2> QED BY <2>4, <2>5
  <1>7. ASSUME NEW ok \in BOOLEAN, ReportLast(ok) PROVE OnCourse'
    <2>1. CASE ok
      BY <1>7, <2>1 DEF ReportLast, OnCourse, Format, Places
    <2>2. CASE ~ok
      <3>1. JobFails /\ UNCHANGED <<rows, rowsWritten, cancelled, encoder>>
        BY <1>7, <2>2 DEF ReportLast
      <3> QED BY <3>1, CourseFails DEF OnCourse
    <2> QED BY <2>1, <2>2
  <1>8. CASE Outcome
    <2>1. /\ pc = "outcome" /\ pc' = "over"
          /\ job' = IF cancelled THEN [status |-> "cancelled", artifacts |-> {}]
                    ELSE [status |-> "succeeded", artifacts |-> {rowsWritten}]
          /\ UNCHANGED <<rows, encoder, rowsWritten, cancelled>>
      BY <1>8 DEF Outcome
    <2>2. CASE cancelled
      BY <2>1, <2>2 DEF OnCourse, Format, Places
    <2>3. CASE ~cancelled
      BY <2>1, <2>3 DEF OnCourse, Format, Places
    <2> QED BY <2>2, <2>3
  <1>9. CASE WriterFails
    <2>1. JobFails /\ UNCHANGED <<rows, rowsWritten, cancelled, encoder>>
      BY <1>9 DEF WriterFails
    <2> QED BY <2>1, CourseFails DEF OnCourse
  <1>10. CASE Preview
    BY <1>10 DEF Preview, OnCourse, Format
  <1>11. CASE UNCHANGED vars
    BY <1>11 DEF vars, OnCourse, Format
  <1> QED BY <1>1, <1>2, <1>3, <1>4, <1>5, <1>6, <1>7, <1>8, <1>9, <1>10, <1>11 DEF Next

\* A job keeps to its course.
THEOREM StaysOnCourse == Spec => []OnCourse
  BY CourseInit, CourseNext, PTL DEF Spec

-----------------------------------------------------------------------------
(* A job that was asked to stop. *)

\* Since then it has reached at most one row behind which it looks for the request,
\* and taken none after it.
LooksInTime ==
  cancelAt # Absent =>
    /\ cancelAt \in Nat /\ cancelAt <= rowsWritten
    /\ \A m \in Nat : cancelAt < m /\ m <= rowsWritten /\ Due(m) =>
                        m = rowsWritten /\ pc # "rows"

\* Nobody has asked yet.
LEMMA LooksInit == Init => LooksInTime
  BY DEF Init, LooksInTime

\* A row is followed by the look that is due behind it, before the next row.
LEMMA LooksNext ==
  ASSUME OnCourse, LooksInTime, [Next]_vars
  PROVE  LooksInTime'
  <1>0. rowsWritten \in Nat
    BY DEF OnCourse
  <1>1. CASE RequestCancel
    BY <1>0, <1>1 DEF RequestCancel, LooksInTime
  <1>2. CASE ExportRow
    <2>1. pc = "rows" /\ UNCHANGED cancelAt
      BY <1>2 DEF ExportRow
    <2>2. CASE rowsWritten' = rowsWritten + 1
               /\ pc' = IF Due(rowsWritten + 1) THEN "progress" ELSE "rows"
      <3>1. ASSUME cancelAt # Absent, NEW m \in Nat, cancelAt < m, m <= rowsWritten',
                   Due(m)
            PROVE  m = rowsWritten' /\ pc' # "rows"
        <4>1. m = rowsWritten + 1
          BY <1>0, <2>1, <2>2, <3>1 DEF LooksInTime
        <4> QED BY <2>2, <3>1, <4>1
      <3>2. cancelAt # Absent => cancelAt \in Nat /\ cancelAt <= rowsWritten'
        BY <1>0, <2>2 DEF LooksInTime
      <3> QED BY <2>1, <3>1, <3>2 DEF LooksInTime
    <2>3. CASE pc' = "over" /\ UNCHANGED rowsWritten
      BY <2>1, <2>3 DEF LooksInTime
    <2> QED BY <1>2, <2>2, <2>3 DEF ExportRow, JobFails
  <1>3. CASE RowsAreOver
    BY <1>3 DEF RowsAreOver, LooksInTime
  <1>4. ASSUME NEW ok \in BOOLEAN, ReportProgress(ok) PROVE LooksInTime'
    <2>1. pc' \in {"check", "over"} /\ UNCHANGED <<rowsWritten, cancelAt>>
      BY <1>4 DEF ReportProgress, JobFails
    <2> QED BY <2>1 DEF LooksInTime
  <1>5. CASE CheckCancel
    <2>1. UNCHANGED <<rowsWritten, cancelAt>>
      BY <1>5 DEF CheckCancel
    <2>2. cancelAt # Absent => pc' = "finish"
      BY <1>5 DEF CheckCancel
    <2> QED BY <2>1, <2>2 DEF LooksInTime
  <1>6. CASE Finish
    <2>1. pc' \in {"over", "outcome", "last"} /\ UNCHANGED <<rowsWritten, cancelAt>>
      BY <1>6 DEF Finish, JobFails
    <2> QED BY <2>1 DEF LooksInTime
  <1>7. ASSUME NEW ok \in BOOLEAN, ReportLast(ok) PROVE LooksInTime'
    <2>1. pc' \in {"outcome", "over"} /\ UNCHANGED <<rowsWritten, cancelAt>>
      BY <1>7 DEF ReportLast, JobFails
    <2> QED BY <2>1 DEF LooksInTime
  <1>8. CASE Outcome
    BY <1>8 DEF Outcome, LooksInTime
  <1>9. CASE WriterFails
    BY <1>9 DEF WriterFails, JobFails, LooksInTime
  <1>10. CASE Preview
    BY <1>10 DEF Preview, LooksInTime
  <1>11. CASE UNCHANGED vars
    BY <1>11 DEF vars, LooksInTime
  <1> QED BY <1>1, <1>2, <1>3, <1>4, <1>5, <1>6, <1>7, <1>8, <1>9, <1>10, <1>11 DEF Next

\* Between two looks lie no more rows than the interval.
LEMMA InTimeIsSoon ==
  ASSUME OnCourse, LooksInTime
  PROVE  CancelStopsSoon
  <1>1. PICK k \in Nat \ {0} : k = AtLeastOne(ProgressEvery)
    BY ExportAssumption DEF AtLeastOne
  <1>2. SUFFICES ASSUME cancelAt # Absent, ~(rowsWritten <= cancelAt + k) PROVE FALSE
    BY <1>1 DEF CancelStopsSoon
  <1>3. rowsWritten \in Nat /\ cancelAt \in Nat
    BY <1>2 DEF OnCourse, LooksInTime
  <1>4. PICK m \in cancelAt + 1 .. cancelAt + k : m % k = 0
    BY <1>3, MultipleAhead
  <1>5. m \in Nat /\ cancelAt < m /\ m < rowsWritten
    BY <1>2, <1>3
  <1>6. Due(m)
    BY <1>1, <1>4 DEF Due
  <1> QED BY <1>2, <1>3, <1>5, <1>6 DEF LooksInTime

\* A job that was asked to stop takes no more rows than up to the next time it looks
\* (export_with checks should_cancel behind every progress_every-th row), for any
\* interval, format and result.
THEOREM CancelIsSeenInTime == Spec => []CancelStopsSoon
  <1>1. Spec => []LooksInTime
    BY LooksInit, LooksNext, StaysOnCourse, PTL DEF Spec
  <1> QED BY <1>1, InTimeIsSoon, StaysOnCourse, PTL

-----------------------------------------------------------------------------
(* Statements and their literals. *)

\* What statements are made of.
Words == Tokens \cup {"(", ")", ",", "'", ";", "NULL", "INSERT", "UPSERT",
                      "CREATE", "NOT NULL"}

\* Types of small sequences.
LEMMA OneWord ==
  ASSUME NEW S, NEW x \in S
  PROVE  <<x>> \in Seq(S)
  OBVIOUS

LEMMA MapType ==
  ASSUME NEW S, NEW n \in Nat, NEW f \in [1 .. n -> S]
  PROVE  f \in Seq(S) /\ Len(f) = n
  OBVIOUS

LEMMA WordsAre ==
  /\ "(" \in Words /\ ")" \in Words /\ "," \in Words /\ "'" \in Words
  /\ ";" \in Words /\ "NULL" \in Words /\ "INSERT" \in Words
  /\ "UPSERT" \in Words /\ "CREATE" \in Words /\ "NOT NULL" \in Words
  BY DEF Words

LEMMA WordsOfTexts ==
  ASSUME NEW t \in Seq(Tokens)
  PROVE  t \in Seq(Words)
  BY SeqMonotonic DEF Words

\* What is quoted, and what is a tuple, is made of the same words and of these.
LEMMA QuotedOver ==
  ASSUME NEW S, "'" \in S, NEW t \in Seq(S)
  PROVE  SqlText(t) \in Seq(S)
  <1>1. PICK quote \in Seq(S) : quote = <<"'">>
    BY OneWord
  <1>2. DOMAIN t = 1 .. Len(t) /\ Len(t) \in Nat
    OBVIOUS
  <1>3. \A i \in 1 .. Len(t) :
          (IF t[i] = "'" THEN <<"'", "'">> ELSE <<t[i]>>) \in Seq(S)
    <2>1. <<"'", "'">> \in Seq(S)
      OBVIOUS
    <2>2. \A i \in 1 .. Len(t) : <<t[i]>> \in Seq(S)
      OBVIOUS
    <2> QED BY <2>1, <2>2
  <1>4. PICK u : u = [i \in DOMAIN t |-> IF t[i] = "'" THEN <<"'", "'">> ELSE <<t[i]>>]
    OBVIOUS
  <1>5. u \in [1 .. Len(t) -> Seq(S)]
    BY <1>2, <1>3, <1>4
  <1>6. u \in Seq(Seq(S))
    BY <1>2, <1>5, MapType
  <1>7. PICK inner \in Seq(S) : inner = FlattenSeq(u)
    BY <1>6, FlattenType
  <1>8. (quote \o inner) \o quote \in Seq(S)
    BY ConcatProperties
  <1> QED BY <1>1, <1>4, <1>7, <1>8 DEF SqlText, Quoted

\* A quoted text, a literal, a tuple, a statement are sequences of words.
LEMMA QuotedType ==
  ASSUME NEW t \in Seq(Words)
  PROVE  SqlText(t) \in Seq(Words)
  BY WordsAre, QuotedOver

LEMMA LiteralTypes ==
  ASSUME NEW cell \in Cells
  PROVE  InsertLiteral(cell) \in Seq(Words) /\ SqlLiteral(cell) \in Seq(Words)
  <1>1. CASE cell = Null
    <2>1. cell.type = "null"
      BY <1>1 DEF Null, CellOf
    <2>2. <<"NULL">> \in Seq(Words)
      BY DEF Words
    <2> QED BY <2>1, <2>2 DEF InsertLiteral, SqlLiteral
  <1>2. CASE cell # Null
    <2>1. /\ cell.type \in {"bool", "int", "float", "text"}
          /\ cell.text \in Seq(Tokens)
      BY <1>2 DEF Cells, CellTypes
    <2>2. cell.text \in Seq(Words)
      BY <2>1, WordsOfTexts
    <2>3. SqlText(cell.text) \in Seq(Words)
      BY <2>2, QuotedType
    <2>4. <<"NULL">> \in Seq(Words)
      BY DEF Words
    <2> QED BY <2>1, <2>2, <2>3, <2>4 DEF InsertLiteral, SqlLiteral
  <1> QED BY <1>1, <1>2

\* The texts of a sequence with the separator in front of all but the first.
Separated(texts, separator) ==
  [i \in DOMAIN texts |-> IF i = 1 THEN texts[i] ELSE separator \o texts[i]]

LEMMA JoinedType ==
  ASSUME NEW S, NEW texts \in Seq(Seq(S)), NEW separator \in Seq(S)
  PROVE  Joined(texts, separator) \in Seq(S)
  <1>1. \A i \in DOMAIN texts : separator \o texts[i] \in Seq(S)
    BY ConcatProperties
  <1>2. \A i \in DOMAIN texts :
          (IF i = 1 THEN texts[i] ELSE separator \o texts[i]) \in Seq(S)
    BY <1>1
  <1>3. PICK n \in Nat : DOMAIN texts = 1 .. n
    OBVIOUS
  <1>4. Separated(texts, separator) \in [1 .. n -> Seq(S)]
    BY <1>2, <1>3 DEF Separated
  <1>5. Separated(texts, separator) \in Seq(Seq(S))
    BY <1>4
  <1> QED BY <1>5, FlattenType DEF Joined, Separated

LEMMA TupleOver ==
  ASSUME NEW S, "(" \in S, "," \in S, ")" \in S, NEW literals \in Seq(Seq(S))
  PROVE  Tuple(literals) \in Seq(S)
  <1>1. PICK comma \in Seq(S) : comma = <<",">>
    BY OneWord
  <1>2. PICK open \in Seq(S) : open = <<"(">>
    BY OneWord
  <1>3. PICK close \in Seq(S) : close = <<")">>
    BY OneWord
  <1>4. PICK j \in Seq(S) : j = Joined(literals, comma)
    BY JoinedType
  <1>5. (open \o j) \o close \in Seq(S)
    BY ConcatProperties
  <1> QED BY <1>1, <1>2, <1>3, <1>4, <1>5 DEF Tuple

LEMMA TupleType ==
  ASSUME NEW literals \in Seq(Seq(Words))
  PROVE  Tuple(literals) \in Seq(Words)
  BY WordsAre, TupleOver

\* The literals of a row, as either encoder writes them.
InsertTuple(row) == Tuple([i \in DOMAIN row |-> InsertLiteral(row[i])])
ScriptTuple(row) == Tuple([i \in DOMAIN row |-> SqlLiteral(row[i])])

LEMMA RowTupleTypes ==
  ASSUME NEW row \in Seq(Cells)
  PROVE  InsertTuple(row) \in Seq(Words) /\ ScriptTuple(row) \in Seq(Words)
  <1>1. /\ DOMAIN row = 1 .. Len(row) /\ Len(row) \in Nat
        /\ \A i \in 1 .. Len(row) : row[i] \in Cells
    OBVIOUS
  <1>2. PICK u \in [1 .. Len(row) -> Seq(Words)] :
          u = [i \in DOMAIN row |-> InsertLiteral(row[i])]
    BY <1>1, LiteralTypes
  <1>3. PICK v \in [1 .. Len(row) -> Seq(Words)] :
          v = [i \in DOMAIN row |-> SqlLiteral(row[i])]
    BY <1>1, LiteralTypes
  <1>4. u \in Seq(Seq(Words)) /\ v \in Seq(Seq(Words))
    BY <1>1, MapType
  <1>5. Tuple(u) \in Seq(Words) /\ Tuple(v) \in Seq(Words)
    BY <1>4, TupleType
  <1> QED BY <1>2, <1>3, <1>5 DEF InsertTuple, ScriptTuple

LEMMA StatementType ==
  ASSUME NEW batch \in Seq(Seq(Words)), NEW clause \in Seq(Words)
  PROVE  Statement(batch, clause) \in Seq(Words)
  <1>1. PICK comma \in Seq(Words) : comma = <<",">>
    BY WordsAre, OneWord
  <1>2. PICK head \in Seq(Words) : head = <<"INSERT">>
    BY WordsAre, OneWord
  <1>3. PICK end \in Seq(Words) : end = <<";">>
    BY WordsAre, OneWord
  <1>4. PICK j \in Seq(Words) : j = Joined(batch, comma)
    BY JoinedType
  <1>5. ((head \o j) \o clause) \o end \in Seq(Words)
    BY ConcatProperties
  <1> QED BY <1>1, <1>2, <1>3, <1>4, <1>5 DEF Statement

-----------------------------------------------------------------------------
(* Batches. *)

\* How many batches there are, and the rows of one of them.
BatchCount(rowsOf, size) == (Len(rowsOf) + size - 1) \div size
BatchRows(rowsOf, size, b) ==
  SubSeq(rowsOf, (b - 1) * size + 1,
         IF b = BatchCount(rowsOf, size) THEN Len(rowsOf) ELSE b * size)
BatchTexts(rowsOf, size, clause) ==
  [b \in 1 .. BatchCount(rowsOf, size) |-> Statement(BatchRows(rowsOf, size, b), clause)]

\* The batches of the property, in these names.
LEMMA BatchesAre ==
  ASSUME NEW rowsOf, NEW size, NEW clause
  PROVE  Batches(rowsOf, size, clause) = FlattenSeq(BatchTexts(rowsOf, size, clause))
  BY DEF Batches, BatchTexts, BatchRows, BatchCount

\* So many rows fill so many batches.
LEMMA FullBatches ==
  ASSUME NEW done \in Seq(Seq(Words)), NEW q \in Nat, NEW k \in Nat \ {0},
         Len(done) = q * k
  PROVE  BatchCount(done, k) = q
  <1>1. PICK n \in Nat : n = q * k
    OBVIOUS
  <1>2. PICK r \in 0 .. k - 1 : r = k - 1
    OBVIOUS
  <1>3. (n + r) \div k = q
    BY <1>1, WholeBatches
  <1>4. Len(done) + k - 1 = n + r
    BY <1>1, <1>2
  <1> QED BY <1>3, <1>4 DEF BatchCount

\* The batches of full ones, each of its own rows.
LEMMA FullBatchRows ==
  ASSUME NEW done \in Seq(Seq(Words)), NEW q \in Nat, NEW k \in Nat \ {0},
         Len(done) = q * k, NEW b \in 1 .. q
  PROVE  BatchRows(done, k, b) = SubSeq(done, (b - 1) * k + 1, b * k)
  <1>1. BatchCount(done, k) = q
    BY FullBatches
  <1>2. CASE b = q
    BY <1>1, <1>2 DEF BatchRows
  <1>3. CASE b # q
    BY <1>1, <1>3 DEF BatchRows
  <1> QED BY <1>2, <1>3

\* Each of them is a statement.
LEMMA FullBatchTexts ==
  ASSUME NEW done \in Seq(Seq(Words)), NEW q \in Nat, NEW k \in Nat \ {0},
         Len(done) = q * k, NEW clause \in Seq(Words)
  PROVE  BatchTexts(done, k, clause) \in [1 .. q -> Seq(Words)]
  <1>1. BatchCount(done, k) = q
    BY FullBatches
  <1>2. ASSUME NEW b \in 1 .. q
        PROVE  Statement(BatchRows(done, k, b), clause) \in Seq(Words)
    <2>1. PICK m \in Nat : m = (b - 1) * k
      OBVIOUS
    <2>2. PICK n \in Nat : n = b * k
      OBVIOUS
    <2>3. n <= q * k
      BY <2>2
    <2>4. \A i \in m + 1 .. n : done[i] \in Seq(Words)
      BY <2>3
    <2>5. SubSeq(done, m + 1, n) \in Seq(Seq(Words))
      BY <2>4, SubSeqProperties
    <2>6. BatchRows(done, k, b) \in Seq(Seq(Words))
      BY ZenonT(30), <2>1, <2>2, <2>5, FullBatchRows
    <2> QED BY <2>6, StatementType
  <1> QED BY <1>1, <1>2 DEF BatchTexts

\* Facts about sequences, for the sequences there are here.
LEMMA AppendTuple ==
  ASSUME NEW a \in Seq(Seq(Words)), NEW b \in Seq(Seq(Words)), NEW x \in Seq(Words)
  PROVE  Append(a \o b, x) = a \o Append(b, x)
  <1>1. PICK one \in Seq(Seq(Words)) : one = <<x>>
    BY OneWord
  <1>2. PICK c \in Seq(Seq(Words)) : c = a \o b
    BY ConcatProperties
  <1>3. (a \o b) \o one = a \o (b \o one)
    BY SMTT(30), ConcatAssociative
  <1>4. Append(c, x) = c \o one
    BY <1>1, AppendIsConcat
  <1>5. Append(b, x) = b \o one
    BY <1>1, AppendIsConcat
  <1> QED BY <1>2, <1>3, <1>4, <1>5

LEMMA OneByOne ==
  ASSUME NEW a \in Seq(Words), NEW b \in Seq(Words), NEW c \in Seq(Words)
  PROVE  (a \o b) \o c = a \o (b \o c)
  BY ConcatAssociative

LEMMA NoneOf ==
  ASSUME NEW S
  PROVE  << >> \in Seq(S) /\ Len(<< >>) = 0
  BY EmptySeq

\* Behind full batches the next rows are a batch of their own.
IsNextBatch(all, done, q, k, batch) ==
  /\ BatchCount(all, k) = q + 1
  /\ \A b \in 1 .. q : BatchRows(all, k, b) = BatchRows(done, k, b)
  /\ BatchRows(all, k, q + 1) = batch

LEMMA NextBatch ==
  ASSUME NEW done \in Seq(Seq(Words)), NEW q \in Nat, NEW k \in Nat \ {0},
         Len(done) = q * k, NEW batch \in Seq(Seq(Words)), Len(batch) \in 1 .. k
  PROVE  IsNextBatch(done \o batch, done, q, k, batch)
  <1>1. PICK all \in Seq(Seq(Words)) : all = done \o batch
    BY ConcatProperties
  <1>2. PICK n \in Nat : n = q * k
    OBVIOUS
  <1>3. PICK r \in 1 .. k : r = Len(batch)
    OBVIOUS
  <1>4. Len(all) = n + r
    BY SMTT(30), <1>1, <1>2, <1>3
  <1>5. BatchCount(all, k) = q + 1
    <2>1. PICK s \in 0 .. k - 1 : s = r - 1
      OBVIOUS
    <2>2. PICK p \in Nat : p = q + 1
      OBVIOUS
    <2>3. PICK m \in Nat : m = p * k
      OBVIOUS
    <2>4. m = n + k
      BY <1>2, <2>2, <2>3
    <2>5. (m + s) \div k = p
      BY <2>3, WholeBatches
    <2>6. Len(all) + k - 1 = m + s
      BY <1>4, <2>1, <2>4
    <2> QED BY <2>2, <2>5, <2>6 DEF BatchCount
  <1>6. ASSUME NEW b \in 1 .. q
        PROVE  BatchRows(all, k, b) = BatchRows(done, k, b)
    <2>1. PICK m \in Nat : m = (b - 1) * k
      OBVIOUS
    <2>2. PICK e \in Nat : e = b * k
      OBVIOUS
    <2>3. e = m + k /\ e <= n
      BY <1>2, <2>1, <2>2
    <2>4. m + 1 \in 1 .. Len(done) /\ e \in 1 .. Len(done)
      BY <1>2, <2>3
    <2>5. SubSeq(all, m + 1, e) = SubSeq(done, m + 1, e)
      BY <1>1, <2>4, SubSeqOfConcat1
    <2>6. BatchRows(all, k, b) = SubSeq(all, m + 1, e)
      <3>1. b # q + 1
        OBVIOUS
      <3> QED BY <1>5, <2>1, <2>2, <3>1 DEF BatchRows
    <2>7. BatchRows(done, k, b) = SubSeq(done, m + 1, e)
      BY <2>1, <2>2, FullBatchRows
    <2> QED BY <2>5, <2>6, <2>7
  <1>7. BatchRows(all, k, q + 1) = batch
    <2>1. (q + 1) - 1 = q
      OBVIOUS
    <2>2. BatchRows(all, k, q + 1) = SubSeq(all, n + 1, n + r)
      BY <1>2, <1>4, <1>5, <2>1 DEF BatchRows
    <2>3. /\ n + 1 \in Len(done) + 1 .. Len(done) + Len(batch)
          /\ n + r \in Len(done) + 1 .. Len(done) + Len(batch)
          /\ (n + 1) - Len(done) = 1 /\ (n + r) - Len(done) = r
      BY <1>2, <1>3
    <2>4. SubSeq(all, n + 1, n + r) = SubSeq(batch, (n + 1) - Len(done), (n + r) - Len(done))
      BY SMTT(30), <1>1, <2>3, SubSeqOfConcat2
    <2>5. SubSeq(batch, 1, Len(batch)) = batch
      BY SubSeqFull
    <2> QED BY <1>3, <2>2, <2>3, <2>4, <2>5
  <1> QED BY <1>1, <1>5, <1>6, <1>7 DEF IsNextBatch

\* A batch more is a statement more.
LEMMA BatchesGrow ==
  ASSUME NEW done \in Seq(Seq(Words)), NEW q \in Nat, NEW k \in Nat \ {0},
         Len(done) = q * k, NEW batch \in Seq(Seq(Words)), Len(batch) \in 1 .. k,
         NEW clause \in Seq(Words)
  PROVE  Batches(done \o batch, k, clause)
           = Batches(done, k, clause) \o Statement(batch, clause)
  <1>1. PICK all : all = done \o batch
    OBVIOUS
  <1>2. BatchCount(done, k) = q
    BY FullBatches
  <1>0. IsNextBatch(done \o batch, done, q, k, batch)
    BY NextBatch
  <1>3. BatchCount(all, k) = q + 1
    BY <1>0, <1>1 DEF IsNextBatch
  <1>4. \A b \in 1 .. q : BatchRows(all, k, b) = BatchRows(done, k, b)
    BY <1>0, <1>1 DEF IsNextBatch
  <1>5. BatchRows(all, k, q + 1) = batch
    BY <1>0, <1>1 DEF IsNextBatch
  <1>6. PICK u \in [1 .. q -> Seq(Words)] : u = BatchTexts(done, k, clause)
    BY FullBatchTexts
  <1>7. u \in Seq(Seq(Words)) /\ Len(u) = q
    BY MapType
  <1>8. PICK s \in Seq(Words) : s = Statement(batch, clause)
    BY StatementType
  <1>9. PICK w \in Seq(Seq(Words)) : w = Append(u, s)
    BY <1>7, AppendProperties
  <1>10. /\ Len(w) = q + 1 /\ w[q + 1] = s
         /\ \A b \in 1 .. q : w[b] = u[b]
    BY SMTT(30), <1>7, <1>9
  <1>11. PICK v : v = BatchTexts(all, k, clause)
    OBVIOUS
  <1>12. \A b \in 1 .. q : u[b] = Statement(BatchRows(done, k, b), clause)
    BY <1>2, <1>6 DEF BatchTexts
  <1>13. v = [b \in 1 .. q + 1 |-> Statement(BatchRows(all, k, b), clause)]
    BY <1>3, <1>11 DEF BatchTexts
  <1>14. \A b \in 1 .. q + 1 : v[b] = w[b]
    <2>1. \A b \in 1 .. q : v[b] = w[b]
      BY <1>4, <1>10, <1>12, <1>13
    <2>2. v[q + 1] = w[q + 1]
      BY <1>5, <1>8, <1>10, <1>13
    <2>3. \A b \in 1 .. q + 1 : b \in 1 .. q \/ b = q + 1
      OBVIOUS
    <2> QED BY Zenon, <2>1, <2>2, <2>3
  <1>15. v = w
    <2>1. DOMAIN w = 1 .. q + 1 /\ w = [b \in 1 .. q + 1 |-> w[b]]
      BY <1>10
    <2>2. v = [b \in 1 .. q + 1 |-> v[b]]
      BY <1>13
    <2> QED BY <1>14, <2>1, <2>2
  <1>16. FlattenSeq(w) = FlattenSeq(u) \o s
    BY <1>7, <1>9, FlattenAppend
  <1> QED BY <1>1, <1>6, <1>8, <1>11, <1>15, <1>16, BatchesAre

\* So many rows fill batches and leave none over.
Fills(done, q, k) == Len(done) = q * k

LEMMA OneMoreBatch ==
  ASSUME NEW done \in Seq(Seq(Words)), NEW q \in Nat, NEW k \in Nat \ {0},
         Fills(done, q, k), NEW batch \in Seq(Seq(Words)), Len(batch) \in 1 .. k,
         NEW clause \in Seq(Words)
  PROVE  Batches(done \o batch, k, clause)
           = Batches(done, k, clause) \o Statement(batch, clause)
  BY BatchesGrow DEF Fills

\* No rows, no batches.
LEMMA NoBatches ==
  ASSUME NEW k \in Nat \ {0}, NEW clause \in Seq(Words)
  PROVE  Batches(<< >>, k, clause) = << >>
  <1>1. PICK none \in Seq(Seq(Words)) : none = << >>
    BY NoneOf
  <1>2. PICK q \in Nat : q = 0
    OBVIOUS
  <1>3. Len(none) = q * k
    BY <1>1, <1>2
  <1>4. BatchTexts(none, k, clause) \in [1 .. q -> Seq(Words)]
    BY <1>3, FullBatchTexts
  <1>5. PICK u \in [1 .. q -> Seq(Words)] : u = BatchTexts(none, k, clause)
    BY <1>4
  <1>6. u \in Seq(Seq(Words)) /\ Len(u) = 0
    BY <1>2, MapType
  <1>7. u = << >>
    BY <1>6
  <1> QED BY <1>1, <1>5, <1>7, BatchesAre, FlattenNone

\* The rows so far are those of full batches, which are written, and fewer than a batch
\* that is not.
Batched(tuples, batch, header, out, k, clause) ==
  \E q \in Nat, done \in Seq(Seq(Words)) :
    /\ Len(done) = q * k
    /\ batch \in Seq(Seq(Words)) /\ Len(batch) < k
    /\ tuples = done \o batch
    /\ out = header \o Batches(done, k, clause)

\* Batches are a sequence of words.
LEMMA BatchesType ==
  ASSUME NEW done \in Seq(Seq(Words)), NEW q \in Nat, NEW k \in Nat \ {0},
         Len(done) = q * k, NEW clause \in Seq(Words)
  PROVE  Batches(done, k, clause) \in Seq(Words)
  <1>1. PICK u \in [1 .. q -> Seq(Words)] : u = BatchTexts(done, k, clause)
    BY FullBatchTexts
  <1>2. u \in Seq(Seq(Words))
    BY MapType
  <1> QED BY <1>1, <1>2, FlattenType, BatchesAre

\* No rows yet: the file is its header.
LEMMA BatchedInit ==
  ASSUME NEW k \in Nat \ {0}, NEW clause \in Seq(Words), NEW header \in Seq(Words)
  PROVE  Batched(<< >>, << >>, header, header, k, clause)
  <1>1. PICK none \in Seq(Seq(Words)) : none = << >>
    BY NoneOf
  <1>2. PICK q \in Nat : q = 0
    OBVIOUS
  <1>3. Len(none) = q * k /\ Len(none) < k
    BY <1>1, <1>2
  <1>4. none = none \o none
    BY <1>1
  <1>5. header = header \o << >>
    BY ConcatEmptySeq
  <1>6. header = header \o Batches(none, k, clause)
    BY <1>1, <1>5, NoBatches
  <1>7. Batched(none, none, header, header, k, clause)
    BY <1>3, <1>4, <1>6 DEF Batched
  <1> QED BY <1>1, <1>7

\* A row that does not fill the batch.
LEMMA BatchedKeep ==
  ASSUME NEW k \in Nat \ {0}, NEW clause, NEW header, NEW out,
         NEW tuples, NEW batch, Batched(tuples, batch, header, out, k, clause),
         NEW x \in Seq(Words), Len(Append(batch, x)) < k
  PROVE  Batched(Append(tuples, x), Append(batch, x), header, out, k, clause)
  <1>1. PICK q \in Nat, done \in Seq(Seq(Words)) :
          /\ Len(done) = q * k
          /\ batch \in Seq(Seq(Words))
          /\ tuples = done \o batch
          /\ out = header \o Batches(done, k, clause)
    BY DEF Batched
  <1>2. PICK b \in Seq(Seq(Words)) : b = batch
    BY <1>1
  <1>3. PICK more \in Seq(Seq(Words)) : more = Append(b, x)
    BY AppendProperties
  <1>4. Append(done \o b, x) = done \o more
    <2>1. Append(done \o b, x) = done \o Append(b, x)
      BY AppendTuple
    <2> QED BY <1>3, <2>1
  <1>5. Append(tuples, x) = done \o more
    BY <1>1, <1>2, <1>4
  <1>6. more = Append(batch, x) /\ Len(more) < k
    BY <1>2, <1>3
  <1> QED BY <1>1, <1>5, <1>6 DEF Batched

\* A row that does.
LEMMA BatchedFlush ==
  ASSUME NEW k \in Nat \ {0}, NEW clause \in Seq(Words), NEW header \in Seq(Words),
         NEW out, NEW tuples, NEW batch,
         Batched(tuples, batch, header, out, k, clause),
         NEW x \in Seq(Words), Len(Append(batch, x)) >= k
  PROVE  Batched(Append(tuples, x), << >>, header,
                 out \o Statement(Append(batch, x), clause), k, clause)
  <1>1. PICK q \in Nat, done \in Seq(Seq(Words)) :
          /\ Len(done) = q * k
          /\ batch \in Seq(Seq(Words)) /\ Len(batch) < k
          /\ tuples = done \o batch
          /\ out = header \o Batches(done, k, clause)
    BY DEF Batched
  <1>2. PICK b \in Seq(Seq(Words)) : b = batch
    BY <1>1
  <1>3. PICK more \in Seq(Seq(Words)) : more = Append(b, x)
    BY AppendProperties
  <1>4. Append(done \o b, x) = done \o more
    <2>1. Append(done \o b, x) = done \o Append(b, x)
      BY AppendTuple
    <2> QED BY <1>3, <2>1
  <1>5. Len(more) = k
    <2>1. Len(more) = Len(b) + 1 /\ Len(b) \in Nat
      BY <1>3
    <2> QED BY <1>1, <1>2, <1>3, <2>1
  <1>6. PICK p \in Nat : p = q + 1
    OBVIOUS
  <1>7. PICK full \in Seq(Seq(Words)) : full = done \o more
    BY ConcatProperties
  <1>8. Len(full) = p * k
    <2>1. PICK n \in Nat : n = q * k
      OBVIOUS
    <2>2. p * k = n + k
      BY <1>6, <2>1
    <2>3. Len(full) = Len(done) + Len(more)
      BY <1>7, ConcatProperties
    <2>4. Len(full) = n + k
      BY <1>1, <1>5, <2>1, <2>3
    <2> QED BY <2>2, <2>4
  <1>9. Batches(full, k, clause) = Batches(done, k, clause) \o Statement(more, clause)
    <2>1. Len(more) \in 1 .. k
      BY <1>5
    <2>2. Batches(done \o more, k, clause)
            = Batches(done, k, clause) \o Statement(more, clause)
      <3>1. Fills(done, q, k)
        BY <1>1 DEF Fills
      <3> QED BY SMTT(30), <2>1, <3>1, OneMoreBatch
    <2> QED BY <1>7, <2>2
  <1>10. PICK s \in Seq(Words) : s = Statement(more, clause)
    BY StatementType
  <1>11. PICK w \in Seq(Words) : w = Batches(done, k, clause)
    BY <1>1, BatchesType
  <1>12. (header \o w) \o s = header \o (w \o s)
    BY ZenonT(30), OneByOne
  <1>13. out \o Statement(Append(batch, x), clause) = header \o Batches(full, k, clause)
    BY <1>1, <1>2, <1>3, <1>9, <1>10, <1>11, <1>12
  <1>14. PICK none \in Seq(Seq(Words)) : none = << >>
    BY NoneOf
  <1>15. full = full \o none /\ Len(none) < k
    BY <1>14, ConcatEmptySeq
  <1>16. Append(tuples, x) = full \o none
    BY <1>1, <1>2, <1>4, <1>7, <1>15
  <1>17. Batched(Append(tuples, x), none, header,
                 out \o Statement(Append(batch, x), clause), k, clause)
    BY <1>8, <1>13, <1>15, <1>16 DEF Batched
  <1> QED BY <1>14, <1>17

\* The end: what is left is written.
LEMMA BatchedEnd ==
  ASSUME NEW k \in Nat \ {0}, NEW clause \in Seq(Words), NEW header \in Seq(Words),
         NEW out, NEW tuples, NEW batch,
         Batched(tuples, batch, header, out, k, clause)
  PROVE  header \o Batches(tuples, k, clause)
           = IF batch = << >> THEN out ELSE out \o Statement(batch, clause)
  <1>1. PICK q \in Nat, done \in Seq(Seq(Words)) :
          /\ Len(done) = q * k
          /\ batch \in Seq(Seq(Words)) /\ Len(batch) < k
          /\ tuples = done \o batch
          /\ out = header \o Batches(done, k, clause)
    BY DEF Batched
  <1>2. CASE batch = << >>
    <2>1. done \o << >> = done
      BY ConcatEmptySeq
    <2>2. tuples = done
      BY <1>1, <1>2, <2>1
    <2> QED BY <1>1, <1>2, <2>2
  <1>3. CASE batch # << >>
    <2>1. PICK b \in Seq(Seq(Words)) : b = batch
      BY <1>1
    <2>2. Len(b) \in 1 .. k
      BY <1>1, <1>3, <2>1, EmptySeq
    <2>3. Batches(done \o b, k, clause) = Batches(done, k, clause) \o Statement(b, clause)
      BY ZenonT(30), <1>1, <2>2, BatchesGrow
    <2>4. PICK s \in Seq(Words) : s = Statement(b, clause)
      BY StatementType
    <2>5. PICK w \in Seq(Words) : w = Batches(done, k, clause)
      BY <1>1, BatchesType
    <2>6. (header \o w) \o s = header \o (w \o s)
      BY SMTT(30), ConcatAssociative
    <2> QED BY <1>1, <1>3, <2>1, <2>3, <2>4, <2>5, <2>6
  <1> QED BY <1>2, <1>3

-----------------------------------------------------------------------------
(* What an encoder has written of the rows so far. *)

\* What becomes of each of a sequence.
Mapped(g, exported) == [r \in DOMAIN exported |-> g[exported[r]]]

InsertOf == [row \in Seq(Cells) |-> InsertTuple(row)]
ScriptOf == [row \in Seq(Cells) |-> ScriptTuple(row)]

\* The literals of the rows, row by row.
LEMMA TuplesOfRows ==
  InsertOf \in [Seq(Cells) -> Seq(Words)] /\ ScriptOf \in [Seq(Cells) -> Seq(Words)]
  BY RowTupleTypes DEF InsertOf, ScriptOf

LEMMA MappedType ==
  ASSUME NEW R, NEW V, NEW g \in [R -> V], NEW exported \in Seq(R)
  PROVE  Mapped(g, exported) \in Seq(V) /\ Len(Mapped(g, exported)) = Len(exported)
  BY DEF Mapped

LEMMA MappedGrows ==
  ASSUME NEW R, NEW V, NEW g \in [R -> V], NEW exported \in Seq(R), NEW row \in R
  PROVE  Mapped(g, Append(exported, row)) = Append(Mapped(g, exported), g[row])
  <1>1. PICK more \in Seq(R) : more = Append(exported, row)
    BY AppendProperties
  <1>2. /\ Len(more) = Len(exported) + 1 /\ more[Len(exported) + 1] = row
        /\ \A r \in 1 .. Len(exported) : more[r] = exported[r]
    BY <1>1
  <1>3. PICK v \in Seq(V) : v = Mapped(g, exported)
    BY MappedType
  <1>4. Len(v) = Len(exported) /\ \A r \in 1 .. Len(exported) : v[r] = g[exported[r]]
    BY <1>3, MappedType DEF Mapped
  <1>5. g[row] \in V
    OBVIOUS
  <1>6. PICK w \in Seq(V) : w = Append(v, g[row])
    BY <1>5, AppendProperties
  <1>7. /\ Len(w) = Len(exported) + 1 /\ w[Len(exported) + 1] = g[row]
        /\ \A r \in 1 .. Len(exported) : w[r] = v[r]
    BY <1>4, <1>5, <1>6
  <1>8. PICK u \in Seq(V) : u = Mapped(g, more)
    BY MappedType
  <1>9. Len(u) = Len(exported) + 1 /\ \A r \in 1 .. Len(more) : u[r] = g[more[r]]
    BY <1>2, <1>8, MappedType DEF Mapped
  <1>10. \A r \in 1 .. Len(exported) + 1 : u[r] = w[r]
    <2>1. \A r \in 1 .. Len(exported) : u[r] = w[r]
      BY <1>2, <1>4, <1>7, <1>9
    <2>2. u[Len(exported) + 1] = w[Len(exported) + 1]
      BY <1>2, <1>7, <1>9
    <2> QED BY <2>1, <2>2
  <1>11. u = w
    BY <1>7, <1>9, <1>10, SeqEqual
  <1> QED BY <1>1, <1>3, <1>6, <1>8, <1>11

LEMMA MappedNone ==
  ASSUME NEW g
  PROVE  Mapped(g, << >>) = << >>
  BY DEF Mapped

\* A sequence of anything.
IsList(x) == \E S : x \in Seq(S)

\* The length of lists that are put together.
LEMMA ListsJoin ==
  ASSUME NEW x, IsList(x), NEW y, IsList(y)
  PROVE  IsList(x \o y) /\ Len(x \o y) = Len(x) + Len(y) /\ Len(x) \in Nat /\ Len(y) \in Nat
  <1>1. PICK S : x \in Seq(S)
    BY DEF IsList
  <1>2. PICK T : y \in Seq(T)
    BY DEF IsList
  <1>3. PICK U : U = S \cup T
    OBVIOUS
  <1>4. x \in Seq(U) /\ y \in Seq(U)
    BY <1>1, <1>2, <1>3, SeqMonotonic
  <1>5. x \o y \in Seq(U) /\ Len(x \o y) = Len(x) + Len(y)
    BY <1>4, ConcatProperties
  <1> QED BY <1>4, <1>5 DEF IsList

LEMMA ListOfOne ==
  ASSUME NEW x
  PROVE  IsList(<<x>>) /\ Len(<<x>>) = 1
  <1>1. <<x>> \in Seq({x})
    OBVIOUS
  <1> QED BY <1>1 DEF IsList

LEMMA ListOfTwo ==
  ASSUME NEW x, NEW y
  PROVE  IsList(<<x, y>>) /\ Len(<<x, y>>) = 2
  <1>1. <<x, y>> \in Seq({x, y})
    OBVIOUS
  <1> QED BY <1>1 DEF IsList

LEMMA ListOfNone == IsList(<< >>) /\ Len(<< >>) = 0
  <1>1. << >> \in Seq({})
    OBVIOUS
  <1> QED BY <1>1 DEF IsList

\* The CREATE TABLE in front of a script.
Opening(e) == IF e.format.createTable = Absent THEN << >> ELSE CreateTable(e).out

\* What stands around the rows depends on the format alone.
LEMMA OpeningOfFormat ==
  ASSUME NEW e, NEW d, e.format = d.format
  PROVE  Opening(e) = Opening(d) /\ UpsertClause(e) = UpsertClause(d)
         /\ UpsertFits(e) = UpsertFits(d)
  <1>1. CreateTable(e).out = CreateTable(d).out
    BY DEF CreateTable, Result
  <1>2. UpdateColumns(e) = UpdateColumns(d)
    BY DEF UpdateColumns
  <1> QED BY <1>1, <1>2 DEF Opening, UpsertClause, UpsertFits

LEMMA ClauseType ==
  ASSUME NEW e
  PROVE  UpsertClause(e) \in Seq(Words)
  <1>1. <<"UPSERT">> \in Seq(Words)
    BY WordsAre, OneWord
  <1> QED BY <1>1, NoneOf DEF UpsertClause

-----------------------------------------------------------------------------
(* A delimited file, read back. *)

Readers == [ records : Seq(Seq(Seq(Tokens))), fields : Seq(Seq(Tokens)),
             field : Seq(Tokens), mode : {"start", "field", "plain", "quoted", "after"} ]

LEMMA ReaderSteps ==
  ASSUME NEW r \in Readers, NEW token \in Tokens, NEW d, NEW q
  PROVE  ReadToken(r, token, d, q) \in Readers
  <1>1. EndField(r) \in Readers
    <2>1. Append(r.fields, r.field) \in Seq(Seq(Tokens))
      BY AppendProperties DEF Readers
    <2>2. << >> \in Seq(Tokens)
      OBVIOUS
    <2> QED BY <2>1, <2>2 DEF Readers, EndField
  <1>2. EndRecord(r) \in Readers
    <2>1. Append(r.fields, r.field) \in Seq(Seq(Tokens))
      BY AppendProperties DEF Readers
    <2>2. Append(r.records, Append(r.fields, r.field)) \in Seq(Seq(Seq(Tokens)))
      BY <2>1, AppendProperties DEF Readers
    <2>3. << >> \in Seq(Tokens) /\ << >> \in Seq(Seq(Tokens))
      OBVIOUS
    <2> QED BY <2>2, <2>3 DEF Readers, EndRecord, EmptyReader
  <1>3. PICK f \in Seq(Tokens) : f = Append(r.field, token)
    BY AppendProperties DEF Readers
  <1>4. /\ [r EXCEPT !.mode = "after"] \in Readers
        /\ [r EXCEPT !.mode = "quoted"] \in Readers
        /\ [r EXCEPT !.field = f] \in Readers
        /\ [r EXCEPT !.field = f, !.mode = "quoted"] \in Readers
        /\ [r EXCEPT !.field = f, !.mode = "plain"] \in Readers
    BY DEF Readers
  <1>5. CASE r.mode = "quoted"
    <2>1. CASE token = q
      <3>1. ReadToken(r, token, d, q) = [r EXCEPT !.mode = "after"]
        BY <1>5, <2>1 DEF ReadToken
      <3> QED BY <1>4, <3>1
    <2>2. CASE token # q
      <3>1. ReadToken(r, token, d, q) = [r EXCEPT !.field = f]
        BY <1>3, <1>5, <2>2 DEF ReadToken
      <3> QED BY <1>4, <3>1
    <2> QED BY <2>1, <2>2
  <1>6. CASE r.mode = "after" /\ token = q
    <2>1. ReadToken(r, token, d, q) = [r EXCEPT !.field = f, !.mode = "quoted"]
      BY <1>3, <1>6 DEF ReadToken
    <2> QED BY <1>4, <2>1
  <1>7. CASE r.mode = "start" /\ token \in LineBreaks
    BY <1>7 DEF ReadToken
  <1>8. CASE r.mode # "quoted" /\ ~(r.mode = "start" /\ token \in LineBreaks)
               /\ ~(r.mode = "after" /\ token = q)
    <2>1. ReadToken(r, token, d, q) =
            IF token = d THEN EndField(r)
            ELSE IF token \in LineBreaks THEN EndRecord(r)
            ELSE IF token = q /\ r.mode \in {"start", "field"}
                 THEN [r EXCEPT !.mode = "quoted"]
            ELSE [r EXCEPT !.field = f, !.mode = "plain"]
      BY <1>3, <1>8 DEF ReadToken
    <2> QED BY <1>1, <1>2, <1>4, <2>1
  <1> QED BY <1>5, <1>6, <1>7, <1>8

\* The reader after each of the tokens.
ReadFrom(r, tokens, d, q) ==
  FoldLeft(LAMBDA s, token : ReadToken(s, token, d, q), r, tokens)

IsReading(run, r, tokens, d, q) ==
  /\ run \in [0 .. Len(tokens) -> Readers]
  /\ run[0] = r
  /\ \A i \in 1 .. Len(tokens) : run[i] = ReadToken(run[i - 1], tokens[i], d, q)

LEMMA ReadingRuns ==
  ASSUME NEW r \in Readers, NEW tokens \in Seq(Tokens), NEW d, NEW q
  PROVE  \E run : IsReading(run, r, tokens, d, q)
                    /\ ReadFrom(r, tokens, d, q) = run[Len(tokens)]
  <1> DEFINE IsIter(it) ==
        it = [s \in SUBSET (DOMAIN tokens) |->
                IF s = {} THEN r
                ELSE ReadToken(it[s \ {Max(s)}], tokens[Max(s)], d, q)]
      iter == CHOOSE it : IsIter(it)
  <1>1. ReadFrom(r, tokens, d, q) = iter[DOMAIN tokens]
    BY DEF ReadFrom, FoldLeft, MapThenFoldSet
  <1>2. PICK n \in Nat : n = Len(tokens) /\ DOMAIN tokens = 1 .. n
    OBVIOUS
  <1>3. \E it : IsIter(it)
    <2> DEFINE G == [i \in 1 .. n |-> [s \in Readers |-> ReadToken(s, tokens[i], d, q)]]
    <2>1. G \in [1 .. n -> [Readers -> Readers]]
      BY <1>2, ReaderSteps
    <2>2. \A i \in 1 .. n : \A s \in Readers : G[i][s] = ReadToken(s, tokens[i], d, q)
      OBVIOUS
    <2> HIDE DEF G
    <2>3. PICK it : IsFold(it, Readers, r, G, n)
      BY <2>1, FoldIsDefined
    <2>4. ASSUME NEW s \in SUBSET (1 .. n)
          PROVE  it[s] = IF s = {} THEN r
                         ELSE ReadToken(it[s \ {Max(s)}], tokens[Max(s)], d, q)
      <3>1. CASE s = {}
        BY <2>3, <3>1 DEF IsFold
      <3>2. CASE s # {}
        <4>1. it[s] = G[Max(s)][it[s \ {Max(s)}]]
          BY <2>3, <3>2 DEF IsFold
        <4>2. Max(s) \in 1 .. n
          BY <3>2, MaxIsThere
        <4>3. it[s \ {Max(s)}] \in Readers
          BY <2>3 DEF IsFold
        <4> QED BY <2>2, <3>2, <4>1, <4>2, <4>3
      <3> QED BY <3>1, <3>2
    <2>5. it = [s \in SUBSET (1 .. n) |-> it[s]]
      BY <2>3 DEF IsFold
    <2>6. IsIter(it)
      BY <1>2, <2>4, <2>5
    <2> QED BY <2>6
  <1>4. IsIter(iter)
    BY <1>3
  <1> HIDE DEF iter
  <1> DEFINE run == [k \in 0 .. n |-> iter[1 .. k]]
  <1>5. run[0] = r
    <2>1. 1 .. 0 = {} /\ {} \in SUBSET (1 .. n)
      OBVIOUS
    <2> QED BY <1>2, <1>4, <2>1
  <1>6. ASSUME NEW i \in 1 .. n
        PROVE  run[i] = ReadToken(run[i - 1], tokens[i], d, q)
    <2>1. 1 .. i \in SUBSET (1 .. n) /\ i \in Nat \ {0}
      BY <1>2
    <2>2. Max(1 .. i) = i /\ (1 .. i) \ {i} = 1 .. i - 1 /\ 1 .. i # {}
      BY <2>1, MaxOfPrefix
    <2>3. iter[1 .. i] = ReadToken(iter[1 .. i - 1], tokens[i], d, q)
      BY <1>2, <1>4, <2>1, <2>2
    <2>4. i \in 0 .. n /\ i - 1 \in 0 .. n
      BY <1>2
    <2> QED BY <2>3, <2>4
  <1>7. run[n] = ReadFrom(r, tokens, d, q)
    BY <1>1, <1>2
  <1> DEFINE T == {k \in Nat : k <= n => run[k] \in Readers}
  <1>8. run = [k \in 0 .. n |-> run[k]]
    OBVIOUS
  <1> HIDE DEF run
  <1>9. \A k \in Nat : k \in T
    <2>1. 0 \in T
      BY <1>5
    <2>2. ASSUME NEW k \in Nat, k \in T PROVE k + 1 \in T
      <3> SUFFICES ASSUME k + 1 <= n PROVE run[k + 1] \in Readers
        OBVIOUS
      <3>1. k + 1 \in 1 .. n /\ k <= n /\ (k + 1) - 1 = k
        BY <1>2
      <3>2. run[k] \in Readers
        BY <2>2, <3>1
      <3>3. run[k + 1] = ReadToken(run[k], tokens[k + 1], d, q)
        BY <1>6, <3>1
      <3>4. tokens[k + 1] \in Tokens
        BY <1>2, <3>1
      <3> QED BY <3>2, <3>3, <3>4, ReaderSteps
    <2> HIDE DEF T
    <2> QED BY <2>1, <2>2, Induction
  <1>10. \A k \in 0 .. n : run[k] \in Readers
    BY <1>9
  <1>11. IsReading(run, r, tokens, d, q)
    BY <1>2, <1>5, <1>6, <1>8, <1>10 DEF IsReading
  <1> QED BY <1>2, <1>7, <1>11

LEMMA ReadingIsUnique ==
  ASSUME NEW r \in Readers, NEW tokens \in Seq(Tokens), NEW d, NEW q, NEW run,
         IsReading(run, r, tokens, d, q)
  PROVE  run[Len(tokens)] = ReadFrom(r, tokens, d, q)
  <1>1. PICK other : IsReading(other, r, tokens, d, q)
                       /\ ReadFrom(r, tokens, d, q) = other[Len(tokens)]
    BY ReadingRuns
  <1>2. PICK n \in Nat : n = Len(tokens)
    OBVIOUS
  <1> DEFINE T == {k \in Nat : k <= n => run[k] = other[k]}
  <1>3. 0 \in T
    BY <1>1 DEF IsReading
  <1>4. ASSUME NEW k \in Nat, k \in T PROVE k + 1 \in T
    <2> SUFFICES ASSUME k + 1 <= n PROVE run[k + 1] = other[k + 1]
      OBVIOUS
    <2>1. k + 1 \in 1 .. Len(tokens) /\ k <= n /\ (k + 1) - 1 = k
      BY <1>2
    <2>2. run[k] = other[k]
      BY <1>4, <2>1
    <2>3. run[k + 1] = ReadToken(run[(k + 1) - 1], tokens[k + 1], d, q)
      BY <2>1 DEF IsReading
    <2>4. other[k + 1] = ReadToken(other[(k + 1) - 1], tokens[k + 1], d, q)
      BY <1>1, <2>1 DEF IsReading
    <2> QED BY <2>1, <2>2, <2>3, <2>4
  <1> HIDE DEF T
  <1>5. n \in T
    BY <1>3, <1>4, Induction
  <1> QED BY <1>1, <1>2, <1>5 DEF T

LEMMA ReadNothing ==
  ASSUME NEW r \in Readers, NEW d, NEW q
  PROVE  ReadFrom(r, << >>, d, q) = r
  <1>1. << >> \in Seq(Tokens) /\ Len(<< >>) = 0
    OBVIOUS
  <1>2. PICK none \in Seq(Tokens) : none = << >>
    BY <1>1
  <1>3. PICK run : IsReading(run, r, none, d, q) /\ ReadFrom(r, none, d, q) = run[Len(none)]
    BY ReadingRuns
  <1> QED BY <1>1, <1>2, <1>3 DEF IsReading

LEMMA ReadType ==
  ASSUME NEW r \in Readers, NEW tokens \in Seq(Tokens), NEW d, NEW q
  PROVE  ReadFrom(r, tokens, d, q) \in Readers
  <1>1. PICK run : IsReading(run, r, tokens, d, q)
                     /\ ReadFrom(r, tokens, d, q) = run[Len(tokens)]
    BY ReadingRuns
  <1>2. Len(tokens) \in 0 .. Len(tokens)
    OBVIOUS
  <1> QED BY <1>1, <1>2 DEF IsReading

\* Reading goes on where it stopped.
LEMMA ReadConcat ==
  ASSUME NEW r \in Readers, NEW a \in Seq(Tokens), NEW b \in Seq(Tokens), NEW d, NEW q
  PROVE  ReadFrom(r, a \o b, d, q) = ReadFrom(ReadFrom(r, a, d, q), b, d, q)
  <1>1. PICK f : IsReading(f, r, a, d, q) /\ ReadFrom(r, a, d, q) = f[Len(a)]
    BY ReadingRuns
  <1>2. PICK s \in Readers : s = ReadFrom(r, a, d, q)
    BY ReadType
  <1>3. PICK g : IsReading(g, s, b, d, q) /\ ReadFrom(s, b, d, q) = g[Len(b)]
    BY ReadingRuns
  <1>4. PICK m \in Nat : m = Len(a)
    OBVIOUS
  <1>5. PICK n \in Nat : n = Len(b)
    OBVIOUS
  <1>6. PICK c \in Seq(Tokens) : c = a \o b
    BY ConcatProperties
  <1>7. /\ Len(c) = m + n /\ \A i \in 1 .. m : c[i] = a[i]
        /\ \A i \in 1 .. n : c[m + i] = b[i]
    BY <1>4, <1>5, <1>6
  <1> DEFINE run == [i \in 0 .. m + n |-> IF i <= m THEN f[i] ELSE g[i - m]]
  <1>8. \A i \in 0 .. m : run[i] = f[i] /\ f[i] \in Readers
    <2>1. \A i \in 0 .. m : f[i] \in Readers
      BY <1>1, <1>4 DEF IsReading
    <2>2. \A i \in 0 .. m : i \in 0 .. m + n /\ i <= m
      OBVIOUS
    <2>3. \A i \in 0 .. m : run[i] = f[i]
      BY <2>2
    <2> QED BY <2>1, <2>3
  <1>9. \A i \in 0 .. n : run[m + i] = g[i] /\ g[i] \in Readers
    <2>1. f[m] = g[0]
      BY <1>1, <1>2, <1>3, <1>4 DEF IsReading
    <2>2. ASSUME NEW i \in 0 .. n PROVE run[m + i] = g[i]
      <3>1. CASE i = 0
        BY <2>1, <3>1
      <3>2. CASE i # 0
        <4>1. m + i \in 0 .. m + n /\ ~(m + i <= m) /\ (m + i) - m = i
          BY <3>2
        <4> QED BY <4>1
      <3> QED BY <3>1, <3>2
    <2>3. \A i \in 0 .. n : g[i] \in Readers
      BY <1>3, <1>5 DEF IsReading
    <2> QED BY <2>2, <2>3
  <1>10. run = [i \in 0 .. m + n |-> run[i]]
    OBVIOUS
  <1> HIDE DEF run
  <1>11. \A i \in 0 .. m + n : run[i] \in Readers
    <2>1. ASSUME NEW i \in 0 .. m + n PROVE run[i] \in Readers
      <3>1. CASE i <= m
        <4>1. i \in 0 .. m
          BY <3>1
        <4> QED BY <1>8, <4>1
      <3>2. CASE ~(i <= m)
        <4>1. i - m \in 0 .. n /\ m + (i - m) = i
          BY <3>2
        <4>2. run[m + (i - m)] = g[i - m] /\ g[i - m] \in Readers
          BY <1>9, <4>1
        <4> QED BY <4>1, <4>2
      <3> QED BY <3>1, <3>2
    <2> QED BY <2>1
  <1>12. ASSUME NEW i \in 1 .. m + n
         PROVE  run[i] = ReadToken(run[i - 1], c[i], d, q)
    <2>1. CASE i <= m
      <3>1. i \in 1 .. m /\ i \in 0 .. m /\ i - 1 \in 0 .. m
        BY <2>1
      <3>2. f[i] = ReadToken(f[i - 1], a[i], d, q)
        BY <1>1, <1>4, <3>1 DEF IsReading
      <3> QED BY <1>7, <1>8, <3>1, <3>2
    <2>2. CASE ~(i <= m)
      <3>1. PICK j \in 1 .. n : i = m + j
        <4>1. i - m \in 1 .. n /\ i = m + (i - m)
          BY <2>2
        <4> QED BY <4>1
      <3>2. g[j] = ReadToken(g[j - 1], b[j], d, q)
        BY <1>3, <1>5 DEF IsReading
      <3>3. j \in 0 .. n /\ j - 1 \in 0 .. n /\ i - 1 = m + (j - 1)
        BY <3>1
      <3>4. run[m + j] = g[j] /\ run[m + (j - 1)] = g[j - 1]
        BY <1>9, <3>3
      <3> QED BY <1>7, <3>1, <3>2, <3>3, <3>4
    <2> QED BY <2>1, <2>2
  <1>13. run[0] = r
    <2>1. 0 \in 0 .. m
      OBVIOUS
    <2> QED BY <1>1, <1>8, <2>1 DEF IsReading
  <1>14. IsReading(run, r, c, d, q)
    BY <1>7, <1>10, <1>11, <1>12, <1>13 DEF IsReading
  <1>15. run[Len(c)] = ReadFrom(r, c, d, q)
    BY <1>14, ReadingIsUnique
  <1>16. run[m + n] = g[n]
    BY <1>9
  <1> QED BY <1>2, <1>3, <1>5, <1>6, <1>7, <1>15, <1>16

LEMMA ReadOne ==
  ASSUME NEW r \in Readers, NEW token \in Tokens, NEW d, NEW q
  PROVE  ReadFrom(r, <<token>>, d, q) = ReadToken(r, token, d, q)
  <1>1. PICK one \in Seq(Tokens) : one = <<token>>
    BY OneWord
  <1>2. Len(one) = 1 /\ one[1] = token
    BY <1>1
  <1>3. PICK run : IsReading(run, r, one, d, q) /\ ReadFrom(r, one, d, q) = run[Len(one)]
    BY ReadingRuns
  <1>4. run[0] = r /\ run[1] = ReadToken(run[1 - 1], one[1], d, q)
    BY <1>2, <1>3 DEF IsReading
  <1>5. run[1] = ReadToken(r, token, d, q)
    BY <1>2, <1>4
  <1> QED BY <1>1, <1>2, <1>3, <1>5

LEMMA ReadAppend ==
  ASSUME NEW r \in Readers, NEW tokens \in Seq(Tokens), NEW token \in Tokens,
         NEW d, NEW q
  PROVE  ReadFrom(r, Append(tokens, token), d, q)
           = ReadToken(ReadFrom(r, tokens, d, q), token, d, q)
  <1>1. PICK one \in Seq(Tokens) : one = <<token>>
    BY OneWord
  <1>2. Append(tokens, token) = tokens \o one
    <2>1. PICK longer \in Seq(Tokens) : longer = Append(tokens, token)
      BY AppendProperties
    <2>2. Len(longer) = Len(tokens) + 1 /\ longer[Len(tokens) + 1] = token
          /\ \A i \in 1 .. Len(tokens) : longer[i] = tokens[i]
      BY <2>1
    <2>3. Len(one) = 1 /\ one[1] = token
      BY <1>1
    <2>4. \A i \in 1 .. Len(one) : longer[Len(tokens) + i] = one[i]
      BY <2>2, <2>3
    <2>5. longer = tokens \o one
      BY ZenonT(30), <2>2, <2>3, <2>4, IsConcat
    <2> QED BY <2>1, <2>5
  <1>3. PICK s \in Readers : s = ReadFrom(r, tokens, d, q)
    BY ReadType
  <1>4. ReadFrom(r, tokens \o one, d, q) = ReadFrom(s, one, d, q)
    BY <1>3, ReadConcat
  <1>5. ReadFrom(s, one, d, q) = ReadToken(s, token, d, q)
    BY <1>1, ReadOne
  <1> QED BY <1>2, <1>3, <1>4, <1>5

-----------------------------------------------------------------------------
\* A reader, by its parts.
Reader(records, fields, field, mode) ==
  [records |-> records, fields |-> fields, field |-> field, mode |-> mode]

\* The options of a delimited file that could be written at all.
IsReadable(o) == o \in DelimitedOptions /\ ValidOptions(o)

Modes == {"start", "field", "plain", "quoted", "after"}

LEMMA ReaderType ==
  ASSUME NEW records \in Seq(Seq(Seq(Tokens))), NEW fields \in Seq(Seq(Tokens)),
         NEW field \in Seq(Tokens), NEW mode \in Modes
  PROVE  Reader(records, fields, field, mode) \in Readers
  BY DEF Reader, Readers, Modes

\* What a token does, mode by mode.
Meets(records, fields, field, token, o) ==
  LET Read(mode) == ReadToken(Reader(records, fields, field, mode), token,
                              o.delimiter, o.quote)
  IN  /\ token \notin {o.delimiter, o.quote} \cup LineBreaks =>
           \A mode \in {"start", "field", "plain"} :
             Read(mode) = Reader(records, fields, Append(field, token), "plain")
      /\ token # o.quote =>
           Read("quoted") = Reader(records, fields, Append(field, token), "quoted")
      /\ token = o.quote =>
           /\ Read("quoted") = Reader(records, fields, field, "after")
           /\ Read("after") = Reader(records, fields, Append(field, token), "quoted")
           /\ \A mode \in {"start", "field"} :
                Read(mode) = Reader(records, fields, field, "quoted")
      /\ token = o.delimiter =>
           \A mode \in Modes \ {"quoted"} :
             Read(mode) = Reader(records, Append(fields, field), << >>, "field")
      /\ token \in LineBreaks =>
           /\ Read("start") = Reader(records, fields, field, "start")
           /\ \A mode \in {"field", "plain", "after"} :
                Read(mode) = Reader(Append(records, Append(fields, field)),
                                    << >>, << >>, "start")

LEMMA TokenIsRead ==
  ASSUME NEW o, IsReadable(o), NEW records, NEW fields, NEW field, NEW token
  PROVE  Meets(records, fields, field, token, o)
  <1>1. o.delimiter # o.quote /\ o.delimiter \notin LineBreaks /\ o.quote \notin LineBreaks
    BY DEF IsReadable, ValidOptions
  <1>2. ASSUME token \notin {o.delimiter, o.quote} \cup LineBreaks,
               NEW mode \in {"start", "field", "plain"}
        PROVE  ReadToken(Reader(records, fields, field, mode), token, o.delimiter, o.quote)
                 = Reader(records, fields, Append(field, token), "plain")
    BY <1>2 DEF ReadToken, Reader
  <1>3. ASSUME token # o.quote
        PROVE  ReadToken(Reader(records, fields, field, "quoted"), token, o.delimiter, o.quote)
                 = Reader(records, fields, Append(field, token), "quoted")
    BY <1>3 DEF ReadToken, Reader
  <1>4. ASSUME token = o.quote
        PROVE  /\ ReadToken(Reader(records, fields, field, "quoted"), token,
                            o.delimiter, o.quote)
                    = Reader(records, fields, field, "after")
               /\ ReadToken(Reader(records, fields, field, "after"), token,
                            o.delimiter, o.quote)
                    = Reader(records, fields, Append(field, token), "quoted")
    BY <1>4 DEF ReadToken, Reader
  <1>5. ASSUME token = o.quote, NEW mode \in {"start", "field"}
        PROVE  ReadToken(Reader(records, fields, field, mode), token, o.delimiter, o.quote)
                 = Reader(records, fields, field, "quoted")
    BY <1>1, <1>5 DEF ReadToken, Reader
  <1>6. ASSUME token = o.delimiter, NEW mode \in Modes \ {"quoted"}
        PROVE  ReadToken(Reader(records, fields, field, mode), token, o.delimiter, o.quote)
                 = Reader(records, Append(fields, field), << >>, "field")
    BY <1>1, <1>6 DEF ReadToken, Reader, EndField, Modes
  <1>7. ASSUME token \in LineBreaks
        PROVE  ReadToken(Reader(records, fields, field, "start"), token, o.delimiter, o.quote)
                 = Reader(records, fields, field, "start")
    BY <1>7 DEF ReadToken, Reader
  <1>8. ASSUME token \in LineBreaks, NEW mode \in {"field", "plain", "after"}
        PROVE  ReadToken(Reader(records, fields, field, mode), token, o.delimiter, o.quote)
                 = Reader(Append(records, Append(fields, field)), << >>, << >>, "start")
    BY <1>1, <1>8 DEF ReadToken, Reader, EndRecord, EmptyReader
  <1> QED BY <1>2, <1>3, <1>4, <1>5, <1>6, <1>7, <1>8 DEF Meets

-----------------------------------------------------------------------------
(* A field. *)

\* A text without anything special is read as it is.
LEMMA PlainIsRead ==
  ASSUME NEW o, IsReadable(o), NEW records \in Seq(Seq(Seq(Tokens))),
         NEW fields \in Seq(Seq(Tokens)), NEW mode \in {"start", "field"},
         NEW text \in Seq(Tokens), ~NeedsQuote(text, o)
  PROVE  ReadFrom(Reader(records, fields, << >>, mode), text, o.delimiter, o.quote)
           = IF text = << >> THEN Reader(records, fields, << >>, mode)
             ELSE Reader(records, fields, text, "plain")
  <1>1. PICK r \in Readers : r = Reader(records, fields, << >>, mode)
    <2>1. << >> \in Seq(Tokens) /\ mode \in Modes
      BY DEF Modes
    <2> QED BY <2>1, ReaderType
  <1>2. PICK n \in Nat : n = Len(text)
    OBVIOUS
  <1> DEFINE Goal(k) == ReadFrom(r, SubSeq(text, 1, k), o.delimiter, o.quote)
                          = IF k = 0 THEN r
                            ELSE Reader(records, fields, SubSeq(text, 1, k), "plain")
             T == {k \in Nat : k <= n => Goal(k)}
  <1>3. 0 \in T
    <2>1. SubSeq(text, 1, 0) = << >>
      BY WholePrefix
    <2>2. Goal(0)
      BY <2>1, ReadNothing
    <2> QED BY <2>2
  <1>4. ASSUME NEW k \in Nat, k \in T PROVE k + 1 \in T
    <2> SUFFICES ASSUME k + 1 <= n PROVE Goal(k + 1)
      OBVIOUS
    <2>1. k <= n /\ k < Len(text)
      BY <1>2
    <2>2. PICK s \in Seq(Tokens) : s = SubSeq(text, 1, k)
      BY <2>1, PrefixGrows
    <2>3. PICK token \in Tokens : token = text[k + 1]
      BY <2>1, PrefixGrows
    <2>4. SubSeq(text, 1, k + 1) = Append(s, token)
      BY <2>1, <2>2, <2>3, PrefixGrows
    <2>5. token \notin {o.delimiter, o.quote} \cup LineBreaks
      <3>1. k + 1 \in DOMAIN text
        BY <1>2
      <3> QED BY <2>3, <3>1 DEF NeedsQuote
    <2>6. ReadFrom(r, Append(s, token), o.delimiter, o.quote)
            = ReadToken(ReadFrom(r, s, o.delimiter, o.quote), token, o.delimiter, o.quote)
      BY ReadAppend
    <2>7. Goal(k)
      BY <1>4, <2>1
    <2>8. CASE k = 0
      <3>1. s = << >>
        BY <2>2, <2>8, WholePrefix
      <3>2. ReadFrom(r, s, o.delimiter, o.quote) = Reader(records, fields, << >>, mode)
        BY <1>1, <2>2, <2>7, <2>8
      <3>3. ReadToken(Reader(records, fields, << >>, mode), token, o.delimiter, o.quote)
              = Reader(records, fields, Append(<< >>, token), "plain")
        <4>1. Meets(records, fields, << >>, token, o)
          BY TokenIsRead
        <4>2. mode \in {"start", "field", "plain"}
          OBVIOUS
        <4> QED BY <2>5, <4>1, <4>2 DEF Meets
      <3>4. k + 1 # 0
        OBVIOUS
      <3>5. ReadFrom(r, Append(s, token), o.delimiter, o.quote)
              = Reader(records, fields, Append(s, token), "plain")
        BY <2>6, <3>1, <3>2, <3>3
      <3> QED BY <2>4, <3>4, <3>5
    <2>9. CASE k # 0
      <3>1. ReadFrom(r, s, o.delimiter, o.quote) = Reader(records, fields, s, "plain")
        BY <2>2, <2>7, <2>9
      <3>2. ReadToken(Reader(records, fields, s, "plain"), token, o.delimiter, o.quote)
              = Reader(records, fields, Append(s, token), "plain")
        BY <2>5, TokenIsRead DEF Meets
      <3>3. k + 1 # 0
        OBVIOUS
      <3> QED BY <2>4, <2>6, <3>1, <3>2, <3>3
    <2> QED BY <2>8, <2>9
  <1>5. n \in T
    <2> HIDE DEF T
    <2> QED BY <1>3, <1>4, Induction
  <1>6. Goal(n)
    BY <1>5
  <1>7. SubSeq(text, 1, n) = text
    BY <1>2, WholePrefix
  <1>8. text = << >> <=> n = 0
    BY <1>2
  <1> QED BY <1>1, <1>6, <1>7, <1>8

\* The quotes in a text, doubled.
Doubled(quote) == [token \in Tokens |-> IF token = quote THEN <<quote, quote>>
                                        ELSE <<token>>]

LEMMA DoubledType ==
  ASSUME NEW quote \in Tokens
  PROVE  Doubled(quote) \in [Tokens -> Seq(Tokens)]
  <1>1. <<quote, quote>> \in Seq(Tokens)
    OBVIOUS
  <1>2. \A token \in Tokens : <<token>> \in Seq(Tokens)
    BY OneWord
  <1> QED BY <1>1, <1>2 DEF Doubled

LEMMA InnerIsRead ==
  ASSUME NEW o, IsReadable(o), NEW records \in Seq(Seq(Seq(Tokens))),
         NEW fields \in Seq(Seq(Tokens)), NEW text \in Seq(Tokens)
  PROVE  ReadFrom(Reader(records, fields, << >>, "quoted"),
                  FlattenSeq(Mapped(Doubled(o.quote), text)), o.delimiter, o.quote)
           = Reader(records, fields, text, "quoted")
  <1>1. PICK r \in Readers : r = Reader(records, fields, << >>, "quoted")
    <2>1. << >> \in Seq(Tokens) /\ "quoted" \in Modes
      BY DEF Modes
    <2> QED BY <2>1, ReaderType
  <1>2. PICK n \in Nat : n = Len(text)
    OBVIOUS
  <1>3. PICK q \in Tokens : q = o.quote
    BY DEF IsReadable, DelimitedOptions
  <1>4. PICK g \in [Tokens -> Seq(Tokens)] : g = Doubled(q)
    BY DoubledType
  <1> DEFINE Goal(k) == ReadFrom(r, FlattenSeq(Mapped(g, SubSeq(text, 1, k))),
                                 o.delimiter, q)
                          = Reader(records, fields, SubSeq(text, 1, k), "quoted")
             T == {k \in Nat : k <= n => Goal(k)}
  <1>5. 0 \in T
    <2>1. SubSeq(text, 1, 0) = << >>
      BY WholePrefix
    <2>2. FlattenSeq(Mapped(g, << >>)) = << >>
      BY MappedNone, FlattenNone
    <2>3. Goal(0)
      BY <1>1, <2>1, <2>2, ReadNothing
    <2> QED BY <2>3
  <1>6. ASSUME NEW k \in Nat, k \in T PROVE k + 1 \in T
    <2> SUFFICES ASSUME k + 1 <= n PROVE Goal(k + 1)
      OBVIOUS
    <2>1. k <= n /\ k < Len(text)
      BY <1>2
    <2>2. PICK s \in Seq(Tokens) : s = SubSeq(text, 1, k)
      BY <2>1, PrefixGrows
    <2>3. PICK token \in Tokens : token = text[k + 1]
      BY <2>1, PrefixGrows
    <2>4. SubSeq(text, 1, k + 1) = Append(s, token)
      BY <2>1, <2>2, <2>3, PrefixGrows
    <2>5. PICK m \in Seq(Seq(Tokens)) : m = Mapped(g, s)
      BY MappedType
    <2>6. Mapped(g, Append(s, token)) = Append(m, g[token])
      BY <2>5, MappedGrows
    <2>7. PICK piece \in Seq(Tokens) : piece = g[token]
      OBVIOUS
    <2>8. FlattenSeq(Append(m, piece)) = FlattenSeq(m) \o piece
      BY FlattenAppend
    <2>9. PICK before \in Seq(Tokens) : before = FlattenSeq(m)
      BY FlattenType
    <2>10. ReadFrom(r, before \o piece, o.delimiter, q)
             = ReadFrom(ReadFrom(r, before, o.delimiter, q), piece, o.delimiter, q)
      BY ReadConcat
    <2>11. ReadFrom(r, before, o.delimiter, q) = Reader(records, fields, s, "quoted")
      BY <1>6, <2>1, <2>2, <2>5, <2>9
    <2>12. PICK inside \in Readers : inside = Reader(records, fields, s, "quoted")
      <3>1. "quoted" \in Modes
        BY DEF Modes
      <3> QED BY <3>1, ReaderType
    <2>13. ReadFrom(inside, piece, o.delimiter, q)
             = Reader(records, fields, Append(s, token), "quoted")
      <3>1. CASE token # q
        <4>1. piece = <<token>>
          BY <1>4, <2>7, <3>1 DEF Doubled
        <4>2. ReadFrom(inside, <<token>>, o.delimiter, q)
                = ReadToken(inside, token, o.delimiter, q)
          BY ReadOne
        <4> QED BY <1>3, <2>12, <3>1, <4>1, <4>2, TokenIsRead DEF Meets
      <3>2. CASE token = q
        <4>1. piece = <<token, token>>
          BY <1>4, <2>7, <3>2 DEF Doubled
        <4>2. PICK one \in Seq(Tokens) : one = <<token>>
          BY OneWord
        <4>3. piece = Append(one, token)
          BY <4>1, <4>2
        <4>4. ReadFrom(inside, Append(one, token), o.delimiter, q)
                = ReadToken(ReadFrom(inside, one, o.delimiter, q), token, o.delimiter, q)
          BY ReadAppend
        <4>5. ReadFrom(inside, one, o.delimiter, q) = ReadToken(inside, token, o.delimiter, q)
          BY <4>2, ReadOne
        <4>6. ReadToken(inside, token, o.delimiter, q) = Reader(records, fields, s, "after")
          <5>1. Meets(records, fields, s, token, o)
            BY TokenIsRead
          <5> QED BY <1>3, <2>12, <3>2, <5>1 DEF Meets
        <4>7. ReadToken(Reader(records, fields, s, "after"), token, o.delimiter, q)
                = Reader(records, fields, Append(s, token), "quoted")
          BY <1>3, <3>2, TokenIsRead DEF Meets
        <4> QED BY <4>3, <4>4, <4>5, <4>6, <4>7
      <3> QED BY <3>1, <3>2
    <2> QED BY <2>2, <2>4, <2>5, <2>6, <2>7, <2>8, <2>9, <2>10, <2>11, <2>12, <2>13
  <1>7. n \in T
    <2> HIDE DEF T
    <2> QED BY <1>5, <1>6, Induction
  <1>8. Goal(n)
    BY <1>7
  <1>9. SubSeq(text, 1, n) = text
    BY <1>2, WholePrefix
  <1> QED BY <1>1, <1>3, <1>4, <1>8, <1>9

\* What a field leaves of a reader that stands before it.
ModeAfter(mode, written) ==
  IF written = << >> THEN {mode} ELSE {"plain", "after"}

LEMMA OptionParts ==
  ASSUME NEW o, IsReadable(o)
  PROVE  /\ o.delimiter \in Tokens /\ o.quote \in Tokens
         /\ o.nullValue \in Seq(Tokens) /\ o.lineEnding \in Seq(Tokens)
         /\ o.includeHeader \in BOOLEAN
         /\ o.quoteStyle \in {"necessary", "always", "never"}
         /\ o.delimiter # o.quote
  BY DEF IsReadable, DelimitedOptions, ValidOptions

\* A quoted field.
LEMMA QuotedIs ==
  ASSUME NEW quote \in Tokens, NEW text \in Seq(Tokens)
  PROVE  /\ Quoted(text, quote) \in Seq(Tokens) /\ Quoted(text, quote) # << >>
         /\ FlattenSeq(Mapped(Doubled(quote), text)) \in Seq(Tokens)
         /\ Quoted(text, quote)
              = Append(<<quote>> \o FlattenSeq(Mapped(Doubled(quote), text)), quote)
         /\ <<quote>> \o FlattenSeq(Mapped(Doubled(quote), text)) \in Seq(Tokens)
  <1>1. PICK one \in Seq(Tokens) : one = <<quote>>
    BY OneWord
  <1>2. PICK g \in [Tokens -> Seq(Tokens)] : g = Doubled(quote)
    BY DoubledType
  <1>3. PICK m \in Seq(Seq(Tokens)) : m = Mapped(g, text)
    BY MappedType
  <1>4. PICK inner \in Seq(Tokens) : inner = FlattenSeq(m)
    BY FlattenType
  <1>5. m = [i \in DOMAIN text |-> IF text[i] = quote THEN <<quote, quote>>
                                   ELSE <<text[i]>>]
    <2>1. \A i \in DOMAIN text : text[i] \in Tokens
      OBVIOUS
    <2> QED BY <1>2, <1>3, <2>1 DEF Mapped, Doubled
  <1>6. Quoted(text, quote) = one \o inner \o one
    BY <1>1, <1>4, <1>5 DEF Quoted
  <1>7. PICK begun \in Seq(Tokens) : begun = one \o inner
    BY ConcatProperties
  <1>8. PICK whole \in Seq(Tokens) : whole = Append(begun, quote)
    BY AppendProperties
  <1>10. Len(whole) = Len(begun) + 1
    BY <1>8
  <1>11. whole = begun \o one
    BY <1>1, <1>8, AppendIsConcat
  <1>12. whole # << >>
    BY <1>10
  <1> QED BY <1>1, <1>2, <1>3, <1>4, <1>6, <1>7, <1>8, <1>11, <1>12

LEMMA WrittenFieldIs ==
  ASSUME NEW o, IsReadable(o), NEW text \in Seq(Tokens)
  PROVE  /\ WriteField(text, o) \in Seq(Tokens)
         /\ WriteField(text, o) = << >> <=> o.quoteStyle # "always" /\ text = << >>
  <1>1. PICK q \in Tokens : q = o.quote
    BY OptionParts
  <1>2. CASE o.quoteStyle = "always" \/ (o.quoteStyle = "necessary" /\ NeedsQuote(text, o))
    <2>1. WriteField(text, o) = Quoted(text, q)
      BY <1>1, <1>2 DEF WriteField
    <2>2. NeedsQuote(text, o) => text # << >>
      BY DEF NeedsQuote
    <2>3. Quoted(text, q) \in Seq(Tokens) /\ Quoted(text, q) # << >>
      BY QuotedIs
    <2> QED BY <1>2, <2>1, <2>2, <2>3
  <1>3. CASE ~(o.quoteStyle = "always" \/ (o.quoteStyle = "necessary" /\ NeedsQuote(text, o)))
    BY <1>3 DEF WriteField
  <1> QED BY <1>2, <1>3

LEMMA FieldIsRead ==
  ASSUME NEW o, IsReadable(o), NEW records \in Seq(Seq(Seq(Tokens))),
         NEW fields \in Seq(Seq(Tokens)), NEW mode \in {"start", "field"},
         NEW text \in Seq(Tokens), FieldFits(text, o)
  PROVE  \E after \in ModeAfter(mode, WriteField(text, o)) :
           ReadFrom(Reader(records, fields, << >>, mode), WriteField(text, o),
                    o.delimiter, o.quote)
             = Reader(records, fields, text, after)
  <1>1. PICK q \in Tokens : q = o.quote
    BY OptionParts
  <1>2. CASE o.quoteStyle = "always" \/ (o.quoteStyle = "necessary" /\ NeedsQuote(text, o))
    <2>1. WriteField(text, o) = Quoted(text, q) /\ Quoted(text, q) # << >>
      BY <1>1, <1>2, QuotedIs DEF WriteField
    <2>2. PICK one \in Seq(Tokens) : one = <<q>>
      BY OneWord
    <2>3. PICK inner \in Seq(Tokens) : inner = FlattenSeq(Mapped(Doubled(q), text))
      BY QuotedIs
    <2>4. PICK begun \in Seq(Tokens) : begun = one \o inner
      BY ConcatProperties
    <2>5. Quoted(text, q) = Append(begun, q)
      BY <2>2, <2>3, <2>4, QuotedIs
    <2>6. PICK r \in Readers : r = Reader(records, fields, << >>, mode)
      <3>1. << >> \in Seq(Tokens) /\ mode \in Modes
        BY DEF Modes
      <3> QED BY <3>1, ReaderType
    <2>7. PICK inside \in Readers : inside = Reader(records, fields, << >>, "quoted")
      <3>1. << >> \in Seq(Tokens) /\ "quoted" \in Modes
        BY DEF Modes
      <3> QED BY <3>1, ReaderType
    <2>8. ReadFrom(r, one, o.delimiter, q) = inside
      <3>1. ReadFrom(r, one, o.delimiter, q) = ReadToken(r, q, o.delimiter, q)
        BY <2>2, ReadOne
      <3>2. Meets(records, fields, << >>, q, o)
        BY TokenIsRead
      <3>3. ReadToken(r, q, o.delimiter, q) = inside
        BY <1>1, <2>6, <2>7, <3>2 DEF Meets
      <3> QED BY <3>1, <3>3
    <2>9. ReadFrom(r, begun, o.delimiter, q) = ReadFrom(inside, inner, o.delimiter, q)
      <3>1. ReadFrom(r, one \o inner, o.delimiter, q)
              = ReadFrom(ReadFrom(r, one, o.delimiter, q), inner, o.delimiter, q)
        BY ReadConcat
      <3> QED BY <2>4, <2>8, <3>1
    <2>10. ReadFrom(inside, inner, o.delimiter, q) = Reader(records, fields, text, "quoted")
      BY <1>1, <2>3, <2>7, InnerIsRead
    <2>11. ReadFrom(r, Append(begun, q), o.delimiter, q)
             = ReadToken(ReadFrom(r, begun, o.delimiter, q), q, o.delimiter, q)
      BY ReadAppend
    <2>12. ReadToken(Reader(records, fields, text, "quoted"), q, o.delimiter, q)
             = Reader(records, fields, text, "after")
      <3>1. Meets(records, fields, text, q, o)
        BY TokenIsRead
      <3> QED BY <1>1, <3>1 DEF Meets
    <2>13. "after" \in ModeAfter(mode, WriteField(text, o))
      BY <2>1 DEF ModeAfter
    <2> QED BY <1>1, <2>1, <2>5, <2>6, <2>9, <2>10, <2>11, <2>12, <2>13
  <1>3. CASE ~(o.quoteStyle = "always" \/ (o.quoteStyle = "necessary" /\ NeedsQuote(text, o)))
    <2>1. WriteField(text, o) = text
      BY <1>3 DEF WriteField
    <2>2. ~NeedsQuote(text, o)
      BY <1>3, OptionParts DEF FieldFits
    <2>3. ReadFrom(Reader(records, fields, << >>, mode), text, o.delimiter, o.quote)
            = IF text = << >> THEN Reader(records, fields, << >>, mode)
              ELSE Reader(records, fields, text, "plain")
      BY <2>2, PlainIsRead
    <2>4. CASE text = << >>
      BY <2>1, <2>3, <2>4 DEF ModeAfter
    <2>5. CASE text # << >>
      BY <2>1, <2>3, <2>5 DEF ModeAfter
    <2> QED BY <2>4, <2>5
  <1> QED BY <1>2, <1>3

-----------------------------------------------------------------------------
(* The end of a line. *)

\* Further line breaks change nothing.
LEMMA BreaksAreSkipped ==
  ASSUME NEW o, IsReadable(o), NEW records \in Seq(Seq(Seq(Tokens))),
         NEW breaks \in Seq(Tokens), \A i \in DOMAIN breaks : breaks[i] \in LineBreaks
  PROVE  ReadFrom(Reader(records, << >>, << >>, "start"), breaks, o.delimiter, o.quote)
           = Reader(records, << >>, << >>, "start")
  <1>1. PICK r \in Readers : r = Reader(records, << >>, << >>, "start")
    <2>1. << >> \in Seq(Tokens) /\ << >> \in Seq(Seq(Tokens)) /\ "start" \in Modes
      BY DEF Modes
    <2> QED BY <2>1, ReaderType
  <1>2. PICK n \in Nat : n = Len(breaks)
    OBVIOUS
  <1> DEFINE T == {k \in Nat : k <= n =>
                     ReadFrom(r, SubSeq(breaks, 1, k), o.delimiter, o.quote) = r}
  <1>3. 0 \in T
    <2>1. SubSeq(breaks, 1, 0) = << >>
      BY WholePrefix
    <2> QED BY <2>1, ReadNothing
  <1>4. ASSUME NEW k \in Nat, k \in T PROVE k + 1 \in T
    <2> SUFFICES ASSUME k + 1 <= n
                 PROVE  ReadFrom(r, SubSeq(breaks, 1, k + 1), o.delimiter, o.quote) = r
      OBVIOUS
    <2>1. k <= n /\ k < Len(breaks)
      BY <1>2
    <2>2. PICK s \in Seq(Tokens) : s = SubSeq(breaks, 1, k)
      BY <2>1, PrefixGrows
    <2>3. PICK token \in Tokens : token = breaks[k + 1]
      BY <2>1, PrefixGrows
    <2>4. SubSeq(breaks, 1, k + 1) = Append(s, token)
      BY <2>1, <2>2, <2>3, PrefixGrows
    <2>5. token \in LineBreaks
      BY <1>2, <2>3
    <2>6. ReadFrom(r, Append(s, token), o.delimiter, o.quote)
            = ReadToken(ReadFrom(r, s, o.delimiter, o.quote), token, o.delimiter, o.quote)
      BY ReadAppend
    <2>7. ReadFrom(r, s, o.delimiter, o.quote) = r
      BY <1>4, <2>1, <2>2
    <2>8. Meets(records, << >>, << >>, token, o)
      BY TokenIsRead
    <2>9. ReadToken(r, token, o.delimiter, o.quote) = r
      BY <1>1, <2>5, <2>8 DEF Meets
    <2> QED BY <2>4, <2>6, <2>7, <2>9
  <1>5. n \in T
    <2> HIDE DEF T
    <2> QED BY <1>3, <1>4, Induction
  <1>6. SubSeq(breaks, 1, n) = breaks
    BY <1>2, WholePrefix
  <1>7. ReadFrom(r, SubSeq(breaks, 1, n), o.delimiter, o.quote) = r
    BY <1>5
  <1> QED BY <1>1, <1>6, <1>7

\* The ending of a line with a field on it ends the record.
LEMMA EndingIsRead ==
  ASSUME NEW o, IsReadable(o), NEW records \in Seq(Seq(Seq(Tokens))),
         NEW fields \in Seq(Seq(Tokens)), NEW field \in Seq(Tokens),
         NEW mode \in {"field", "plain", "after"},
         NEW breaks \in Seq(Tokens), breaks # << >>,
         \A i \in DOMAIN breaks : breaks[i] \in LineBreaks
  PROVE  ReadFrom(Reader(records, fields, field, mode), breaks, o.delimiter, o.quote)
           = Reader(Append(records, Append(fields, field)), << >>, << >>, "start")
  <1>1. PICK r \in Readers : r = Reader(records, fields, field, mode)
    <2>1. mode \in Modes
      BY DEF Modes
    <2> QED BY <2>1, ReaderType
  <1>2. PICK token \in Tokens : token = breaks[1] /\ token \in LineBreaks
    <2>1. 1 \in DOMAIN breaks
      OBVIOUS
    <2> QED BY <2>1
  <1>3. PICK one \in Seq(Tokens) : one = <<token>>
    BY OneWord
  <1>4. PICK rest \in Seq(Tokens) : rest = Tail(breaks)
    BY HeadTailProperties
  <1>5. /\ Len(rest) = Len(breaks) - 1
        /\ \A i \in 1 .. Len(rest) : rest[i] = breaks[i + 1]
        /\ Len(one) = 1 /\ one[1] = token
    BY <1>3, <1>4
  <1>6. breaks = one \o rest
    <2>1. Len(breaks) = Len(one) + Len(rest) /\ Len(breaks) \in Nat
      BY <1>5
    <2>2. \A i \in 1 .. Len(one) : breaks[i] = one[i]
      BY <1>2, <1>5
    <2>3. \A i \in 1 .. Len(rest) : breaks[Len(one) + i] = rest[i]
      BY <1>5
    <2> QED BY <2>1, <2>2, <2>3, IsConcat
  <1>7. ReadFrom(r, one \o rest, o.delimiter, o.quote)
          = ReadFrom(ReadFrom(r, one, o.delimiter, o.quote), rest, o.delimiter, o.quote)
    BY ReadConcat
  <1>8. PICK longer \in Seq(Seq(Seq(Tokens))) :
          longer = Append(records, Append(fields, field))
    <2>1. PICK record \in Seq(Seq(Tokens)) : record = Append(fields, field)
      BY AppendProperties
    <2> QED BY <2>1, AppendProperties
  <1>9. ReadFrom(r, one, o.delimiter, o.quote) = Reader(longer, << >>, << >>, "start")
    <2>1. ReadFrom(r, one, o.delimiter, o.quote)
            = ReadToken(r, token, o.delimiter, o.quote)
      BY <1>3, ReadOne
    <2>2. Meets(records, fields, field, token, o)
      BY TokenIsRead
    <2> QED BY <1>1, <1>2, <1>8, <2>1, <2>2 DEF Meets
  <1>10. \A i \in DOMAIN rest : rest[i] \in LineBreaks
    <2>1. ASSUME NEW i \in DOMAIN rest PROVE rest[i] \in LineBreaks
      <3>1. i \in 1 .. Len(rest) /\ i + 1 \in DOMAIN breaks
        BY <1>5
      <3> QED BY <1>5, <3>1
    <2> QED BY <2>1
  <1>11. ReadFrom(Reader(longer, << >>, << >>, "start"), rest, o.delimiter, o.quote)
           = Reader(longer, << >>, << >>, "start")
    BY <1>10, BreaksAreSkipped
  <1> QED BY <1>1, <1>6, <1>7, <1>8, <1>9, <1>11

\* A line and its ending.
LineOf(fields, o) ==
  Joined([i \in DOMAIN fields |-> WriteField(fields[i], o)], <<o.delimiter>>)
    \o o.lineEnding

\* The fields of a line as they are written, each but the first behind a delimiter.
Piece(fields, o, i) ==
  IF i = 1 THEN WriteField(fields[i], o) ELSE <<o.delimiter>> \o WriteField(fields[i], o)
Pieces(fields, o) == [i \in DOMAIN fields |-> Piece(fields, o, i)]

LEMMA PiecesType ==
  ASSUME NEW o, IsReadable(o), NEW fields \in Seq(Seq(Tokens))
  PROVE  /\ Pieces(fields, o) \in Seq(Seq(Tokens)) /\ Len(Pieces(fields, o)) = Len(fields)
         /\ \A i \in 1 .. Len(fields) : Pieces(fields, o)[i] = Piece(fields, o, i)
         /\ Joined([i \in DOMAIN fields |-> WriteField(fields[i], o)], <<o.delimiter>>)
              = FlattenSeq(Pieces(fields, o))
  <1>1. PICK n \in Nat : n = Len(fields) /\ DOMAIN fields = 1 .. n
    OBVIOUS
  <1>2. PICK d \in Seq(Tokens) : d = <<o.delimiter>>
    BY OptionParts, OneWord
  <1>3. ASSUME NEW i \in 1 .. n
        PROVE  Piece(fields, o, i) \in Seq(Tokens)
    <2>1. PICK text \in Seq(Tokens) : text = fields[i]
      BY <1>1
    <2>2. PICK w \in Seq(Tokens) : w = WriteField(text, o)
      BY WrittenFieldIs
    <2>3. d \o w \in Seq(Tokens)
      BY ConcatProperties
    <2> QED BY <1>2, <2>1, <2>2, <2>3 DEF Piece
  <1>4. Pieces(fields, o) \in [1 .. n -> Seq(Tokens)]
    BY <1>1, <1>3 DEF Pieces
  <1>5. Pieces(fields, o) \in Seq(Seq(Tokens)) /\ Len(Pieces(fields, o)) = n
    BY <1>4, MapType
  <1>6. \A i \in 1 .. n : Pieces(fields, o)[i] = Piece(fields, o, i)
    BY <1>1 DEF Pieces
  <1>7. PICK texts : texts = [i \in DOMAIN fields |-> WriteField(fields[i], o)]
    OBVIOUS
  <1>8. [i \in DOMAIN texts |-> IF i = 1 THEN texts[i] ELSE <<o.delimiter>> \o texts[i]]
          = Pieces(fields, o)
    BY <1>7 DEF Pieces, Piece
  <1>9. Joined(texts, <<o.delimiter>>) = FlattenSeq(Pieces(fields, o))
    BY <1>8 DEF Joined
  <1> QED BY <1>1, <1>5, <1>6, <1>7, <1>9

\* Where a reader is behind the first k fields of a line.
Stands(r, records, fields, o, k) ==
  \/ k = 0 /\ r = Reader(records, << >>, << >>, "start")
  \/ /\ k > 0
     /\ \E mode \in (IF k = 1 THEN ModeAfter("start", WriteField(fields[1], o))
                     ELSE {"field", "plain", "after"}) :
          r = Reader(records, SubSeq(fields, 1, k - 1), fields[k], mode)

\* A delimiter ends a field, whichever it is.
LEMMA DelimiterIsRead ==
  ASSUME NEW o, IsReadable(o), NEW records \in Seq(Seq(Seq(Tokens))),
         NEW fields \in Seq(Seq(Tokens)), NEW k \in Nat, k > 0, k < Len(fields),
         NEW r, Stands(r, records, fields, o, k)
  PROVE  ReadFrom(r, <<o.delimiter>>, o.delimiter, o.quote)
           = Reader(records, SubSeq(fields, 1, k), << >>, "field")
  <1>1. PICK mode \in Modes \ {"quoted"} :
          r = Reader(records, SubSeq(fields, 1, k - 1), fields[k], mode)
    BY DEF Stands, ModeAfter, Modes
  <1>2. PICK j \in Nat : j = k - 1 /\ j < Len(fields) /\ j + 1 = k
    OBVIOUS
  <1>3. PICK s \in Seq(Seq(Tokens)) : s = SubSeq(fields, 1, j)
    BY <1>2, PrefixGrows
  <1>4. PICK field \in Seq(Tokens) : field = fields[k]
    BY <1>2, PrefixGrows
  <1>5. SubSeq(fields, 1, k) = Append(s, field)
    BY <1>2, <1>3, <1>4, PrefixGrows
  <1>6. r = Reader(records, s, field, mode)
    BY <1>1, <1>2, <1>3, <1>4
  <1>7. r \in Readers
    BY <1>6, ReaderType
  <1>8. ReadFrom(r, <<o.delimiter>>, o.delimiter, o.quote)
          = ReadToken(r, o.delimiter, o.delimiter, o.quote)
    BY <1>7, OptionParts, ReadOne
  <1>9. Meets(records, s, field, o.delimiter, o)
    BY TokenIsRead
  <1> QED BY <1>5, <1>6, <1>8, <1>9 DEF Meets

LEMMA PieceIsRead ==
  ASSUME NEW o, IsReadable(o), NEW records \in Seq(Seq(Seq(Tokens))),
         NEW fields \in Seq(Seq(Tokens)), \A i \in DOMAIN fields : FieldFits(fields[i], o),
         NEW k \in Nat, k < Len(fields),
         NEW r \in Readers, Stands(r, records, fields, o, k)
  PROVE  Stands(ReadFrom(r, Piece(fields, o, k + 1), o.delimiter, o.quote),
                records, fields, o, k + 1)
  <1>1. k + 1 \in DOMAIN fields
    OBVIOUS
  <1>2. PICK text \in Seq(Tokens) : text = fields[k + 1]
    BY <1>1
  <1>3. FieldFits(text, o)
    BY <1>1, <1>2
  <1>4. PICK w \in Seq(Tokens) : w = WriteField(text, o)
    BY WrittenFieldIs
  <1>5. CASE k = 0
    <2>1. r = Reader(records, << >>, << >>, "start")
      BY <1>5 DEF Stands
    <2>7. << >> \in Seq(Seq(Tokens))
      OBVIOUS
    <2>2. PICK none \in Seq(Seq(Tokens)) : none = << >>
      BY <2>7
    <2>0. r = Reader(records, none, << >>, "start")
      BY <2>1, <2>2
    <2>3. PICK after \in ModeAfter("start", w) :
            ReadFrom(r, w, o.delimiter, o.quote) = Reader(records, none, text, after)
      BY <1>3, <1>4, <2>0, FieldIsRead
    <2>4. SubSeq(fields, 1, 0) = << >>
      BY WholePrefix
    <2>5. Piece(fields, o, 1) = w
      BY <1>2, <1>4, <1>5 DEF Piece
    <2>6. Stands(ReadFrom(r, w, o.delimiter, o.quote), records, fields, o, 1)
      <3>1. 1 > 0 /\ 1 - 1 = 0 /\ text = fields[1] /\ w = WriteField(fields[1], o)
        BY <1>2, <1>4, <1>5
      <3>2. ReadFrom(r, w, o.delimiter, o.quote)
              = Reader(records, SubSeq(fields, 1, 1 - 1), fields[1], after)
        BY <2>2, <2>3, <2>4, <3>1
      <3> QED BY <2>3, <3>1, <3>2 DEF Stands
    <2> QED BY <1>5, <2>5, <2>6
  <1>6. CASE k # 0
    <2>1. PICK d \in Seq(Tokens) : d = <<o.delimiter>>
      BY OptionParts, OneWord
    <2>2. PICK s \in Seq(Seq(Tokens)) : s = SubSeq(fields, 1, k)
      BY PrefixGrows
    <2>3. ReadFrom(r, d, o.delimiter, o.quote) = Reader(records, s, << >>, "field")
      BY <1>6, <2>1, <2>2, DelimiterIsRead
    <2>4. PICK after \in ModeAfter("field", w) :
            ReadFrom(Reader(records, s, << >>, "field"), w, o.delimiter, o.quote)
              = Reader(records, s, text, after)
      BY <1>3, <1>4, FieldIsRead
    <2>5. ReadFrom(r, d \o w, o.delimiter, o.quote)
            = ReadFrom(ReadFrom(r, d, o.delimiter, o.quote), w, o.delimiter, o.quote)
      BY ReadConcat
    <2>6. Piece(fields, o, k + 1) = d \o w
      BY <1>2, <1>4, <1>6, <2>1 DEF Piece
    <2>7. after \in {"field", "plain", "after"}
      BY <2>4 DEF ModeAfter
    <2>8. ReadFrom(r, d \o w, o.delimiter, o.quote) = Reader(records, s, text, after)
      BY <2>3, <2>4, <2>5
    <2>9. k + 1 > 0 /\ k + 1 # 1 /\ (k + 1) - 1 = k
      BY <1>6
    <2>10. Stands(ReadFrom(r, d \o w, o.delimiter, o.quote), records, fields, o, k + 1)
      BY <1>2, <2>2, <2>7, <2>8, <2>9 DEF Stands
    <2> QED BY <2>6, <2>10
  <1> QED BY <1>5, <1>6

\* All the fields of a line.
LEMMA FieldsAreRead ==
  ASSUME NEW o, IsReadable(o), NEW records \in Seq(Seq(Seq(Tokens))),
         NEW fields \in Seq(Seq(Tokens)), \A i \in DOMAIN fields : FieldFits(fields[i], o)
  PROVE  /\ FlattenSeq(Pieces(fields, o)) \in Seq(Tokens)
         /\ Stands(ReadFrom(Reader(records, << >>, << >>, "start"),
                            FlattenSeq(Pieces(fields, o)), o.delimiter, o.quote),
                   records, fields, o, Len(fields))
  <1>1. PICK r \in Readers : r = Reader(records, << >>, << >>, "start")
    <2>1. << >> \in Seq(Tokens) /\ << >> \in Seq(Seq(Tokens)) /\ "start" \in Modes
      BY DEF Modes
    <2> QED BY <2>1, ReaderType
  <1>2. PICK n \in Nat : n = Len(fields)
    OBVIOUS
  <1>3. PICK p \in Seq(Seq(Tokens)) : p = Pieces(fields, o)
    BY PiecesType
  <1>4. Len(p) = n /\ \A i \in 1 .. n : p[i] = Piece(fields, o, i)
    BY <1>2, <1>3, PiecesType
  <1>5. PICK flat : IsRunning(flat, p, Tokens) /\ FlattenSeq(p) = flat[Len(p)]
    BY Running
  <1>6. \A i \in 0 .. n : flat[i] \in Seq(Tokens)
    BY <1>4, <1>5 DEF IsRunning
  <1> DEFINE Goal(k) == Stands(ReadFrom(r, flat[k], o.delimiter, o.quote),
                               records, fields, o, k)
             T == {k \in Nat : k <= n => Goal(k)}
  <1>7. 0 \in T
    <2>1. flat[0] = << >>
      BY <1>5 DEF IsRunning
    <2>2. ReadFrom(r, << >>, o.delimiter, o.quote) = r
      BY ReadNothing
    <2>3. Goal(0)
      BY <1>1, <2>1, <2>2 DEF Stands
    <2> QED BY <2>3
  <1>8. ASSUME NEW k \in Nat, k \in T PROVE k + 1 \in T
    <2> SUFFICES ASSUME k + 1 <= n PROVE Goal(k + 1)
      OBVIOUS
    <2>1. k <= n /\ k < Len(fields) /\ k \in 0 .. n /\ k + 1 \in 1 .. n /\ (k + 1) - 1 = k
      BY <1>2
    <2>2. PICK piece \in Seq(Tokens) : piece = p[k + 1]
      BY <1>4, <2>1
    <2>3. PICK before \in Seq(Tokens) : before = flat[k]
      BY <1>6, <2>1
    <2>4. flat[k + 1] = before \o piece
      BY <1>4, <1>5, <2>1, <2>2, <2>3 DEF IsRunning
    <2>5. PICK s \in Readers : s = ReadFrom(r, before, o.delimiter, o.quote)
      BY ReadType
    <2>6. Stands(s, records, fields, o, k)
      BY <1>8, <2>1, <2>3, <2>5
    <2>7. Stands(ReadFrom(s, piece, o.delimiter, o.quote), records, fields, o, k + 1)
      BY <1>4, <2>1, <2>2, <2>6, PieceIsRead
    <2>8. ReadFrom(r, before \o piece, o.delimiter, o.quote)
            = ReadFrom(ReadFrom(r, before, o.delimiter, o.quote), piece, o.delimiter, o.quote)
      BY ReadConcat
    <2> QED BY <2>4, <2>5, <2>7, <2>8
  <1>9. n \in T
    <2> HIDE DEF T
    <2> QED BY <1>7, <1>8, Induction
  <1>10. Goal(n)
    BY <1>9
  <1>11. flat[n] \in Seq(Tokens)
    BY <1>6
  <1> QED BY <1>1, <1>2, <1>3, <1>4, <1>5, <1>10, <1>11

\* The records a line adds to those before.
Recorded(records, fields, o) ==
  IF IsBlankLine(fields, o) THEN records ELSE Append(records, fields)

EndsInBreaks(o) == o.lineEnding \in Seq(LineBreaks) \ {<< >>}

LEMMA LineIsRead ==
  ASSUME NEW o, IsReadable(o), EndsInBreaks(o), NEW records \in Seq(Seq(Seq(Tokens))),
         NEW fields \in Seq(Seq(Tokens)), \A i \in DOMAIN fields : FieldFits(fields[i], o)
  PROVE  /\ LineOf(fields, o) \in Seq(Tokens)
         /\ ReadFrom(Reader(records, << >>, << >>, "start"), LineOf(fields, o),
                     o.delimiter, o.quote)
              = Reader(Recorded(records, fields, o), << >>, << >>, "start")
  <1>1. PICK r \in Readers : r = Reader(records, << >>, << >>, "start")
    <2>1. << >> \in Seq(Tokens) /\ << >> \in Seq(Seq(Tokens)) /\ "start" \in Modes
      BY DEF Modes
    <2> QED BY <2>1, ReaderType
  <1>2. PICK text \in Seq(Tokens) : text = FlattenSeq(Pieces(fields, o))
    BY FieldsAreRead
  <1>3. PICK ending \in Seq(Tokens) : ending = o.lineEnding
    BY OptionParts
  <1>4. ending # << >> /\ \A i \in DOMAIN ending : ending[i] \in LineBreaks
    BY <1>3 DEF EndsInBreaks
  <1>5. LineOf(fields, o) = text \o ending
    BY <1>2, <1>3, PiecesType DEF LineOf
  <1>6. PICK s \in Readers : s = ReadFrom(r, text, o.delimiter, o.quote)
    BY ReadType
  <1>7. Stands(s, records, fields, o, Len(fields))
    BY <1>1, <1>2, <1>6, FieldsAreRead
  <1>8. ReadFrom(r, text \o ending, o.delimiter, o.quote)
          = ReadFrom(s, ending, o.delimiter, o.quote)
    BY <1>6, ReadConcat
  <1>9. text \o ending \in Seq(Tokens)
    BY ConcatProperties
  <1>10. ReadFrom(s, ending, o.delimiter, o.quote)
           = Reader(Recorded(records, fields, o), << >>, << >>, "start")
    <2>1. CASE IsBlankLine(fields, o)
      <3>1. s = Reader(records, << >>, << >>, "start")
        <4>1. CASE fields = << >>
          BY <1>7, <4>1 DEF Stands
        <4>2. CASE o.quoteStyle # "always" /\ fields = <<<< >>>>
          <5>1. Len(fields) = 1 /\ fields[1] = << >> /\ << >> \in Seq(Tokens)
            BY <4>2
          <5>2. WriteField(fields[1], o) = << >>
            BY <4>2, <5>1, WrittenFieldIs
          <5>3. s = Reader(records, SubSeq(fields, 1, 0), << >>, "start")
            BY <1>7, <5>1, <5>2 DEF Stands, ModeAfter
          <5>4. SubSeq(fields, 1, 0) = << >>
            BY WholePrefix
          <5> QED BY <5>3, <5>4
        <4> QED BY <2>1, <4>1, <4>2 DEF IsBlankLine
      <3> QED BY <1>4, <2>1, <3>1, BreaksAreSkipped DEF Recorded
    <2>2. CASE ~IsBlankLine(fields, o)
      <3>1. PICK j \in Nat : Len(fields) = j + 1
        <4>1. Len(fields) \in Nat /\ Len(fields) # 0
          BY <2>2 DEF IsBlankLine
        <4>2. Len(fields) - 1 \in Nat /\ Len(fields) = (Len(fields) - 1) + 1
          BY <4>1
        <4> QED BY <4>2
      <3>2. j < Len(fields) /\ j + 1 > 0 /\ (j + 1) - 1 = j
        BY <3>1
      <3>3. PICK first \in Seq(Seq(Tokens)) : first = SubSeq(fields, 1, j)
        BY <3>2, PrefixGrows
      <3>4. PICK field \in Seq(Tokens) : field = fields[j + 1]
        BY <3>2, PrefixGrows
      <3>5. fields = Append(first, field)
        <4>1. SubSeq(fields, 1, j + 1) = Append(first, field)
          BY <3>2, <3>3, <3>4, PrefixGrows
        <4>2. SubSeq(fields, 1, Len(fields)) = fields
          BY WholePrefix
        <4> QED BY <3>1, <4>1, <4>2
      <3>6. PICK mode \in (IF j + 1 = 1 THEN ModeAfter("start", WriteField(fields[1], o))
                           ELSE {"field", "plain", "after"}) :
              s = Reader(records, first, field, mode)
        BY <1>7, <3>1, <3>2, <3>3, <3>4 DEF Stands
      <3>7. mode \in {"field", "plain", "after"}
        <4>1. CASE j = 0
          <5>1. Len(fields) = 1 /\ field = fields[1] /\ fields = <<fields[1]>>
            BY <3>1, <3>4, <4>1
          <5>2. WriteField(fields[1], o) # << >>
            <6>1. SUFFICES ASSUME WriteField(field, o) = << >> PROVE FALSE
              BY <5>1
            <6>2. o.quoteStyle # "always" /\ field = << >>
              BY <6>1, WrittenFieldIs
            <6> QED BY <2>2, <5>1, <6>2 DEF IsBlankLine
          <5>3. mode \in {"plain", "after"}
            BY <3>6, <4>1, <5>2 DEF ModeAfter
          <5> QED BY <5>3
        <4>2. CASE j # 0
          BY <3>6, <4>2
        <4> QED BY <4>1, <4>2
      <3>8. ReadFrom(s, ending, o.delimiter, o.quote)
              = Reader(Append(records, Append(first, field)), << >>, << >>, "start")
        BY <1>4, <3>6, <3>7, EndingIsRead
      <3> QED BY <2>2, <3>5, <3>8 DEF Recorded
    <2> QED BY <2>1, <2>2
  <1> QED BY <1>1, <1>5, <1>8, <1>9, <1>10

LEMMA CellParts ==
  ASSUME NEW cell \in Cells
  PROVE  /\ cell.type \in CellTypes /\ cell.text \in Seq(Tokens)
         /\ cell.type = "null" => cell = Null
  <1>1. CASE cell = Null
    <2>1. << >> \in Seq(Tokens)
      OBVIOUS
    <2> QED BY <1>1, <2>1 DEF Null, CellOf, CellTypes
  <1>2. CASE cell # Null
    BY <1>2 DEF Cells
  <1> QED BY <1>1, <1>2

LEMMA FieldTextsType ==
  ASSUME NEW o, IsReadable(o), NEW row \in Seq(Cells)
  PROVE  /\ FieldTexts(row, o) \in Seq(Seq(Tokens)) /\ Len(FieldTexts(row, o)) = Len(row)
         /\ DOMAIN FieldTexts(row, o) = DOMAIN row
         /\ \A i \in DOMAIN row : FieldTexts(row, o)[i] = FieldText(row[i], o)
  <1>1. PICK n \in Nat : n = Len(row) /\ DOMAIN row = 1 .. n
    OBVIOUS
  <1>2. ASSUME NEW i \in 1 .. n PROVE FieldText(row[i], o) \in Seq(Tokens)
    <2>1. row[i] \in Cells
      BY <1>1
    <2> QED BY <2>1, CellParts, OptionParts DEF FieldText
  <1>3. FieldTexts(row, o) \in [1 .. n -> Seq(Tokens)]
    BY <1>1, <1>2 DEF FieldTexts
  <1>4. FieldTexts(row, o) \in Seq(Seq(Tokens)) /\ Len(FieldTexts(row, o)) = n
    BY <1>3, MapType
  <1> QED BY <1>1, <1>4 DEF FieldTexts

\* A line that was written to its end.
LEMMA WholeLine ==
  ASSUME NEW e, NEW fields \in Seq(Seq(Tokens)), WriteFields(e, fields).ok
  PROVE  /\ WriteFields(e, fields).out = LineOf(fields, e.format.options)
         /\ WriteFields(e, fields).encoder = e
         /\ \A i \in DOMAIN fields : FieldFits(fields[i], e.format.options)
  <1>1. PICK o : o = e.format.options
    OBVIOUS
  <1>2. PICK bad : bad = {i \in DOMAIN fields : ~FieldFits(fields[i], o)}
    OBVIOUS
  <1>3. CASE bad = {}
    <2>1. PICK line : line = Joined([i \in 1 .. Len(fields) |-> WriteField(fields[i], o)],
                                    <<o.delimiter>>) \o o.lineEnding
      OBVIOUS
    <2>2. WriteFields(e, fields) = Result(TRUE, line, e)
      BY <1>1, <1>2, <1>3, <2>1 DEF WriteFields
    <2>3. DOMAIN fields = 1 .. Len(fields)
      OBVIOUS
    <2>4. line = LineOf(fields, o)
      BY <2>1, <2>3 DEF LineOf
    <2> QED BY <1>1, <1>2, <1>3, <2>2, <2>4 DEF Result
  <1>4. CASE bad # {}
    <2>1. PICK out : WriteFields(e, fields) = Result(FALSE, out, e)
      BY <1>1, <1>2, <1>4 DEF WriteFields
    <2> QED BY <2>1 DEF Result
  <1> QED BY <1>3, <1>4

-----------------------------------------------------------------------------
(* The records of a file. *)

IsKept(row, format) ==
  ~(format.kind = "delimited"
      /\ IsBlankLine(FieldTexts(row, format.options), format.options))
Keep(format) == [row \in Seq(Cells) |-> IF IsKept(row, format) THEN <<row>> ELSE << >>]

LEMMA KeepType ==
  ASSUME NEW format
  PROVE  Keep(format) \in [Seq(Cells) -> Seq(Seq(Cells))]
  <1>1. << >> \in Seq(Seq(Cells))
    OBVIOUS
  <1>2. \A row \in Seq(Cells) : <<row>> \in Seq(Seq(Cells))
    BY OneWord
  <1> QED BY <1>1, <1>2 DEF Keep

LEMMA KeptIs ==
  ASSUME NEW exported \in Seq(Seq(Cells)), NEW format
  PROVE  /\ KeptRows(exported, format) = FlattenSeq(Mapped(Keep(format), exported))
         /\ KeptRows(exported, format) \in Seq(Seq(Cells))
  <1>1. Mapped(Keep(format), exported)
          = [r \in DOMAIN exported |->
               IF format.kind = "delimited"
                    /\ IsBlankLine(FieldTexts(exported[r], format.options), format.options)
               THEN << >> ELSE <<exported[r]>>]
    <2>1. \A r \in DOMAIN exported : exported[r] \in Seq(Cells)
      OBVIOUS
    <2> QED BY <2>1 DEF Mapped, Keep, IsKept
  <1>2. PICK g \in [Seq(Cells) -> Seq(Seq(Cells))] : g = Keep(format)
    BY KeepType
  <1>3. PICK m \in Seq(Seq(Seq(Cells))) : m = Mapped(g, exported)
    BY MappedType
  <1>4. FlattenSeq(m) \in Seq(Seq(Cells))
    BY FlattenType
  <1> QED BY <1>1, <1>2, <1>3, <1>4 DEF KeptRows

LEMMA KeptNone ==
  ASSUME NEW format
  PROVE  KeptRows(<< >>, format) = << >>
  <1>1. << >> \in Seq(Seq(Cells))
    OBVIOUS
  <1> QED BY <1>1, KeptIs, MappedNone, FlattenNone

LEMMA KeptGrows ==
  ASSUME NEW exported \in Seq(Seq(Cells)), NEW row \in Seq(Cells), NEW format
  PROVE  KeptRows(Append(exported, row), format)
           = IF IsKept(row, format) THEN Append(KeptRows(exported, format), row)
             ELSE KeptRows(exported, format)
  <1>1. PICK g \in [Seq(Cells) -> Seq(Seq(Cells))] : g = Keep(format)
    BY KeepType
  <1>2. PICK m \in Seq(Seq(Seq(Cells))) : m = Mapped(g, exported)
    BY MappedType
  <1>3. PICK more \in Seq(Seq(Cells)) : more = Append(exported, row)
    BY AppendProperties
  <1>4. PICK part \in Seq(Seq(Cells)) : part = g[row]
    OBVIOUS
  <1>5. Mapped(g, more) = Append(m, part)
    BY <1>2, <1>3, <1>4, MappedGrows
  <1>6. FlattenSeq(Append(m, part)) = FlattenSeq(m) \o part
    BY FlattenAppend
  <1>7. PICK kept \in Seq(Seq(Cells)) : kept = KeptRows(exported, format)
    BY KeptIs
  <1>8. kept = FlattenSeq(m)
    BY <1>1, <1>2, <1>7, KeptIs
  <1>9. KeptRows(more, format) = kept \o part
    BY <1>1, <1>5, <1>6, <1>8, KeptIs
  <1>10. CASE IsKept(row, format)
    <2>1. part = <<row>>
      BY <1>1, <1>4, <1>10 DEF Keep
    <2>2. Append(kept, row) = kept \o <<row>>
      BY AppendIsConcat
    <2> QED BY <1>3, <1>7, <1>9, <1>10, <2>1, <2>2
  <1>11. CASE ~IsKept(row, format)
    <2>1. part = << >>
      BY <1>1, <1>4, <1>11 DEF Keep
    <2>2. kept \o << >> = kept
      BY ConcatEmptySeq
    <2> QED BY <1>3, <1>7, <1>9, <1>11, <2>1, <2>2
  <1> QED BY <1>10, <1>11

TextsOf(o) == [row \in Seq(Cells) |-> FieldTexts(row, o)]
Heading(format) == IF format.options.includeHeader THEN <<format.columns>> ELSE << >>
Found(exported, format) ==
  Heading(format) \o Mapped(TextsOf(format.options), KeptRows(exported, format))

LEMMA TextsOfType ==
  ASSUME NEW o, IsReadable(o)
  PROVE  TextsOf(o) \in [Seq(Cells) -> Seq(Seq(Tokens))]
  BY FieldTextsType DEF TextsOf

LEMMA HeadingType ==
  ASSUME NEW format, format.columns \in Seq(Seq(Tokens))
  PROVE  Heading(format) \in Seq(Seq(Seq(Tokens)))
  <1>1. << >> \in Seq(Seq(Seq(Tokens)))
    OBVIOUS
  <1>2. <<format.columns>> \in Seq(Seq(Seq(Tokens)))
    BY OneWord
  <1> QED BY <1>1, <1>2 DEF Heading

LEMMA FoundType ==
  ASSUME NEW format, format.columns \in Seq(Seq(Tokens)), IsReadable(format.options),
         NEW exported \in Seq(Seq(Cells))
  PROVE  /\ Found(exported, format) \in Seq(Seq(Seq(Tokens)))
         /\ Mapped(TextsOf(format.options), KeptRows(exported, format))
              \in Seq(Seq(Seq(Tokens)))
  <1>1. PICK g \in [Seq(Cells) -> Seq(Seq(Tokens))] : g = TextsOf(format.options)
    BY TextsOfType
  <1>2. PICK kept \in Seq(Seq(Cells)) : kept = KeptRows(exported, format)
    BY KeptIs
  <1>3. PICK m \in Seq(Seq(Seq(Tokens))) : m = Mapped(g, kept)
    BY MappedType
  <1>4. PICK h \in Seq(Seq(Seq(Tokens))) : h = Heading(format)
    BY HeadingType
  <1>5. h \o m \in Seq(Seq(Seq(Tokens)))
    BY ConcatProperties
  <1> QED BY <1>1, <1>2, <1>3, <1>4, <1>5 DEF Found

LEMMA FoundGrows ==
  ASSUME NEW format, format.columns \in Seq(Seq(Tokens)), IsReadable(format.options),
         format.kind = "delimited",
         NEW exported \in Seq(Seq(Cells)), NEW row \in Seq(Cells)
  PROVE  Found(Append(exported, row), format)
           = Recorded(Found(exported, format), FieldTexts(row, format.options),
                      format.options)
  <1>1. PICK g \in [Seq(Cells) -> Seq(Seq(Tokens))] : g = TextsOf(format.options)
    BY TextsOfType
  <1>2. PICK kept \in Seq(Seq(Cells)) : kept = KeptRows(exported, format)
    BY KeptIs
  <1>3. PICK m \in Seq(Seq(Seq(Tokens))) : m = Mapped(g, kept)
    BY MappedType
  <1>4. PICK h \in Seq(Seq(Seq(Tokens))) : h = Heading(format)
    BY HeadingType
  <1>5. PICK texts \in Seq(Seq(Tokens)) : texts = FieldTexts(row, format.options)
    BY FieldTextsType
  <1>6. g[row] = texts
    BY <1>1, <1>5 DEF TextsOf
  <1>7. CASE IsKept(row, format)
    <2>1. KeptRows(Append(exported, row), format) = Append(kept, row)
      BY <1>2, <1>7, KeptGrows
    <2>2. Mapped(g, Append(kept, row)) = Append(m, texts)
      BY <1>3, <1>6, MappedGrows
    <2>3. h \o Append(m, texts) = Append(h \o m, texts)
      BY SMTT(30), AppendBehind
    <2>4. ~IsBlankLine(texts, format.options)
      BY <1>5, <1>7 DEF IsKept
    <2> QED BY <1>1, <1>2, <1>3, <1>4, <1>5, <2>1, <2>2, <2>3, <2>4 DEF Found, Recorded
  <1>8. CASE ~IsKept(row, format)
    <2>1. KeptRows(Append(exported, row), format) = kept
      BY <1>2, <1>8, KeptGrows
    <2>2. IsBlankLine(texts, format.options)
      BY <1>5, <1>8 DEF IsKept
    <2> QED BY <1>2, <1>5, <2>1, <2>2 DEF Found, Recorded
  <1> QED BY <1>7, <1>8

\* The file has the records that a reader is to find.
ReadsBack(format, out, exported) ==
  /\ out \in Seq(Tokens) /\ IsReadable(format.options)
  /\ Readable(format, exported) =>
       ReadFrom(EmptyReader, out, format.options.delimiter, format.options.quote)
         = Reader(Found(exported, format), << >>, << >>, "start")

LEMMA EmptyReaderIs ==
  /\ EmptyReader \in Readers /\ EmptyReader = Reader(<< >>, << >>, << >>, "start")
  /\ << >> \in Seq(Seq(Seq(Tokens)))
  <1>1. /\ << >> \in Seq(Tokens) /\ << >> \in Seq(Seq(Tokens)) /\ "start" \in Modes
        /\ << >> \in Seq(Seq(Seq(Tokens)))
    BY DEF Modes
  <1>2. EmptyReader = Reader(<< >>, << >>, << >>, "start")
    BY DEF EmptyReader, Reader
  <1> QED BY <1>1, <1>2, ReaderType

-----------------------------------------------------------------------------
(* The types of columns. *)

\* The next value is made of the one before.
LEMMA MergeType ==
  ASSUME NEW a \in CellTypes, NEW b \in CellTypes
  PROVE  MergeTypes(a, b) \in CellTypes
  BY DEF MergeTypes, CellTypes

\* A cell fits the type it was merged into, and those before it still do.
LEMMA MergeAdmits ==
  ASSUME NEW a \in CellTypes, NEW c, c.type \in CellTypes,
         NEW b, b.type \in CellTypes
  PROVE  /\ Admits(MergeTypes(a, c.type), c)
         /\ Admits(a, b) => Admits(MergeTypes(a, c.type), b)
  BY DEF MergeTypes, CellTypes, Admits

LEMMA ColumnTypeRuns ==
  ASSUME NEW n \in Nat, NEW cells, DOMAIN cells = 1 .. n,
         \A r \in 1 .. n : cells[r].type \in CellTypes
  PROVE  \E run : /\ run \in [0 .. n -> CellTypes] /\ InferColumnType(cells) = run[n]
                  /\ \A r \in 1 .. n : run[r] = MergeTypes(run[r - 1], cells[r].type)
  <1> DEFINE IsIter(it) ==
        it = [s \in SUBSET (DOMAIN cells) |->
                IF s = {} THEN "null"
                ELSE MergeTypes(it[s \ {Max(s)}], cells[Max(s)].type)]
      iter == CHOOSE it : IsIter(it)
  <1>1. InferColumnType(cells) = iter[DOMAIN cells]
    BY DEF InferColumnType, FoldLeft, MapThenFoldSet
  <1> DEFINE G == [i \in 1 .. n |-> [t \in CellTypes |-> MergeTypes(t, cells[i].type)]]
  <1>2. G \in [1 .. n -> [CellTypes -> CellTypes]] /\ "null" \in CellTypes
    BY MergeType DEF CellTypes
  <1>3. \A i \in 1 .. n : \A t \in CellTypes : G[i][t] = MergeTypes(t, cells[i].type)
    OBVIOUS
  <1> HIDE DEF G
  <1>4. \E it : IsIter(it)
    <2>1. PICK it : IsFold(it, CellTypes, "null", G, n)
      BY <1>2, FoldIsDefined
    <2>2. ASSUME NEW s \in SUBSET (1 .. n)
          PROVE  it[s] = IF s = {} THEN "null"
                         ELSE MergeTypes(it[s \ {Max(s)}], cells[Max(s)].type)
      <3>1. CASE s = {}
        BY <2>1, <3>1 DEF IsFold
      <3>2. CASE s # {}
        <4>1. it[s] = G[Max(s)][it[s \ {Max(s)}]] /\ it[s \ {Max(s)}] \in CellTypes
          BY <2>1, <3>2 DEF IsFold
        <4>2. Max(s) \in 1 .. n
          BY <3>2, MaxIsThere
        <4> QED BY <1>3, <3>2, <4>1, <4>2
      <3> QED BY <3>1, <3>2
    <2>3. it = [s \in SUBSET (1 .. n) |-> it[s]]
      BY <2>1 DEF IsFold
    <2>4. IsIter(it)
      BY <2>2, <2>3
    <2> QED BY <2>4
  <1>5. PICK f : f = iter /\ IsIter(f)
    BY <1>4
  <1> HIDE DEF iter
  <1>6. f[{}] = "null"
    BY <1>5
  <1>7. ASSUME NEW i \in 1 .. n, f[1 .. i - 1] \in CellTypes
        PROVE  f[1 .. i] = G[i][f[1 .. i - 1]]
    <2>1. i \in Nat \ {0} /\ 1 .. i \in SUBSET (1 .. n)
      OBVIOUS
    <2>2. Max(1 .. i) = i /\ (1 .. i) \ {i} = 1 .. i - 1 /\ 1 .. i # {}
      BY <2>1, MaxOfPrefix
    <2>3. f[1 .. i] = MergeTypes(f[1 .. i - 1], cells[i].type)
      BY <1>5, <2>1, <2>2
    <2> QED BY <1>3, <1>7, <2>3
  <1> HIDE DEF IsIter
  <1>8. PICK run : IsRun(run, CellTypes, "null", G, n) /\ run[n] = f[1 .. n]
    <2>1. FoldsBy(f, CellTypes, "null", G, n)
      BY <1>6, <1>7 DEF FoldsBy
    <2> QED BY SMTT(30), <1>2, <2>1, FoldRuns
  <1>9. ASSUME NEW r \in 1 .. n PROVE run[r] = MergeTypes(run[r - 1], cells[r].type)
    <2>1. run[r] = G[r][run[r - 1]] /\ run[r - 1] \in CellTypes
      <3>1. r - 1 \in 0 .. n
        OBVIOUS
      <3> QED BY <1>8, <3>1 DEF IsRun
    <2> QED BY <1>3, <2>1
  <1> QED
    BY <1>1, <1>5, <1>8, <1>9 DEF IsRun

\* The type of a column admits each of its cells.
LEMMA ColumnAdmits ==
  ASSUME NEW n \in Nat, NEW cells, DOMAIN cells = 1 .. n,
         \A r \in 1 .. n : cells[r].type \in CellTypes
  PROVE  \A r \in 1 .. n : Admits(InferColumnType(cells), cells[r])
  <1>1. PICK run : /\ run \in [0 .. n -> CellTypes] /\ InferColumnType(cells) = run[n]
                   /\ \A r \in 1 .. n : run[r] = MergeTypes(run[r - 1], cells[r].type)
    BY ColumnTypeRuns
  <1> DEFINE T == {k \in Nat : k <= n => \A r \in 1 .. k : Admits(run[k], cells[r])}
  <1>2. 0 \in T
    OBVIOUS
  <1>3. ASSUME NEW k \in Nat, k \in T PROVE k + 1 \in T
    <2> SUFFICES ASSUME k + 1 <= n, NEW r \in 1 .. k + 1 PROVE Admits(run[k + 1], cells[r])
      OBVIOUS
    <2>1. k + 1 \in 1 .. n /\ k <= n /\ (k + 1) - 1 = k /\ k \in 0 .. n /\ r \in 1 .. n
      OBVIOUS
    <2>2. run[k + 1] = MergeTypes(run[k], cells[k + 1].type) /\ run[k] \in CellTypes
      BY <1>1, <2>1
    <2>3. CASE r = k + 1
      BY <2>1, <2>2, <2>3, MergeAdmits
    <2>4. CASE r # k + 1
      <3>1. Admits(run[k], cells[r])
        BY <1>3, <2>1, <2>4
      <3> QED BY <2>1, <2>2, <3>1, MergeAdmits
    <2> QED BY <2>3, <2>4
  <1> HIDE DEF T
  <1>4. n \in T
    BY <1>2, <1>3, Induction
  <1> QED BY <1>1, <1>4 DEF T

-----------------------------------------------------------------------------
(* What a preview shows. *)

LEMMA FirstRowsAre ==
  ASSUME NEW S, NEW s \in Seq(S), NEW n \in Nat
  PROVE  /\ FirstRows(s, n) \in Seq(S)
         /\ Len(FirstRows(s, n)) = IF Len(s) < n THEN Len(s) ELSE n
         /\ \A r \in DOMAIN FirstRows(s, n) : r \in DOMAIN s /\ FirstRows(s, n)[r] = s[r]
  <1>1. PICK m \in Nat : m = (IF Len(s) < n THEN Len(s) ELSE n) /\ m <= Len(s)
    OBVIOUS
  <1>2. \A i \in 1 .. m : s[i] \in S
    BY <1>1
  <1>3. /\ SubSeq(s, 1, m) \in Seq(S) /\ Len(SubSeq(s, 1, m)) = m
        /\ \A r \in 1 .. m : SubSeq(s, 1, m)[r] = s[r]
    BY <1>1, <1>2, SubSeqProperties
  <1>4. FirstRows(s, n) = SubSeq(s, 1, m)
    BY <1>1 DEF FirstRows
  <1>5. DOMAIN SubSeq(s, 1, m) = 1 .. m /\ \A r \in 1 .. m : r \in DOMAIN s
    BY <1>1, <1>3
  <1> QED BY <1>1, <1>3, <1>4, <1>5

\* What a reader makes of a cell.
ReadBackAs(cell, format) ==
  IF format.kind = "delimited"
  THEN InferDelimitedCell(FieldText(cell, format.options), {format.options.nullValue})
  ELSE JsonValue(cell)

LEMMA ReadTypes ==
  ASSUME NEW cell \in Cells, NEW format
  PROVE  ReadBackAs(cell, format).type \in CellTypes
  <1>1. \A v, nulls : InferDelimitedCell(v, nulls).type \in CellTypes
    BY DEF InferDelimitedCell, CellTypes, CellOf, Null
  <1>2. JsonValue(cell).type \in CellTypes
    <2>1. CASE cell.type = "float" /\ ~Finite(cell)
      BY <2>1 DEF JsonValue, CellOf, CellTypes
    <2>2. CASE ~(cell.type = "float" /\ ~Finite(cell))
      BY <2>2, CellParts DEF JsonValue
    <2> QED BY <2>1, <2>2
  <1> QED BY <1>1, <1>2 DEF ReadBackAs

\* A preview that shows the first of these rows.
Shows(p, format, kept) ==
  LET shown == FirstRows(kept, MaxRows)
  IN  /\ p.rows = [r \in DOMAIN shown |->
                     [i \in DOMAIN shown[r] |-> ReadBackAs(shown[r][i], format)]]
      /\ p.totalRowsSeen = Len(kept)
      /\ p.truncated <=> Len(kept) > Len(shown)
      /\ \A i \in DOMAIN p.columns :
           \A r \in DOMAIN p.rows : Admits(p.columns[i].inferredType, p.rows[r][i])
      /\ shown # << >> /\ (format.kind = "delimited" => format.options.includeHeader) =>
           [i \in DOMAIN p.columns |-> p.columns[i].sourceName] = format.columns

ListsOf(w, headers) == headers = [i \in 1 .. w |-> headers[i]]
ReadBackRows(shown, format) ==
  [r \in DOMAIN shown |-> [i \in DOMAIN shown[r] |-> ReadBackAs(shown[r][i], format)]]

\* What is made of the headers and of rows as wide as they are.
LEMMA BuiltShows ==
  ASSUME NEW format, NEW kept \in Seq(Seq(Cells)), NEW shown \in Seq(Seq(Cells)),
         shown = FirstRows(kept, MaxRows),
         NEW w \in Nat, NEW headers, ListsOf(w, headers),
         \A r \in DOMAIN shown : Len(shown[r]) = w,
         shown # << >> /\ (format.kind = "delimited" => format.options.includeHeader)
           => headers = format.columns,
         NEW cells, cells = ReadBackRows(shown, format)
  PROVE  Shows(BuildPreview(headers, cells, Len(kept), MaxRows), format, kept)
  <1>1. PICK p : p = BuildPreview(headers, cells, Len(kept), MaxRows)
    OBVIOUS
  <1>2. PICK n \in Nat : n = Len(shown) /\ DOMAIN shown = 1 .. n
    OBVIOUS
  <1>3. /\ p.rows = cells /\ p.totalRowsSeen = Len(kept)
        /\ p.columns = [i \in DOMAIN headers |->
                   [ sourceName   |-> headers[i],
                     targetName   |-> SanitizeColumnName(headers[i], i),
                     inferredType |->
                       InferColumnType([r \in DOMAIN cells |-> cells[r][i]]) ]]
    BY <1>1 DEF BuildPreview
  <1>4. DOMAIN headers = 1 .. w /\ DOMAIN cells = 1 .. n
    BY <1>2 DEF ListsOf, ReadBackRows
  <1>5. /\ DOMAIN p.columns = 1 .. w
        /\ \A i \in 1 .. w :
             /\ p.columns[i].sourceName = headers[i]
             /\ p.columns[i].inferredType = InferColumnType([r \in 1 .. n |-> cells[r][i]])
    <2>2. ASSUME NEW i \in 1 .. w
          PROVE  [r \in DOMAIN cells |-> cells[r][i]] = [r \in 1 .. n |-> cells[r][i]]
      BY <1>4
    <2>3. ASSUME NEW i \in 1 .. w
          PROVE  /\ p.columns[i].sourceName = headers[i]
                 /\ p.columns[i].inferredType = InferColumnType([r \in 1 .. n |-> cells[r][i]])
      <3>1. p.columns[i] = [ sourceName   |-> headers[i],
                             targetName   |-> SanitizeColumnName(headers[i], i),
                             inferredType |->
                               InferColumnType([r \in DOMAIN cells |-> cells[r][i]]) ]
        BY <1>3, <1>4
      <3>2. PICK type : type = InferColumnType([r \in DOMAIN cells |-> cells[r][i]])
        OBVIOUS
      <3>3. type = InferColumnType([r \in 1 .. n |-> cells[r][i]])
        BY <2>2, <3>2
      <3>4. p.columns[i].sourceName = headers[i] /\ p.columns[i].inferredType = type
        BY <3>1, <3>2
      <3> QED BY <3>3, <3>4
    <2> QED BY <1>3, <1>4, <2>3
  <1>6. p.truncated <=> Len(kept) > Len(shown)
    <2>1. MaxRows \in Nat /\ Len(kept) \in Nat
      BY ExportAssumption
    <2>2. Len(shown) = IF Len(kept) < MaxRows THEN Len(kept) ELSE MaxRows
      BY <2>1, FirstRowsAre
    <2>3. p.truncated <=> Len(kept) > MaxRows
      BY <1>1, Zenon DEF BuildPreview
    <2>4. Len(kept) > MaxRows <=> Len(kept) > Len(shown)
      BY <2>1, <2>2
    <2> QED BY <2>3, <2>4
  <1>7. ASSUME NEW i \in 1 .. w
        PROVE  \A r \in 1 .. n : Admits(p.columns[i].inferredType, cells[r][i])
    <2>1. ASSUME NEW r \in 1 .. n PROVE cells[r][i].type \in CellTypes
      <3>1. shown[r] \in Seq(Cells) /\ Len(shown[r]) = w
        BY SMTT(30), <1>2
      <3>2. shown[r][i] \in Cells /\ i \in DOMAIN shown[r]
        BY <3>1
      <3>3. cells[r][i] = ReadBackAs(shown[r][i], format)
        BY <1>2, <3>2 DEF ReadBackRows
      <3> QED BY <3>2, <3>3, ReadTypes
    <2>2. PICK column : column = [r \in 1 .. n |-> cells[r][i]]
      OBVIOUS
    <2>3. DOMAIN column = 1 .. n /\ \A r \in 1 .. n : column[r] = cells[r][i]
      BY <2>2
    <2>4. \A r \in 1 .. n : column[r].type \in CellTypes
      BY <2>1, <2>3
    <2>5. \A r \in 1 .. n : Admits(InferColumnType(column), column[r])
      BY <2>3, <2>4, ColumnAdmits
    <2> QED BY <1>5, <2>2, <2>3, <2>5
  <1>8. [i \in DOMAIN p.columns |-> p.columns[i].sourceName] = headers
    BY <1>5 DEF ListsOf
  <1>9. \A i \in DOMAIN p.columns : \A r \in DOMAIN p.rows :
           Admits(p.columns[i].inferredType, p.rows[r][i])
    BY <1>3, <1>4, <1>5, <1>7
  <1>10. p.rows = [r \in DOMAIN shown |->
                     [i \in DOMAIN shown[r] |-> ReadBackAs(shown[r][i], format)]]
    BY <1>3 DEF ReadBackRows
  <1>11. shown # << >> /\ (format.kind = "delimited" => format.options.includeHeader) =>
           [i \in DOMAIN p.columns |-> p.columns[i].sourceName] = format.columns
    BY <1>8
  <1>12. Shows(p, format, kept)
    BY <1>3, <1>6, <1>9, <1>10, <1>11, Zenon DEF Shows
  <1> QED BY <1>1, <1>12

\* What is read of a file are records of fields.
LEMMA RecordsType ==
  ASSUME NEW out \in Seq(Tokens), NEW d, NEW q
  PROVE  ReadRecords(out, d, q) \in Seq(Seq(Seq(Tokens)))
  <1>1. PICK end \in Readers : end = ReadFrom(EmptyReader, out, d, q)
    BY EmptyReaderIs, ReadType
  <1>2. ReadRecords(out, d, q) =
          IF end.mode = "start" THEN end.records ELSE EndRecord(end).records
    BY <1>1 DEF ReadRecords, ReadFrom
  <1>3. end.records \in Seq(Seq(Seq(Tokens)))
    BY DEF Readers
  <1>4. EndRecord(end).records \in Seq(Seq(Seq(Tokens)))
    <2>1. Append(end.fields, end.field) \in Seq(Seq(Tokens))
      BY AppendProperties DEF Readers
    <2>2. Append(end.records, Append(end.fields, end.field)) \in Seq(Seq(Seq(Tokens)))
      BY <2>1, AppendProperties DEF Readers
    <2> QED BY <2>2 DEF EndRecord, EmptyReader
  <1> QED BY <1>2, <1>3, <1>4

LEMMA RecordsAreFound ==
  ASSUME NEW format, NEW out, NEW exported, ReadsBack(format, out, exported),
         Readable(format, exported)
  PROVE  ReadRecords(out, format.options.delimiter, format.options.quote)
           = Found(exported, format)
  <1>1. PICK end : end = ReadFrom(EmptyReader, out, format.options.delimiter,
                                  format.options.quote)
    OBVIOUS
  <1>2. end.mode = "start" /\ end.records = Found(exported, format)
    BY <1>1 DEF ReadsBack, Reader
  <1>3. ReadRecords(out, format.options.delimiter, format.options.quote) =
          IF end.mode = "start" THEN end.records ELSE EndRecord(end).records
    BY <1>1 DEF ReadRecords, ReadFrom
  <1> QED BY <1>2, <1>3

ReadOptions(o) == [ delimiter  |-> o.delimiter, quote |-> o.quote,
                    hasHeader  |-> o.includeHeader, nullValues |-> {o.nullValue},
                    maxRows    |-> MaxRows ]

\* Behind the header there are the rows.
LEMMA BehindHeading ==
  ASSUME NEW S, NEW x \in S, NEW m \in Seq(S)
  PROVE  /\ <<x>> \o m # << >> /\ (<<x>> \o m)[1] = x /\ Tail(<<x>> \o m) = m
         /\ Len(<<x>> \o m) = Len(m) + 1
         /\ \A r \in DOMAIN m : (<<x>> \o m)[r + 1] = m[r]
  <1>1. PICK h \in Seq(S) : h = <<x>> /\ Len(h) = 1 /\ h[1] = x
    <2>1. <<x>> \in Seq(S) /\ Len(<<x>>) = 1 /\ <<x>>[1] = x
      OBVIOUS
    <2> QED BY <2>1
  <1>2. PICK all \in Seq(S) : all = h \o m
    BY ConcatProperties
  <1>3. /\ Len(all) = Len(m) + 1
        /\ \A i \in 1 .. Len(all) : all[i] = IF i <= Len(h) THEN h[i] ELSE m[i - Len(h)]
    BY <1>1, <1>2, ConcatProperties
  <1>4. PICK n \in Nat : n = Len(m) /\ DOMAIN m = 1 .. n
    OBVIOUS
  <1>5. all[1] = x /\ all # << >>
    BY <1>1, <1>3, <1>4
  <1>6. ASSUME NEW r \in 1 .. n PROVE all[r + 1] = m[r]
    <2>1. r + 1 \in 1 .. Len(all) /\ ~(r + 1 <= 1) /\ (r + 1) - 1 = r
      BY <1>3, <1>4
    <2> QED BY <1>1, <1>3, <2>1
  <1>7. Tail(all) = m
    <2>1. /\ Tail(all) \in Seq(S) /\ Len(Tail(all)) = n
          /\ \A i \in 1 .. n : Tail(all)[i] = all[i + 1]
      <3>1. Len(all) - 1 = n
        BY <1>3, <1>4
      <3> QED BY <1>5, <3>1, HeadTailProperties
    <2>2. \A i \in 1 .. n : Tail(all)[i] = m[i]
      BY <1>6, <2>1
    <2> QED BY <1>4, <2>1, <2>2, SeqEqual
  <1> QED BY <1>1, <1>2, <1>3, <1>4, <1>5, <1>6, <1>7

\* The records of a file, its header and its rows.
RecordsAre(records, format, m) ==
  IF format.options.includeHeader
  THEN /\ records # << >> /\ records[1] = format.columns /\ Tail(records) = m
       /\ \A r \in DOMAIN m : r + 1 \in DOMAIN records /\ records[r + 1] = m[r]
  ELSE records = m

LEMMA FoundAre ==
  ASSUME NEW format, format.columns \in Seq(Seq(Tokens)),
         NEW m \in Seq(Seq(Seq(Tokens)))
  PROVE  RecordsAre(Heading(format) \o m, format, m)
  <1>1. CASE format.options.includeHeader
    <2>1. PICK columns \in Seq(Seq(Tokens)) : columns = format.columns
      OBVIOUS
    <2>2. PICK records : records = <<columns>> \o m
      OBVIOUS
    <2>3. /\ records # << >> /\ records[1] = columns /\ Tail(records) = m
          /\ Len(records) = Len(m) + 1 /\ \A r \in DOMAIN m : records[r + 1] = m[r]
      <3>1. /\ <<columns>> \o m # << >> /\ (<<columns>> \o m)[1] = columns
            /\ Tail(<<columns>> \o m) = m
            /\ Len(<<columns>> \o m) = Len(m) + 1
            /\ \A r \in DOMAIN m : (<<columns>> \o m)[r + 1] = m[r]
        BY BehindHeading
      <3> QED BY Zenon, <2>2, <3>1
    <2>4. records \in Seq(Seq(Seq(Tokens)))
      BY <2>2, OneWord, ConcatProperties
    <2>5. \A r \in DOMAIN m : r + 1 \in DOMAIN records
      BY SMTT(30), <2>3, <2>4
    <2>6. Heading(format) \o m = records
      BY <1>1, <2>1, <2>2 DEF Heading
    <2> QED BY <1>1, <2>1, <2>3, <2>5, <2>6 DEF RecordsAre
  <1>2. CASE ~format.options.includeHeader
    <2>1. Heading(format) = << >>
      BY <1>2 DEF Heading
    <2>2. << >> \o m = m
      BY ConcatEmptySeq
    <2> QED BY <1>2, <2>1, <2>2 DEF RecordsAre
  <1> QED BY <1>1, <1>2

\* A reader finds the rows that are not blank lines.
LEMMA DelimitedShows ==
  ASSUME NEW format, KnownFormat(format), format.kind = "delimited", NEW out,
         NEW exported \in Seq(Seq(Cells)), ReadsBack(format, out, exported),
         Readable(format, exported),
         NEW p, p = PreviewDelimited(out, ReadOptions(format.options)), p # Absent
  PROVE  Shows(p, format, KeptRows(exported, format))
  <1>1. PICK o : o = format.options
    OBVIOUS
  <1>2. /\ IsReadable(o) /\ format.columns \in Seq(Seq(Tokens)) /\ out \in Seq(Tokens)
        /\ MaxRows \in Nat
    BY <1>1, ExportAssumption DEF ReadsBack, KnownFormat
  <1>3. PICK kept \in Seq(Seq(Cells)) : kept = KeptRows(exported, format)
    BY KeptIs
  <1>4. PICK m \in Seq(Seq(Seq(Tokens))) : m = Mapped(TextsOf(o), kept)
    BY <1>1, <1>2, <1>3, FoundType
  <1>5. /\ DOMAIN m = DOMAIN kept /\ Len(m) = Len(kept)
        /\ \A r \in DOMAIN kept : m[r] = FieldTexts(kept[r], o)
    <2>1. Len(m) = Len(kept)
      <3>2. DOMAIN m = DOMAIN kept
        BY <1>4 DEF Mapped
      <3>3. DOMAIN m = 1 .. Len(m) /\ DOMAIN kept = 1 .. Len(kept)
        OBVIOUS
      <3>4. \A a, b \in Nat : 1 .. a = 1 .. b => a = b
        OBVIOUS
      <3>5. Len(m) \in Nat /\ Len(kept) \in Nat
        OBVIOUS
      <3> QED BY <3>2, <3>3, <3>4, <3>5
    <2>2. \A r \in DOMAIN kept : kept[r] \in Seq(Cells)
      OBVIOUS
    <2> QED BY <1>4, <2>1, <2>2 DEF Mapped, TextsOf
  <1>6. PICK records \in Seq(Seq(Seq(Tokens))) : records = ReadRecords(out, o.delimiter, o.quote)
    BY <1>2, RecordsType
  <1>7. RecordsAre(records, format, m)
    <2>1. records = Found(exported, format)
      BY <1>1, <1>6, RecordsAreFound
    <2>2. records = Heading(format) \o m
      BY <1>1, <1>3, <1>4, <2>1 DEF Found
    <2> QED BY <1>2, <2>2, FoundAre
  <1>8. PICK w \in Nat : w = IF records = << >> THEN 0 ELSE Len(records[1])
    <2>1. records # << >> => Len(records[1]) \in Nat
      OBVIOUS
    <2> QED BY <2>1
  <1>9. PICK headers : headers = IF o.includeHeader THEN records[1]
                                 ELSE [i \in 1 .. w |-> <<"column", "_", ToString(i)>>]
    OBVIOUS
  <1>10. PICK all : all = [r \in DOMAIN m |->
                      [i \in 1 .. w |-> InferDelimitedCell(m[r][i], {o.nullValue})]]
    OBVIOUS
  <1>11. /\ SameLength(records)
         /\ p = BuildPreview(headers, FirstRows(all, MaxRows), Len(m), MaxRows)
    <2>1. (IF o.includeHeader /\ records # << >> THEN Tail(records) ELSE records) = m
      BY <1>1, <1>7 DEF RecordsAre
    <2>2. o.includeHeader => records # << >>
      BY <1>1, <1>7 DEF RecordsAre
    <2>3. PICK opts : opts = ReadOptions(o)
      OBVIOUS
    <2>4. /\ opts.delimiter = o.delimiter /\ opts.quote = o.quote
          /\ opts.hasHeader = o.includeHeader /\ opts.nullValues = {o.nullValue}
          /\ opts.maxRows = MaxRows
      BY <2>3 DEF ReadOptions
    <2>5. p = PreviewDelimited(out, opts)
      BY <1>1, <2>3
    <2>6. p = IF ~SameLength(records) THEN Absent
              ELSE BuildPreview(headers, FirstRows(all, MaxRows), Len(m), MaxRows)
      BY <1>6, <1>8, <1>9, <1>10, <2>1, <2>2, <2>4, <2>5 DEF PreviewDelimited
    <2> QED BY <2>6
  <1>12. \A r \in DOMAIN kept : Len(kept[r]) = w
    <2>1. ASSUME NEW r \in DOMAIN kept PROVE Len(kept[r]) = w
      <3>1. kept[r] \in Seq(Cells) /\ m[r] \in Seq(Seq(Tokens))
        BY <1>5
      <3>2. Len(m[r]) = Len(kept[r])
        BY <1>5, <3>1 DEF FieldTexts
      <3>3. Len(m[r]) = w
        <4>1. PICK k \in DOMAIN records : records[k] = m[r]
          <5>1. CASE o.includeHeader
            BY <1>1, <1>5, <1>7, <5>1 DEF RecordsAre
          <5>2. CASE ~o.includeHeader
            BY <1>1, <1>5, <1>7, <5>2 DEF RecordsAre
          <5> QED BY <5>1, <5>2
        <4>2. records # << >>
          BY <4>1
        <4> QED BY <1>8, <1>11, <4>1, <4>2 DEF SameLength
      <3> QED BY <3>2, <3>3
    <2> QED BY <2>1
  <1>13. PICK shown \in Seq(Seq(Cells)) : shown = FirstRows(kept, MaxRows)
    BY <1>2, FirstRowsAre
  <1>14. \A r \in DOMAIN shown : r \in DOMAIN kept /\ shown[r] = kept[r] /\ Len(shown[r]) = w
    BY <1>2, <1>12, <1>13, FirstRowsAre
  <1>15. FirstRows(all, MaxRows) = ReadBackRows(shown, format)
    <2>1. PICK k \in Nat : k = Len(kept) /\ DOMAIN kept = 1 .. k
      OBVIOUS
    <2>2. all \in Seq({all[r] : r \in 1 .. k}) /\ Len(all) = k
      BY <1>5, <1>10, <2>1
    <2>3. PICK S : all \in Seq(S)
      BY <2>2
    <2>4. PICK cells \in Seq(S) : cells = FirstRows(all, MaxRows)
      BY <1>2, <2>3, FirstRowsAre
    <2>5. /\ Len(cells) = Len(shown) /\ \A r \in DOMAIN cells : r \in 1 .. k /\ cells[r] = all[r]
      <3>1. Len(cells) = IF k < MaxRows THEN k ELSE MaxRows
        BY <1>2, <2>2, <2>3, <2>4, FirstRowsAre
      <3>2. Len(shown) = IF k < MaxRows THEN k ELSE MaxRows
        BY <1>2, <1>13, <2>1, FirstRowsAre
      <3>3. DOMAIN all = 1 .. k
        BY <2>2, <2>3
      <3> QED BY <1>2, <2>3, <2>4, <3>1, <3>2, <3>3, FirstRowsAre
    <2>6. DOMAIN cells = DOMAIN shown
      BY <2>5
    <2>7. ASSUME NEW r \in DOMAIN shown
          PROVE  cells[r] = [i \in DOMAIN shown[r] |-> ReadBackAs(shown[r][i], format)]
      <3>1. /\ cells[r] = [i \in 1 .. w |-> InferDelimitedCell(m[r][i], {o.nullValue})]
            /\ m[r] = FieldTexts(shown[r], o) /\ shown[r] \in Seq(Cells)
        <4>1. r \in DOMAIN kept /\ shown[r] = kept[r] /\ r \in DOMAIN cells
          BY <1>14, <2>6
        <4>2. cells[r] = all[r]
          BY <2>5, <4>1
        <4>3. all[r] = [i \in 1 .. w |-> InferDelimitedCell(m[r][i], {o.nullValue})]
          BY <1>5, <1>10, <4>1
        <4>4. m[r] = FieldTexts(shown[r], o)
          BY <1>5, <4>1
        <4>5. shown[r] \in Seq(Cells)
          OBVIOUS
        <4> QED BY <4>2, <4>3, <4>4, <4>5
      <3>2. DOMAIN shown[r] = 1 .. w
        BY <1>14, <3>1
      <3>3. ASSUME NEW i \in 1 .. w
            PROVE  InferDelimitedCell(m[r][i], {o.nullValue}) = ReadBackAs(shown[r][i], format)
        <4>1. m[r][i] = FieldText(shown[r][i], o)
          BY <3>1, <3>2 DEF FieldTexts
        <4> QED BY <1>1, <4>1 DEF ReadBackAs
      <3> QED BY <3>1, <3>2, <3>3
    <2>8. cells = [r \in DOMAIN cells |-> cells[r]]
      OBVIOUS
    <2> QED BY <2>4, <2>6, <2>7, <2>8 DEF ReadBackRows
  <1>16. PICK v \in Nat : ListsOf(v, headers) /\ \A r \in DOMAIN shown : Len(shown[r]) = v
    <2>1. CASE o.includeHeader
      <3>1. headers \in Seq(Seq(Tokens)) /\ w = Len(headers)
        BY <1>1, <1>2, <1>7, <1>8, <1>9, <2>1 DEF RecordsAre
      <3>2. ListsOf(w, headers)
        BY <3>1 DEF ListsOf
      <3> QED BY <1>14, <3>2
    <2>2. CASE ~o.includeHeader
      <3>1. ListsOf(w, headers)
        BY <1>9, <2>2 DEF ListsOf
      <3> QED BY <1>14, <3>1
    <2> QED BY <2>1, <2>2
  <1>17. shown # << >> /\ (format.kind = "delimited" => format.options.includeHeader)
           => headers = format.columns
    BY <1>1, <1>7, <1>9 DEF RecordsAre
  <1>18. p = BuildPreview(headers, ReadBackRows(shown, format), Len(kept), MaxRows)
    BY <1>5, <1>11, <1>15
  <1>19. Shows(BuildPreview(headers, ReadBackRows(shown, format), Len(kept), MaxRows),
               format, kept)
    BY <1>13, <1>16, <1>17, BuiltShows
  <1> QED BY <1>3, <1>18, <1>19

-----------------------------------------------------------------------------
(* Objects of JSON. *)

Values == Cells \cup {CellOf("int", <<"0">>)}
Pairs  == [name : Seq(Tokens), value : Values]

\* Columns that differ, and as many cells.
FitsColumns(row, columns) ==
  /\ columns \in Seq(Seq(Tokens)) /\ row \in Seq(Cells) /\ Len(row) = Len(columns)
  /\ \A i, j \in DOMAIN columns : columns[i] = columns[j] => i = j

LEMMA ValueType ==
  ASSUME NEW cell \in Cells
  PROVE  JsonValue(cell) \in Values
  BY DEF JsonValue, Values

LEMMA ObjectType ==
  ASSUME NEW format, NEW row, FitsColumns(row, format.columns)
  PROVE  /\ ObjectOf(format, row) \in Seq(Pairs)
         /\ Len(ObjectOf(format, row)) = Len(row)
         /\ \A i \in 1 .. Len(row) :
              /\ ObjectOf(format, row)[i].name = format.columns[i]
              /\ ObjectOf(format, row)[i].value = JsonValue(row[i])
  <1>1. PICK n \in Nat : n = Len(row) /\ DOMAIN row = 1 .. n
    BY DEF FitsColumns
  <1>2. PICK columns \in Seq(Seq(Tokens)) : columns = format.columns /\ Len(columns) = n
    BY <1>1 DEF FitsColumns
  <1>3. PICK o : o = ObjectOf(format, row)
    OBVIOUS
  <1>4. ASSUME NEW i \in 1 .. n
        PROVE  /\ [name |-> columns[i], value |-> JsonValue(row[i])] \in Pairs
               /\ o[i] = [name |-> columns[i], value |-> JsonValue(row[i])]
    <2>1. row[i] \in Cells /\ columns[i] \in Seq(Tokens)
      BY <1>1, <1>2 DEF FitsColumns
    <2>2. JsonValue(row[i]) \in Values
      BY <2>1, ValueType
    <2> QED BY <1>1, <1>2, <1>3, <2>1, <2>2 DEF ObjectOf, Pairs
  <1>5. o \in [1 .. n -> Pairs]
    BY <1>1, <1>2, <1>3, <1>4 DEF ObjectOf
  <1>6. o \in Seq(Pairs) /\ Len(o) = n
    BY <1>5, MapType
  <1>7. \A i \in 1 .. n : o[i].name = columns[i] /\ o[i].value = JsonValue(row[i])
    <2>1. ASSUME NEW i \in 1 .. n
          PROVE  o[i].name = columns[i] /\ o[i].value = JsonValue(row[i])
      <3>1. PICK v : v = JsonValue(row[i])
        OBVIOUS
      <3>2. o[i] = [name |-> columns[i], value |-> v]
        BY <1>4, <3>1
      <3> QED BY <3>1, <3>2
    <2> QED BY <2>1
  <1> QED BY <1>1, <1>2, <1>3, <1>6, <1>7

LEMMA InsertType ==
  ASSUME NEW object \in Seq(Pairs), NEW name \in Seq(Tokens), NEW value \in Values
  PROVE  InsertKey(object, name, value) \in Seq(Pairs)
  <1>1. PICK pair \in Pairs : pair = [name |-> name, value |-> value]
    BY DEF Pairs
  <1>2. Append(object, pair) \in Seq(Pairs)
    BY AppendProperties
  <1>3. PICK at : at = {i \in DOMAIN object : object[i].name = name}
    OBVIOUS
  <1>4. [i \in DOMAIN object |-> IF i \in at THEN pair ELSE object[i]] \in Seq(Pairs)
    OBVIOUS
  <1> QED BY <1>1, <1>2, <1>3, <1>4 DEF InsertKey

IsMade(run, e, row, n) ==
  /\ run \in [0 .. n -> Seq(Pairs)] /\ run[0] = << >>
  /\ RowObject(e, row) = Object(run[n])
  /\ \A i \in 1 .. n : run[i] = InsertKey(run[i - 1], e.format.columns[i],
                                         JsonValue(row[i]))

\* An object is its pairs one by one.
LEMMA ObjectRuns ==
  ASSUME NEW e, NEW row, FitsColumns(row, e.format.columns),
         NEW n \in Nat, DOMAIN row = 1 .. n
  PROVE  \E run : IsMade(run, e, row, n)
  <1> DEFINE ids == [i \in DOMAIN row |-> i]
             IsIter(it) ==
        it = [s \in SUBSET (DOMAIN ids) |->
                IF s = {} THEN << >>
                ELSE InsertKey(it[s \ {Max(s)}], ColumnName(e, ids[Max(s)]),
                               JsonValue(row[ids[Max(s)]]))]
      iter == CHOOSE it : IsIter(it)
  <1>1. RowObject(e, row) = Object(iter[DOMAIN ids])
    BY DEF RowObject, FoldLeft, MapThenFoldSet
  <1>2. DOMAIN row = 1 .. n /\ DOMAIN ids = 1 .. n /\ \A i \in 1 .. n : ids[i] = i
    BY DEF FitsColumns
  <1>3. ASSUME NEW i \in 1 .. n
        PROVE  /\ ColumnName(e, ids[i]) = e.format.columns[i]
               /\ e.format.columns[i] \in Seq(Tokens) /\ JsonValue(row[i]) \in Values
    <2>0. n = Len(row)
      BY DEF FitsColumns
    <2>1. i <= Len(e.format.columns) /\ e.format.columns[i] \in Seq(Tokens) /\ row[i] \in Cells
      BY <2>0 DEF FitsColumns
    <2> QED BY <1>2, <2>1, ValueType DEF ColumnName
  <1> HIDE DEF ids
  <1> DEFINE G == [i \in 1 .. n |-> [object \in Seq(Pairs) |->
                     InsertKey(object, e.format.columns[i], JsonValue(row[i]))]]
  <1>4. G \in [1 .. n -> [Seq(Pairs) -> Seq(Pairs)]]
    BY <1>3, InsertType
  <1>5. \A i \in 1 .. n : \A object \in Seq(Pairs) :
           G[i][object] = InsertKey(object, e.format.columns[i], JsonValue(row[i]))
    OBVIOUS
  <1>6. << >> \in Seq(Pairs)
    OBVIOUS
  <1> HIDE DEF G
  <1>7. \E it : IsIter(it)
    <2>1. PICK it : IsFold(it, Seq(Pairs), << >>, G, n)
      BY <1>4, <1>6, FoldIsDefined
    <2>2. ASSUME NEW s \in SUBSET (1 .. n)
          PROVE  it[s] = IF s = {} THEN << >>
                         ELSE InsertKey(it[s \ {Max(s)}], ColumnName(e, ids[Max(s)]),
                                        JsonValue(row[ids[Max(s)]]))
      <3>1. CASE s = {}
        BY <2>1, <3>1 DEF IsFold
      <3>2. CASE s # {}
        <4>1. it[s] = G[Max(s)][it[s \ {Max(s)}]] /\ it[s \ {Max(s)}] \in Seq(Pairs)
          BY <2>1, <3>2 DEF IsFold
        <4>2. PICK i \in 1 .. n : i = Max(s)
          BY <3>2, MaxIsThere
        <4>3. ids[i] = i /\ ColumnName(e, ids[i]) = e.format.columns[i]
          BY <1>2, <1>3
        <4>4. it[s] = InsertKey(it[s \ {Max(s)}], e.format.columns[i], JsonValue(row[i]))
          BY <1>5, <4>1, <4>2
        <4> QED BY <3>2, <4>2, <4>3, <4>4
      <3> QED BY <3>1, <3>2
    <2>3. it = [s \in SUBSET (1 .. n) |-> it[s]]
      BY <2>1 DEF IsFold
    <2>4. IsIter(it)
      BY <1>2, <2>2, <2>3
    <2> QED BY <2>4
  <1>8. PICK f : f = iter /\ IsIter(f)
    BY <1>7
  <1> HIDE DEF iter
  <1>9. f[{}] = << >>
    BY <1>8
  <1>10. ASSUME NEW i \in 1 .. n, f[1 .. i - 1] \in Seq(Pairs)
         PROVE  f[1 .. i] = G[i][f[1 .. i - 1]]
    <2>1. i \in Nat \ {0} /\ 1 .. i \in SUBSET (1 .. n)
      OBVIOUS
    <2>2. Max(1 .. i) = i /\ (1 .. i) \ {i} = 1 .. i - 1 /\ 1 .. i # {}
      BY <2>1, MaxOfPrefix
    <2>3. f[1 .. i] = InsertKey(f[1 .. i - 1], ColumnName(e, ids[i]), JsonValue(row[ids[i]]))
      <3>1. f[1 .. i] = IF 1 .. i = {} THEN << >>
                        ELSE InsertKey(f[(1 .. i) \ {Max(1 .. i)}],
                                       ColumnName(e, ids[Max(1 .. i)]),
                                       JsonValue(row[ids[Max(1 .. i)]]))
        BY <1>2, <1>8, <2>1
      <3> QED BY <2>2, <3>1
    <2>4. ids[i] = i /\ ColumnName(e, ids[i]) = e.format.columns[i]
      BY <1>2, <1>3
    <2> QED BY <1>5, <1>10, <2>3, <2>4
  <1> HIDE DEF IsIter
  <1>11. PICK run : IsRun(run, Seq(Pairs), << >>, G, n) /\ run[n] = f[1 .. n]
    <2>1. PICK X, none : X = Seq(Pairs) /\ none = << >>
      OBVIOUS
    <2>2. G \in [1 .. n -> [X -> X]] /\ none \in X /\ f[{}] = none
      BY <1>4, <1>6, <1>9, <2>1
    <2>3. FoldsBy(f, X, none, G, n)
      BY <1>10, <2>1, <2>2 DEF FoldsBy
    <2>4. \E run : IsRun(run, X, none, G, n) /\ run[n] = f[1 .. n]
      BY <2>2, <2>3, FoldRuns
    <2> QED BY <2>1, <2>4
  <1>12. ASSUME NEW i \in 1 .. n
         PROVE  run[i] = InsertKey(run[i - 1], e.format.columns[i], JsonValue(row[i]))
    <2>1. run[i] = G[i][run[i - 1]] /\ run[i - 1] \in Seq(Pairs)
      <3>1. i - 1 \in 0 .. n
        OBVIOUS
      <3> QED BY <1>11, <3>1 DEF IsRun
    <2> QED BY <1>5, <2>1
  <1> QED
    <2>1. RowObject(e, row) = Object(run[n])
      BY <1>1, <1>2, <1>8, <1>11
    <2>2. run \in [0 .. n -> Seq(Pairs)] /\ run[0] = << >>
      BY <1>11 DEF IsRun
    <2> QED BY <1>12, <2>1, <2>2 DEF IsMade

LEMMA ColumnsFit ==
  ASSUME NEW row, NEW columns, FitsColumns(row, columns), NEW n \in Nat, n = Len(row)
  PROVE  /\ columns \in Seq(Seq(Tokens)) /\ Len(columns) = n
         /\ \A i, j \in 1 .. n : columns[i] = columns[j] => i = j
  <1>1. columns \in Seq(Seq(Tokens)) /\ Len(columns) = n
    BY DEF FitsColumns
  <1>2. DOMAIN columns = 1 .. n
    BY <1>1
  <1> QED BY <1>1, <1>2 DEF FitsColumns

\* The object of a row has each of its cells under its column.
LEMMA RowObjectIs ==
  ASSUME NEW e, NEW row, FitsColumns(row, e.format.columns)
  PROVE  RowObject(e, row) = Object(ObjectOf(e.format, row))
  <1>1. PICK n \in Nat : n = Len(row) /\ DOMAIN row = 1 .. n
    BY DEF FitsColumns
  <1>2. PICK columns \in Seq(Seq(Tokens)) :
          /\ columns = e.format.columns /\ Len(columns) = n
          /\ \A i, j \in 1 .. n : columns[i] = columns[j] => i = j
    BY <1>1, ColumnsFit
  <1>3. PICK o \in Seq(Pairs) : o = ObjectOf(e.format, row)
    BY ObjectType
  <1>4. Len(o) = n /\ \A i \in 1 .. n : o[i].name = columns[i]
    BY <1>1, <1>2, <1>3, ObjectType
  <1>5. PICK run : IsMade(run, e, row, n)
    BY <1>1, ObjectRuns
  <1> DEFINE T == {k \in Nat : k <= n => run[k] = SubSeq(o, 1, k)}
  <1>6. 0 \in T
    BY <1>5, WholePrefix DEF IsMade
  <1>7. ASSUME NEW k \in Nat, k \in T PROVE k + 1 \in T
    <2> SUFFICES ASSUME k + 1 <= n PROVE run[k + 1] = SubSeq(o, 1, k + 1)
      OBVIOUS
    <2>1. k + 1 \in 1 .. n /\ (k + 1) - 1 = k /\ k < Len(o) /\ k <= n
      BY <1>4
    <2>2. PICK s \in Seq(Pairs) : s = SubSeq(o, 1, k)
      BY <2>1, PrefixGrows
    <2>3. Len(s) = k /\ \A i \in 1 .. k : s[i] = o[i]
      <3>1. \A i \in 1 .. k : o[i] \in Pairs
        BY <2>1
      <3> QED BY <2>1, <2>2, <3>1, SubSeqProperties
    <2>4. run[k + 1] = InsertKey(s, columns[k + 1], JsonValue(row[k + 1]))
      BY <1>2, <1>5, <1>7, <2>1, <2>2 DEF IsMade
    <2>5. {i \in DOMAIN s : s[i].name = columns[k + 1]} = {}
      <3>1. ASSUME NEW i \in DOMAIN s, s[i].name = columns[k + 1] PROVE FALSE
        <4>1. i \in 1 .. k /\ i \in 1 .. n /\ i # k + 1
          BY <2>1, <2>3
        <4>2. columns[i] = columns[k + 1]
          BY <1>4, <2>3, <3>1, <4>1
        <4> QED BY <1>2, <2>1, <4>1, <4>2
      <3> QED BY <3>1
    <2>6. o[k + 1] = [name |-> columns[k + 1], value |-> JsonValue(row[k + 1])]
      BY <1>1, <1>2, <1>3, <2>1 DEF ObjectOf
    <2>7. run[k + 1] = Append(s, o[k + 1])
      BY <2>4, <2>5, <2>6 DEF InsertKey
    <2>8. SubSeq(o, 1, k + 1) = Append(s, o[k + 1])
      BY <2>1, <2>2, PrefixGrows
    <2> QED BY <2>7, <2>8
  <1> HIDE DEF T
  <1>8. n \in T
    BY <1>6, <1>7, Induction
  <1>9. run[n] = o
    BY <1>4, <1>8, WholePrefix DEF T
  <1> QED BY <1>3, <1>5, <1>9 DEF IsMade

\* The value under a column is that of the cell.
LEMMA ValueIsThere ==
  ASSUME NEW format, NEW row, FitsColumns(row, format.columns),
         NEW i \in DOMAIN row
  PROVE  ValueOf(ObjectOf(format, row), format.columns[i]) = JsonValue(row[i])
  <1>1. PICK n \in Nat : n = Len(row) /\ DOMAIN row = 1 .. n
    BY DEF FitsColumns
  <1>2. PICK columns \in Seq(Seq(Tokens)) :
          /\ columns = format.columns /\ Len(columns) = n
          /\ \A k, j \in 1 .. n : columns[k] = columns[j] => k = j
    BY <1>1, ColumnsFit
  <1>3. PICK o \in Seq(Pairs) : o = ObjectOf(format, row)
    BY ObjectType
  <1>4. /\ Len(o) = n /\ DOMAIN o = 1 .. n
        /\ \A k \in 1 .. n : o[k].name = columns[k] /\ o[k].value = JsonValue(row[k])
    BY <1>1, <1>2, <1>3, ObjectType
  <1>5. {k \in DOMAIN o : o[k].name = columns[i]} = {i}
    BY <1>1, <1>2, <1>4
  <1>6. Min({i}) = i
    <2>1. i \in Nat
      BY <1>1
    <2> QED BY <2>1 DEF Min
  <1>7. ValueOf(o, columns[i]) = o[i].value
    BY <1>5, <1>6 DEF ValueOf
  <1> QED BY <1>1, <1>2, <1>3, <1>4, <1>7


LEMMA NewKeysAre ==
  ASSUME NEW headers \in Seq(Seq(Tokens)), NEW object \in Seq(Pairs)
  PROVE  /\ NewKeys(headers, object) \in Seq(Seq(Tokens))
         /\ \A columns \in Seq(Seq(Tokens)) :
              Len(object) = Len(columns) /\ (\A i \in DOMAIN object : object[i].name = columns[i])
                => /\ headers = << >> => NewKeys(headers, object) = columns
                   /\ headers = columns => NewKeys(headers, object) = columns
  <1>1. PICK n \in Nat : n = Len(object) /\ DOMAIN object = 1 .. n
    OBVIOUS
  <1>2. PICK parts : parts = [i \in 1 .. n |-> IF Contains(headers, object[i].name)
                                               THEN << >> ELSE <<object[i].name>>]
    OBVIOUS
  <1>3. parts \in Seq(Seq(Seq(Tokens))) /\ Len(parts) = n
    <2>1. ASSUME NEW i \in 1 .. n PROVE parts[i] \in Seq(Seq(Tokens))
      <3>1. object[i].name \in Seq(Tokens)
        <4>1. object[i] \in Pairs
          BY <1>1
        <4> QED BY <4>1 DEF Pairs
      <3>2. <<object[i].name>> \in Seq(Seq(Tokens)) /\ << >> \in Seq(Seq(Tokens))
        BY <3>1, OneWord
      <3> QED BY <1>2, <3>2
    <2>2. parts \in [1 .. n -> Seq(Seq(Tokens))]
      BY <1>2, <2>1
    <2> QED BY <2>2, MapType
  <1>4. NewKeys(headers, object) = headers \o FlattenSeq(parts)
    BY <1>1, <1>2 DEF NewKeys
  <1>5. FlattenSeq(parts) \in Seq(Seq(Tokens))
    BY <1>3, FlattenType
  <1>6. NewKeys(headers, object) \in Seq(Seq(Tokens))
    BY <1>4, <1>5, ConcatProperties
  <1>7. ASSUME NEW columns \in Seq(Seq(Tokens)), Len(object) = Len(columns),
               \A i \in DOMAIN object : object[i].name = columns[i]
        PROVE  /\ headers = << >> => NewKeys(headers, object) = columns
               /\ headers = columns => NewKeys(headers, object) = columns
    <2>1. CASE headers = << >>
      <3>1. \A i \in 1 .. n : parts[i] = <<columns[i]>>
        <4>1. ASSUME NEW i \in 1 .. n PROVE parts[i] = <<columns[i]>>
          <5>1. ~Contains(headers, object[i].name)
            <6>1. 1 .. Len(headers) = {}
              BY <2>1
            <6> QED BY <6>1 DEF Contains
          <5> QED BY <1>1, <1>2, <1>7, <5>1
        <4> QED BY <4>1
      <3>2. FlattenSeq(parts) = columns
        BY ZenonT(30), <1>1, <1>3, <1>7, <3>1, FlattenSingletons
      <3>3. << >> \o columns = columns
        BY ConcatEmptySeq
      <3>4. NewKeys(headers, object) = columns
        BY <1>4, <2>1, <3>2, <3>3
      <3> QED BY <3>4
    <2>2. CASE headers = columns
      <3>1. \A i \in 1 .. n : parts[i] = << >>
        BY <1>1, <1>2, <1>7, <2>2 DEF Contains
      <3>2. FlattenSeq(parts) = << >>
        BY <1>3, <3>1, FlattenEmpty
      <3>3. columns \o << >> = columns
        BY ConcatEmptySeq
      <3>4. NewKeys(headers, object) = columns
        BY <1>4, <2>2, <3>2, <3>3
      <3> QED BY <3>4
    <2> QED BY <2>1, <2>2
  <1> QED BY <1>6, <1>7

HeadersOf(objects) == FoldLeft(NewKeys, << >>, objects)

LEMMA HeadersRun ==
  ASSUME NEW objects \in Seq(Seq(Pairs)), NEW n \in Nat, DOMAIN objects = 1 .. n
  PROVE  \E run : /\ run \in [0 .. n -> Seq(Seq(Tokens))] /\ run[0] = << >>
                  /\ HeadersOf(objects) = run[n]
                  /\ \A i \in 1 .. n : run[i] = NewKeys(run[i - 1], objects[i])
  <1> DEFINE IsIter(it) ==
        it = [s \in SUBSET (DOMAIN objects) |->
                IF s = {} THEN << >> ELSE NewKeys(it[s \ {Max(s)}], objects[Max(s)])]
      iter == CHOOSE it : IsIter(it)
  <1>1. HeadersOf(objects) = iter[DOMAIN objects]
    BY DEF HeadersOf, FoldLeft, MapThenFoldSet
  <1>2. PICK X : X = Seq(Seq(Tokens))
    OBVIOUS
  <1>0. PICK none \in X : none = << >>
    <2>1. << >> \in Seq(Seq(Tokens))
      OBVIOUS
    <2> QED BY <1>2, <2>1
  <1>3. ASSUME NEW i \in 1 .. n, NEW headers \in X PROVE NewKeys(headers, objects[i]) \in X
    <2>1. objects[i] \in Seq(Pairs)
      OBVIOUS
    <2> QED BY <1>2, <2>1, NewKeysAre
  <1> DEFINE G == [i \in 1 .. n |-> [headers \in X |-> NewKeys(headers, objects[i])]]
  <1>4. G \in [1 .. n -> [X -> X]]
    BY <1>3
  <1>5. \A i \in 1 .. n : \A headers \in X : G[i][headers] = NewKeys(headers, objects[i])
    OBVIOUS
  <1> HIDE DEF G
  <1>6. \E it : IsIter(it)
    <2>1. PICK it : IsFold(it, X, none, G, n)
      BY <1>4, FoldIsDefined
    <2>2. ASSUME NEW s \in SUBSET (1 .. n)
          PROVE  it[s] = IF s = {} THEN << >> ELSE NewKeys(it[s \ {Max(s)}], objects[Max(s)])
      <3>1. CASE s = {}
        BY <1>0, <2>1, <3>1 DEF IsFold
      <3>2. CASE s # {}
        <4>1. it[s] = G[Max(s)][it[s \ {Max(s)}]] /\ it[s \ {Max(s)}] \in X
          BY <2>1, <3>2 DEF IsFold
        <4>2. PICK i \in 1 .. n : i = Max(s)
          BY <3>2, MaxIsThere
        <4>3. it[s] = NewKeys(it[s \ {Max(s)}], objects[i])
          BY <1>5, <4>1, <4>2
        <4> QED BY <3>2, <4>2, <4>3
      <3> QED BY <3>1, <3>2
    <2>3. it = [s \in SUBSET (1 .. n) |-> it[s]]
      BY <2>1 DEF IsFold
    <2>4. IsIter(it)
      BY <2>2, <2>3
    <2> QED BY <2>4
  <1>7. PICK f : f = iter /\ IsIter(f)
    BY <1>6
  <1> HIDE DEF iter
  <1>8. f[{}] = none
    BY <1>0, <1>7
  <1>9. ASSUME NEW i \in 1 .. n, f[1 .. i - 1] \in X
        PROVE  f[1 .. i] = G[i][f[1 .. i - 1]]
    <2>1. i \in Nat \ {0} /\ 1 .. i \in SUBSET (1 .. n)
      OBVIOUS
    <2>2. Max(1 .. i) = i /\ (1 .. i) \ {i} = 1 .. i - 1 /\ 1 .. i # {}
      BY <2>1, MaxOfPrefix
    <2>3. f[1 .. i] = IF 1 .. i = {} THEN << >>
                      ELSE NewKeys(f[(1 .. i) \ {Max(1 .. i)}], objects[Max(1 .. i)])
      BY <1>7, <2>1
    <2>4. f[1 .. i] = NewKeys(f[1 .. i - 1], objects[i])
      BY <2>2, <2>3
    <2> QED BY <1>5, <1>9, <2>4
  <1> HIDE DEF IsIter
  <1>10. PICK run : IsRun(run, X, none, G, n) /\ run[n] = f[1 .. n]
    <2>1. FoldsBy(f, X, none, G, n)
      BY <1>8, <1>9 DEF FoldsBy
    <2> QED BY <1>4, <2>1, FoldRuns
  <1>11. ASSUME NEW i \in 1 .. n PROVE run[i] = NewKeys(run[i - 1], objects[i])
    <2>1. run[i] = G[i][run[i - 1]] /\ run[i - 1] \in X
      <3>1. i - 1 \in 0 .. n
        OBVIOUS
      <3> QED BY <1>10, <3>1 DEF IsRun
    <2> QED BY <1>5, <2>1
  <1>12. run \in [0 .. n -> Seq(Seq(Tokens))] /\ run[0] = << >>
    BY <1>0, <1>2, <1>10 DEF IsRun
  <1>13. HeadersOf(objects) = run[n]
    BY <1>1, <1>7, <1>10
  <1> QED BY <1>11, <1>12, <1>13

\* The headers are the columns, if there is a row.
LEMMA HeadersAre ==
  ASSUME NEW columns \in Seq(Seq(Tokens)), NEW objects \in Seq(Seq(Pairs)),
         \A r \in DOMAIN objects :
           /\ Len(objects[r]) = Len(columns)
           /\ \A i \in DOMAIN objects[r] : objects[r][i].name = columns[i]
  PROVE  HeadersOf(objects) = IF objects = << >> THEN << >> ELSE columns
  <1>1. PICK n \in Nat : n = Len(objects) /\ DOMAIN objects = 1 .. n
    OBVIOUS
  <1>2. PICK run : /\ run \in [0 .. n -> Seq(Seq(Tokens))] /\ run[0] = << >>
                   /\ HeadersOf(objects) = run[n]
                   /\ \A i \in 1 .. n : run[i] = NewKeys(run[i - 1], objects[i])
    BY <1>1, HeadersRun
  <1> DEFINE T == {k \in Nat : k <= n => run[k] = IF k = 0 THEN << >> ELSE columns}
  <1>3. 0 \in T
    BY <1>2
  <1>4. ASSUME NEW k \in Nat, k \in T PROVE k + 1 \in T
    <2> SUFFICES ASSUME k + 1 <= n PROVE run[k + 1] = columns
      OBVIOUS
    <2>1. k + 1 \in 1 .. n /\ (k + 1) - 1 = k /\ k <= n /\ k \in 0 .. n
      OBVIOUS
    <2>2. PICK headers \in Seq(Seq(Tokens)) : headers = run[k]
      BY <1>2, <2>1
    <2>3. headers = << >> \/ headers = columns
      BY <1>4, <2>1, <2>2
    <2>4. PICK object \in Seq(Pairs) : object = objects[k + 1]
      BY <1>1, <2>1
    <2>5. Len(object) = Len(columns) /\ \A i \in DOMAIN object : object[i].name = columns[i]
      BY <1>1, <2>1, <2>4
    <2>6. NewKeys(headers, object) = columns
      BY <2>3, <2>5, NewKeysAre
    <2> QED BY <1>2, <2>1, <2>2, <2>4, <2>6
  <1> HIDE DEF T
  <1>5. n \in T
    BY <1>3, <1>4, Induction
  <1>6. objects = << >> <=> n = 0
    BY <1>1
  <1> QED BY <1>2, <1>5, <1>6 DEF T

\* Only a delimited file loses rows.
LEMMA AllAreKept ==
  ASSUME NEW format, format.kind # "delimited", NEW exported \in Seq(Seq(Cells))
  PROVE  KeptRows(exported, format) = exported
  <1>1. PICK n \in Nat : n = Len(exported) /\ DOMAIN exported = 1 .. n
    OBVIOUS
  <1>2. PICK parts : parts = [r \in 1 .. n |-> <<exported[r]>>]
    OBVIOUS
  <1>3. parts \in Seq(Seq(Seq(Cells))) /\ Len(parts) = n
    <2>1. \A r \in 1 .. n : exported[r] \in Seq(Cells)
      BY <1>1
    <2>2. \A r \in 1 .. n : <<exported[r]>> \in Seq(Seq(Cells))
      BY <2>1, OneWord
    <2>3. parts \in [1 .. n -> Seq(Seq(Cells))]
      BY <1>2, <2>2
    <2> QED BY <2>3, MapType
  <1>4. \A r \in 1 .. n : parts[r] = <<exported[r]>>
    BY <1>2
  <1>5. FlattenSeq(parts) = exported
    BY <1>1, <1>3, <1>4, FlattenSingletons
  <1> QED BY <1>1, <1>2, <1>5 DEF KeptRows

\* The objects of the rows.
ObjectsOf(format, exported) == [r \in DOMAIN exported |-> ObjectOf(format, exported[r])]

LEMMA ObjectsType ==
  ASSUME NEW format, NEW exported \in Seq(Seq(Cells)),
         \A r \in DOMAIN exported : FitsColumns(exported[r], format.columns)
  PROVE  /\ ObjectsOf(format, exported) \in Seq(Seq(Pairs))
         /\ Len(ObjectsOf(format, exported)) = Len(exported)
  <1>1. PICK n \in Nat : n = Len(exported) /\ DOMAIN exported = 1 .. n
    OBVIOUS
  <1>2. \A r \in 1 .. n : ObjectOf(format, exported[r]) \in Seq(Pairs)
    BY <1>1, ObjectType
  <1>3. ObjectsOf(format, exported) \in [1 .. n -> Seq(Pairs)]
    BY <1>1, <1>2 DEF ObjectsOf
  <1> QED BY <1>1, <1>3, MapType

LEMMA JsonShows ==
  ASSUME NEW format, KnownFormat(format), format.kind # "delimited",
         NEW exported \in Seq(Seq(Cells)), Readable(format, exported)
  PROVE  Shows(PreviewJsonValues(ObjectsOf(format, exported), MaxRows), format,
               KeptRows(exported, format))
  <1>1. PICK columns \in Seq(Seq(Tokens)) : columns = format.columns
    BY DEF KnownFormat
  <1>2. \A r \in DOMAIN exported : FitsColumns(exported[r], columns)
    <2>1. \A r \in DOMAIN exported : exported[r] \in Seq(Cells)
      OBVIOUS
    <2> QED BY <1>1, <2>1 DEF Readable, FitsColumns
  <1>3. PICK objects \in Seq(Seq(Pairs)) : objects = ObjectsOf(format, exported)
    BY <1>1, <1>2, ObjectsType
  <1>4. /\ Len(objects) = Len(exported) /\ DOMAIN objects = DOMAIN exported
        /\ \A r \in DOMAIN exported : objects[r] = ObjectOf(format, exported[r])
    <2>1. Len(objects) = Len(exported)
      BY <1>1, <1>2, <1>3, ObjectsType
    <2> QED BY <1>3, <2>1 DEF ObjectsOf
  <1>5. MaxRows \in Nat
    BY ExportAssumption
  <1>6. PICK shown \in Seq(Seq(Cells)) :
          /\ shown = FirstRows(exported, MaxRows)
          /\ \A r \in DOMAIN shown : r \in DOMAIN exported /\ shown[r] = exported[r]
    BY <1>5, FirstRowsAre
  <1>7. PICK first \in Seq(Seq(Pairs)) :
          /\ first = FirstRows(objects, MaxRows)
          /\ \A r \in DOMAIN first : r \in DOMAIN objects /\ first[r] = objects[r]
    BY <1>5, FirstRowsAre
  <1>8. PICK n \in Nat : n = Len(shown) /\ n = Len(first) /\ DOMAIN shown = 1 .. n
                         /\ DOMAIN first = 1 .. n
    <2>1. Len(shown) = IF Len(exported) < MaxRows THEN Len(exported) ELSE MaxRows
      BY <1>5, <1>6, FirstRowsAre
    <2>2. Len(first) = IF Len(objects) < MaxRows THEN Len(objects) ELSE MaxRows
      BY <1>5, <1>7, FirstRowsAre
    <2>3. Len(shown) = Len(first) /\ Len(shown) \in Nat
      BY <1>4, <2>1, <2>2
    <2>4. DOMAIN shown = 1 .. Len(shown) /\ DOMAIN first = 1 .. Len(first)
      OBVIOUS
    <2> QED BY <2>3, <2>4
  <1>9. ASSUME NEW r \in 1 .. n
        PROVE  /\ FitsColumns(shown[r], columns) /\ first[r] = ObjectOf(format, shown[r])
               /\ shown[r] \in Seq(Cells)
    <2>1. r \in DOMAIN exported /\ shown[r] = exported[r]
      BY <1>6, <1>8
    <2>2. first[r] = objects[r]
      BY <1>7, <1>8
    <2>3. FitsColumns(exported[r], columns) /\ objects[r] = ObjectOf(format, exported[r])
      BY <1>2, <1>4, <2>1
    <2>4. shown[r] \in Seq(Cells)
      BY <1>8
    <2> QED BY <2>1, <2>2, <2>3, <2>4
  <1>10. PICK headers \in Seq(Seq(Tokens)) : /\ headers = HeadersOf(first)
                                            /\ headers = IF n = 0 THEN << >> ELSE columns
    <2>1. ASSUME NEW r \in DOMAIN first
          PROVE  /\ Len(first[r]) = Len(columns)
                 /\ \A i \in DOMAIN first[r] : first[r][i].name = columns[i]
      <3>1. FitsColumns(shown[r], columns) /\ first[r] = ObjectOf(format, shown[r])
        BY <1>8, <1>9, <2>1
      <3>2. PICK k \in Nat : k = Len(shown[r]) /\ k = Len(columns)
        BY <3>1 DEF FitsColumns
      <3>3. /\ first[r] \in Seq(Pairs) /\ Len(first[r]) = k
            /\ \A i \in 1 .. k : first[r][i].name = columns[i]
        <4>1. PICK row : row = shown[r]
          OBVIOUS
        <4>2. FitsColumns(row, format.columns) /\ first[r] = ObjectOf(format, row)
              /\ k = Len(row)
          BY <1>1, <3>1, <3>2, <4>1
        <4> QED BY <1>1, <4>2, ObjectType
      <3>4. DOMAIN first[r] = 1 .. k
        BY <3>3
      <3> QED BY <3>2, <3>3, <3>4
    <2>2. HeadersOf(first) = IF first = << >> THEN << >> ELSE columns
      BY <2>1, HeadersAre
    <2>3. first = << >> <=> n = 0
      BY <1>8
    <2>4. << >> \in Seq(Seq(Tokens))
      OBVIOUS
    <2> QED BY <2>2, <2>3, <2>4
  <1>11. PICK cells : cells = [r \in DOMAIN first |->
                                 [i \in DOMAIN headers |-> ValueOf(first[r], headers[i])]]
    OBVIOUS
  <1>12. cells = ReadBackRows(shown, format)
    <2>1. ASSUME NEW r \in 1 .. n
          PROVE  [i \in DOMAIN headers |-> ValueOf(first[r], headers[i])]
                   = [i \in DOMAIN shown[r] |-> ReadBackAs(shown[r][i], format)]
      <3>1. headers = columns
        BY <1>10, <2>1
      <3>2. PICK row : row = shown[r] /\ FitsColumns(row, columns)
                       /\ first[r] = ObjectOf(format, row)
        BY <1>9, <2>1
      <3>3. DOMAIN columns = DOMAIN row
        BY <3>2 DEF FitsColumns
      <3>4. ASSUME NEW i \in DOMAIN row
            PROVE  ValueOf(first[r], columns[i]) = ReadBackAs(row[i], format)
        <4>1. ValueOf(ObjectOf(format, row), columns[i]) = JsonValue(row[i])
          BY <1>1, <3>2, ValueIsThere
        <4> QED BY <3>2, <4>1 DEF ReadBackAs
      <3> QED BY <3>1, <3>2, <3>3, <3>4
    <2> QED BY <1>8, <1>11, <2>1 DEF ReadBackRows
  <1>13. PreviewJsonValues(objects, MaxRows)
           = BuildPreview(headers, cells, Len(exported), MaxRows)
    BY <1>4, <1>7, <1>10, <1>11 DEF PreviewJsonValues, HeadersOf
  <1>14. PICK w \in Nat : /\ ListsOf(w, headers) /\ w = Len(headers)
    <2>1. headers = [i \in 1 .. Len(headers) |-> headers[i]] /\ Len(headers) \in Nat
      OBVIOUS
    <2> QED BY <2>1 DEF ListsOf
  <1>15. \A r \in DOMAIN shown : Len(shown[r]) = w
    <2>1. ASSUME NEW r \in DOMAIN shown PROVE Len(shown[r]) = w
      <3>1. headers = columns
        BY <1>8, <1>10, <2>1
      <3> QED BY <1>8, <1>9, <1>14, <2>1, <3>1 DEF FitsColumns
    <2> QED BY <2>1
  <1>16. shown # << >> => headers = columns
    BY <1>8, <1>10
  <1>17. Shows(BuildPreview(headers, cells, Len(exported), MaxRows), format, exported)
    <2>1. shown # << >> /\ (format.kind = "delimited" => format.options.includeHeader)
            => headers = format.columns
      BY <1>1, <1>16
    <2> QED BY <1>6, <1>12, <1>14, <1>15, <2>1, BuiltShows
  <1>18. KeptRows(exported, format) = exported
    BY AllAreKept
  <1> QED BY <1>3, <1>13, <1>17, <1>18

-----------------------------------------------------------------------------
(* Documents and lines. *)

\* Where the elements of lists are that are put together.
LEMMA ListsAt ==
  ASSUME NEW x, IsList(x), NEW y, IsList(y)
  PROVE  /\ \A i \in 1 .. Len(x) : (x \o y)[i] = x[i]
         /\ \A i \in 1 .. Len(y) : (x \o y)[Len(x) + i] = y[i]
         /\ Len(x \o y) = Len(x) + Len(y) /\ Len(x) \in Nat /\ Len(y) \in Nat
  <1>1. PICK S, T : x \in Seq(S) /\ y \in Seq(T)
    BY DEF IsList
  <1>2. PICK U : U = S \cup T
    OBVIOUS
  <1>3. x \in Seq(U) /\ y \in Seq(U)
    BY <1>1, <1>2, SeqMonotonic
  <1>4. /\ Len(x \o y) = Len(x) + Len(y)
        /\ \A i \in 1 .. Len(x) + Len(y) :
             (x \o y)[i] = IF i <= Len(x) THEN x[i] ELSE y[i - Len(x)]
    BY <1>3, ConcatProperties
  <1>5. Len(x) \in Nat /\ Len(y) \in Nat
    BY <1>3
  <1>6. ASSUME NEW i \in 1 .. Len(y) PROVE (x \o y)[Len(x) + i] = y[i]
    <2>1. Len(x) + i \in 1 .. Len(x) + Len(y) /\ ~(Len(x) + i <= Len(x))
          /\ (Len(x) + i) - Len(x) = i
      BY <1>5
    <2> QED BY <1>4, <2>1
  <1> QED BY <1>4, <1>5, <1>6

\* What can be read of the rows so far can be read of the ones before.
LEMMA ReadableGrows ==
  ASSUME NEW format, KnownFormat(format), format.kind # "delimited",
         NEW exported \in Seq(Seq(Cells)), NEW row \in Seq(Cells),
         Readable(format, Append(exported, row))
  PROVE  Readable(format, exported) /\ FitsColumns(row, format.columns)
  <1>1. PICK more \in Seq(Seq(Cells)) : more = Append(exported, row)
    BY AppendProperties
  <1>2. PICK n \in Nat : n = Len(exported) /\ DOMAIN exported = 1 .. n
    OBVIOUS
  <1>3. /\ DOMAIN more = 1 .. n + 1 /\ more[n + 1] = row
        /\ \A r \in 1 .. n : more[r] = exported[r]
    BY <1>1, <1>2
  <1>4. Readable(format, more)
    BY <1>1
  <1>5. /\ \A r \in 1 .. n + 1 : Len(more[r]) = Len(format.columns)
        /\ \A i, j \in DOMAIN format.columns : format.columns[i] = format.columns[j] => i = j
    BY <1>3, <1>4 DEF Readable
  <1>6. \A r \in 1 .. n : Len(exported[r]) = Len(format.columns)
    BY <1>3, <1>5
  <1>7. Len(row) = Len(format.columns)
    <2>1. n + 1 \in 1 .. n + 1
      OBVIOUS
    <2> QED BY <1>3, <1>5, <2>1
  <1>8. format.columns \in Seq(Seq(Tokens))
    BY DEF KnownFormat
  <1> QED BY <1>2, <1>5, <1>6, <1>7, <1>8 DEF Readable, FitsColumns

\* The items of a document, and of lines, with an object for each row.
JsonHolds(format, out, exported) ==
  /\ out[1] = Mark("[")
  /\ \A r \in 2 .. Len(exported) : out[2 * r - 1] = Mark(",")
  /\ Readable(format, exported) =>
       \A r \in 1 .. Len(exported) : out[2 * r] = Object(ObjectOf(format, exported[r]))

NdjsonHolds(format, out, exported) ==
  /\ \A r \in 1 .. Len(exported) : out[2 * r] = Mark("nl")
  /\ Readable(format, exported) =>
       \A r \in 1 .. Len(exported) : out[2 * r - 1] = Object(ObjectOf(format, exported[r]))

LEMMA TwoAreJoined ==
  ASSUME NEW x, NEW y
  PROVE  <<x>> \o <<y>> = <<x, y>>
  <1>1. PICK S : S = {x, y}
    OBVIOUS
  <1>2. PICK a \in Seq(S) : a = <<x>> /\ Len(a) = 1 /\ a[1] = x
    <2>1. <<x>> \in Seq(S) /\ Len(<<x>>) = 1 /\ <<x>>[1] = x
      BY <1>1
    <2> QED BY <2>1
  <1>3. PICK b \in Seq(S) : b = <<y>> /\ Len(b) = 1 /\ b[1] = y
    <2>1. <<y>> \in Seq(S) /\ Len(<<y>>) = 1 /\ <<y>>[1] = y
      BY <1>1
    <2> QED BY <2>1
  <1>4. PICK c \in Seq(S) : c = <<x, y>> /\ Len(c) = 2 /\ c[1] = x /\ c[2] = y
    <2>1. <<x, y>> \in Seq(S) /\ Len(<<x, y>>) = 2 /\ <<x, y>>[1] = x /\ <<x, y>>[2] = y
      BY <1>1
    <2> QED BY <2>1
  <1>5. Len(c) = Len(a) + Len(b) /\ (\A i \in 1 .. Len(a) : c[i] = a[i])
        /\ \A i \in 1 .. Len(b) : c[Len(a) + i] = b[i]
    <2>1. Len(c) = Len(a) + Len(b)
      BY <1>2, <1>3, <1>4
    <2>2. ASSUME NEW i \in 1 .. Len(a) PROVE c[i] = a[i]
      <3>1. i = 1
        BY <1>2
      <3> QED BY <1>2, <1>4, <3>1
    <2>3. ASSUME NEW i \in 1 .. Len(b) PROVE c[Len(a) + i] = b[i]
      <3>1. i = 1 /\ Len(a) + i = 2
        BY <1>2, <1>3
      <3> QED BY <1>3, <1>4, <3>1
    <2> QED BY <2>1, <2>2, <2>3
  <1>6. c = a \o b
    BY <1>5, IsConcat
  <1> QED BY <1>2, <1>3, <1>4, <1>6

JsonSize(out, n) == IsList(out) /\ Len(out) = IF n = 0 THEN 1 ELSE 2 * n

JsonPiece(e, row, n) ==
  (IF n = 0 THEN << >> ELSE <<Mark(",")>>) \o <<RowObject(e, row)>>

LEMMA JsonGrows ==
  ASSUME NEW e, KnownFormat(e.format), e.format.kind = "json",
         NEW exported \in Seq(Seq(Cells)), NEW row \in Seq(Cells),
         NEW n \in Nat, n = Len(exported),
         NEW out, JsonSize(out, n), JsonHolds(e.format, out, exported),
         NEW piece, piece = JsonPiece(e, row, n)
  PROVE  JsonHolds(e.format, out \o piece, Append(exported, row))
  <1>0. PICK k \in Nat : IsList(out) /\ k = Len(out) /\ k = IF n = 0 THEN 1 ELSE 2 * n
    BY DEF JsonSize
  <1>1. PICK object : object = RowObject(e, row)
    OBVIOUS
  <1>2. /\ n = 0 => piece = <<object>>
        /\ n # 0 => piece = <<Mark(","), object>>
    <2>1. CASE n = 0
      BY <1>1, <2>1, ListOfOne DEF JsonPiece
    <2>2. CASE n # 0
      <3>1. PICK comma : comma = Mark(",")
        OBVIOUS
      <3>2. piece = <<comma>> \o <<object>>
        BY <1>1, <2>2, <3>1 DEF JsonPiece
      <3>3. <<comma>> \o <<object>> = <<comma, object>>
        BY TwoAreJoined
      <3> QED BY <2>2, <3>1, <3>2, <3>3
    <2> QED BY <2>1, <2>2
  <1>3. /\ IsList(piece)
        /\ n = 0 => Len(piece) = 1 /\ piece[1] = object
        /\ n # 0 => Len(piece) = 2 /\ piece[1] = Mark(",") /\ piece[2] = object
    <2>1. CASE n = 0
      BY <1>2, <2>1, ListOfOne
    <2>2. CASE n # 0
      <3>1. PICK comma : comma = Mark(",")
        OBVIOUS
      <3>2. piece = <<comma, object>>
        BY <1>2, <2>2, <3>1
      <3>3. IsList(piece) /\ Len(piece) = 2 /\ piece[1] = comma /\ piece[2] = object
        BY <3>2, ListOfTwo
      <3> QED BY <2>2, <3>1, <3>2, <3>3
    <2> QED BY <2>1, <2>2
  <1>4. PICK all : all = out \o piece
    OBVIOUS
  <1>5. /\ \A i \in 1 .. k : all[i] = out[i]
        /\ \A i \in 1 .. Len(piece) : all[k + i] = piece[i]
    <2>1. IsList(piece) /\ IsList(out)
      BY <1>0, <1>3
    <2>2. /\ \A i \in 1 .. Len(out) : (out \o piece)[i] = out[i]
          /\ \A i \in 1 .. Len(piece) : (out \o piece)[Len(out) + i] = piece[i]
      BY <2>1, ListsAt
    <2> QED BY <1>0, <1>4, <2>2
  <1>6. PICK more \in Seq(Seq(Cells)) : more = Append(exported, row)
    BY AppendProperties
  <1>7. Len(more) = n + 1 /\ more[n + 1] = row /\ \A r \in 1 .. n : more[r] = exported[r]
    BY <1>6
  <1>8. all[1] = Mark("[")
    <2>1. 1 \in 1 .. k
      BY <1>0
    <2> QED BY <1>5, <2>1 DEF JsonHolds
  <1>9. \A r \in 2 .. n + 1 : all[2 * r - 1] = Mark(",")
    <2>1. ASSUME NEW r \in 2 .. n + 1, r # n + 1 PROVE all[2 * r - 1] = Mark(",")
      <3>1. r \in 2 .. n /\ 2 * r - 1 \in 1 .. k
        BY <1>0, <2>1
      <3> QED BY <1>5, <3>1 DEF JsonHolds
    <2>2. ASSUME n + 1 \in 2 .. n + 1 PROVE all[2 * (n + 1) - 1] = Mark(",")
      <3>1. n # 0 /\ 2 * (n + 1) - 1 = k + 1 /\ 1 \in 1 .. 2
        BY <1>0, <2>2
      <3> QED BY <1>3, <1>5, <3>1
    <2> QED BY <2>1, <2>2
  <1>10. ASSUME Readable(e.format, more)
         PROVE  \A r \in 1 .. n + 1 : all[2 * r] = Object(ObjectOf(e.format, more[r]))
    <2>1. Readable(e.format, exported) /\ FitsColumns(row, e.format.columns)
      BY <1>6, <1>10, ReadableGrows
    <2>2. object = Object(ObjectOf(e.format, row))
      BY <1>1, <2>1, RowObjectIs
    <2>3. ASSUME NEW r \in 1 .. n PROVE all[2 * r] = Object(ObjectOf(e.format, more[r]))
      <3>1. 2 * r \in 1 .. k
        BY <1>0
      <3>2. out[2 * r] = Object(ObjectOf(e.format, exported[r]))
        BY <2>1 DEF JsonHolds
      <3> QED BY <1>5, <1>7, <3>1, <3>2
    <2>4. all[2 * (n + 1)] = object
      <3>1. CASE n = 0
        <4>1. 2 * (n + 1) = k + 1 /\ 1 \in 1 .. Len(piece)
          BY <1>0, <1>3, <3>1
        <4> QED BY <1>3, <1>5, <3>1, <4>1
      <3>2. CASE n # 0
        <4>1. 2 * (n + 1) = k + 2
          BY <1>0, <3>2
        <4>2. Len(piece) = 2 /\ piece[2] = object
          BY <1>3, <3>2
        <4>3. all[k + 2] = piece[2]
          <5>1. 2 \in 1 .. Len(piece)
            BY <4>2
          <5> QED BY <1>5, <5>1
        <4> QED BY <4>1, <4>2, <4>3
      <3> QED BY <3>1, <3>2
    <2>5. ASSUME NEW r \in 1 .. n + 1 PROVE all[2 * r] = Object(ObjectOf(e.format, more[r]))
      <3>1. CASE r = n + 1
        BY <1>7, <2>2, <2>4, <3>1
      <3>2. CASE r # n + 1
        <4>1. r \in 1 .. n
          BY <3>2
        <4> QED BY <2>3, <4>1
      <3> QED BY <3>1, <3>2
    <2> QED BY <2>5
  <1> QED BY <1>4, <1>6, <1>7, <1>8, <1>9, <1>10 DEF JsonHolds

LEMMA NdjsonGrows ==
  ASSUME NEW e, KnownFormat(e.format), e.format.kind = "ndjson",
         NEW exported \in Seq(Seq(Cells)), NEW row \in Seq(Cells),
         NEW n \in Nat, n = Len(exported),
         NEW out, IsList(out), Len(out) = 2 * n, NdjsonHolds(e.format, out, exported),
         NEW piece, piece = <<RowObject(e, row), Mark("nl")>>
  PROVE  NdjsonHolds(e.format, out \o piece, Append(exported, row))
  <1>1. PICK object, end : object = RowObject(e, row) /\ end = Mark("nl")
    OBVIOUS
  <1>2. piece = <<object, end>>
    BY <1>1
  <1>3. IsList(piece) /\ Len(piece) = 2 /\ piece[1] = object /\ piece[2] = end
    BY <1>2, ListOfTwo
  <1>4. PICK all : all = out \o piece
    OBVIOUS
  <1>5. /\ \A i \in 1 .. Len(out) : all[i] = out[i]
        /\ \A i \in 1 .. Len(piece) : all[Len(out) + i] = piece[i]
    BY <1>3, <1>4, ListsAt
  <1>6. PICK more \in Seq(Seq(Cells)) : more = Append(exported, row)
    BY AppendProperties
  <1>7. Len(more) = n + 1 /\ more[n + 1] = row /\ \A r \in 1 .. n : more[r] = exported[r]
    BY <1>6
  <1>8. ASSUME NEW r \in 1 .. n + 1
        PROVE  all[2 * r] = Mark("nl")
    <2>1. CASE r = n + 1
      <3>1. 2 * r = Len(out) + 2
        BY <2>1
      <3> QED BY <1>1, <1>3, <1>5, <3>1
    <2>2. CASE r # n + 1
      <3>1. r \in 1 .. n
        BY ONLY <2>2, r \in 1 .. n + 1, n \in Nat
      <3>2. 2 * r \in 1 .. 2 * n
        BY ONLY <3>1, n \in Nat
      <3>3. 2 * r \in 1 .. Len(out)
        BY ONLY <3>2, Len(out) = 2 * n
      <3>4. out[2 * r] = Mark("nl")
        BY <3>1 DEF NdjsonHolds
      <3> QED BY <1>5, <3>3, <3>4
    <2> QED BY <2>1, <2>2
  <1>9. ASSUME Readable(e.format, more), NEW r \in 1 .. n + 1
        PROVE  all[2 * r - 1] = Object(ObjectOf(e.format, more[r]))
    <2>1. Readable(e.format, exported) /\ FitsColumns(row, e.format.columns)
      BY <1>6, <1>9, ReadableGrows
    <2>2. object = Object(ObjectOf(e.format, row))
      BY <1>1, <2>1, RowObjectIs
    <2>3. CASE r = n + 1
      <3>1. 2 * r - 1 = Len(out) + 1
        BY <2>3
      <3> QED BY <1>1, <1>3, <1>5, <1>7, <2>2, <2>3, <3>1
    <2>4. CASE r # n + 1
      <3>1. r \in 1 .. n /\ 2 * r - 1 \in 1 .. Len(out)
        BY <2>4
      <3>2. out[2 * r - 1] = Object(ObjectOf(e.format, exported[r]))
        BY <2>1, <3>1 DEF NdjsonHolds
      <3> QED BY <1>5, <1>7, <3>1, <3>2
    <2> QED BY <2>3, <2>4
  <1> QED BY <1>4, <1>6, <1>7, <1>8, <1>9 DEF NdjsonHolds

-----------------------------------------------------------------------------
(* What a file holds. *)

\* A document is closed behind its objects.
IsDocument(format, out, exported) ==
  /\ IsList(out)
  /\ Len(out) = IF Len(exported) = 0 THEN 2 ELSE 2 * Len(exported) + 1
  /\ out[Len(out)] = Mark("]")
  /\ JsonHolds(format, out, exported)

\* What a file with these rows is.
FileOf(e, out, exported) ==
  /\ e.format.kind = "delimited" => ReadsBack(e.format, out, exported)
  /\ e.format.kind = "insert" =>
       out = Batches(Mapped(InsertOf, exported), 1, << >>)
  /\ e.format.kind = "script" =>
       out = Opening(e) \o Batches(Mapped(ScriptOf, exported),
                                   AtLeastOne(e.format.batchSize), UpsertClause(e))
  /\ e.format.kind = "avro" => out = exported
  /\ e.format.kind = "parquet" =>
       /\ Len(out) = 1
       /\ \A i \in DOMAIN e.format.columns :
            /\ Len(out[1][i].cells) = Len(exported)
            /\ \A r \in 1 .. Len(exported) :
                 /\ \/ out[1][i].cells[r].text = exported[r][i].text
                    \/ LosesDigits(out[1][i].type, exported[r][i])
                 /\ out[1][i].cells[r].type \in {"null", out[1][i].type}
                 /\ out[1][i].cells[r].type = "null" <=> exported[r][i].type = "null"
  /\ e.format.kind = "json" => IsDocument(e.format, out, exported)
  /\ e.format.kind = "ndjson" =>
       /\ IsList(out) /\ Len(out) = 2 * Len(exported)
       /\ NdjsonHolds(e.format, out, exported)

\* What there is of it while rows are still to come, or the end.
SoFar(e, out, exported) ==
  /\ e.format.kind = "delimited" => ReadsBack(e.format, out, exported)
  /\ e.format.kind = "insert" =>
       Batched(Mapped(InsertOf, exported), << >>, << >>, out, 1, << >>)
  /\ e.format.kind = "script" =>
       Batched(Mapped(ScriptOf, exported), e.batch, Opening(e), out,
               AtLeastOne(e.format.batchSize), UpsertClause(e))
  /\ e.format.kind = "avro" => out = << >> /\ e.batch = exported
  /\ e.format.kind = "parquet" => out = << >> /\ e.batch = exported /\ e.open
  /\ e.format.kind = "json" =>
       /\ JsonSize(out, Len(exported))
       /\ e.first <=> Len(exported) = 0
       /\ JsonHolds(e.format, out, exported)
  /\ e.format.kind = "ndjson" =>
       /\ IsList(out) /\ Len(out) = 2 * Len(exported)
       /\ NdjsonHolds(e.format, out, exported)

LEMMA TwoWords ==
  ASSUME NEW S, NEW x \in S, NEW y \in S
  PROVE  <<x, y>> \in Seq(S)
  OBVIOUS

\* The CREATE TABLE is a sequence of words, whatever the schema.
LEMMA OpeningType ==
  ASSUME NEW e, KnownFormat(e.format), e.format.kind = "script"
  PROVE  Opening(e) \in Seq(Words)
  <1>1. CASE e.format.createTable = Absent
    BY <1>1, NoneOf DEF Opening
  <1>2. CASE e.format.createTable # Absent
    <2>1. PICK schema \in Seq(SchemaColumn) : schema = e.format.createTable
      BY <1>2 DEF KnownFormat
    <2>2. PICK n \in Nat : n = Len(schema) /\ DOMAIN schema = 1 .. n
      OBVIOUS
    <2>3. ASSUME NEW i \in 1 .. n
          PROVE  schema[i].name \o <<schema[i].sqlType>>
                   \o (IF schema[i].nullable THEN << >> ELSE <<"NOT NULL">>)
                   \in Seq(Words)
      <3>1. schema[i] \in SchemaColumn
        BY <2>2
      <3>2. PICK name \in Seq(Words) : name = schema[i].name
        BY <3>1, WordsOfTexts DEF SchemaColumn
      <3>3. schema[i].sqlType \in Words
        BY <3>1 DEF SchemaColumn, Words
      <3>4. PICK type \in Seq(Words) : type = <<schema[i].sqlType>>
        BY <3>3, OneWord
      <3>5. PICK rest \in Seq(Words) :
              rest = IF schema[i].nullable THEN << >> ELSE <<"NOT NULL">>
        BY WordsAre, OneWord, NoneOf
      <3>6. (name \o type) \o rest \in Seq(Words)
        BY ConcatProperties
      <3> QED BY <3>2, <3>4, <3>5, <3>6
    <2>4. PICK texts \in [1 .. n -> Seq(Words)] :
            texts = [i \in DOMAIN schema |->
                       schema[i].name \o <<schema[i].sqlType>>
                         \o (IF schema[i].nullable THEN << >> ELSE <<"NOT NULL">>)]
      BY <2>2, <2>3
    <2>5. texts \in Seq(Seq(Words))
      BY MapType
    <2>6. PICK comma \in Seq(Words) : comma = <<",">>
      BY WordsAre, OneWord
    <2>7. PICK j \in Seq(Words) : j = Joined(texts, comma)
      BY <2>5, JoinedType
    <2>8. PICK head \in Seq(Words) : head = <<"CREATE", "(">>
      BY WordsAre, TwoWords
    <2>9. PICK end \in Seq(Words) : end = <<")", ";">>
      BY WordsAre, TwoWords
    <2>10. (head \o j) \o end \in Seq(Words)
      BY ConcatProperties
    <2>11. CASE schema = << >>
      BY <1>2, <2>1, <2>11, NoneOf DEF Opening, CreateTable, Result
    <2>12. CASE schema # << >>
      <3>1. CreateTable(e).out = (head \o j) \o end
        BY <2>1, <2>4, <2>6, <2>7, <2>8, <2>9, <2>12 DEF CreateTable, Result
      <3> QED BY <1>2, <2>10, <3>1 DEF Opening
    <2> QED BY <2>11, <2>12
  <1> QED BY <1>1, <1>2

\* A batch takes at least one row.
LEMMA FormatSizes ==
  ASSUME NEW e, KnownFormat(e.format), e.format.kind = "script"
  PROVE  AtLeastOne(e.format.batchSize) \in Nat \ {0}
  BY DEF KnownFormat, AtLeastOne

LEMMA LineType ==
  ASSUME NEW o, IsReadable(o), NEW fields \in Seq(Seq(Tokens))
  PROVE  LineOf(fields, o) \in Seq(Tokens)
  <1>1. PICK p \in Seq(Seq(Tokens)) : p = Pieces(fields, o)
    BY PiecesType
  <1>2. PICK text \in Seq(Tokens) : text = FlattenSeq(p)
    BY FlattenType
  <1>3. text \o o.lineEnding \in Seq(Tokens)
    BY OptionParts, ConcatProperties
  <1> QED BY <1>1, <1>2, <1>3, PiecesType DEF LineOf

\* A header is the first record.
LEMMA DelimitedNew ==
  ASSUME NEW format, KnownFormat(format), format.kind = "delimited",
         NewEncoder(format).ok
  PROVE  ReadsBack(format, NewEncoder(format).out, << >>)
  <1>1. PICK e : e = [ format |-> format, batch |-> << >>, first |-> TRUE, open |-> TRUE ]
    OBVIOUS
  <1>2. PICK o : o = format.options
    OBVIOUS
  <1>3. PICK w : w = NewEncoder(format)
    OBVIOUS
  <1>4. ValidOptions(o)
    <2> SUFFICES ASSUME ~ValidOptions(o) PROVE FALSE
      OBVIOUS
    <2>1. w = Result(FALSE, << >>, e)
      BY <1>1, <1>2, <1>3 DEF NewEncoder
    <2> QED BY <1>3, <2>1 DEF Result
  <1>5. IsReadable(o) /\ format.columns \in Seq(Seq(Tokens))
    BY <1>2, <1>4 DEF IsReadable, KnownFormat
  <1>6. PICK h \in Seq(Seq(Seq(Tokens))) : h = Heading(format)
    BY <1>5, HeadingType
  <1>7. Found(<< >>, format) = h
    <2>1. Found(<< >>, format) = h \o << >>
      BY <1>6, KeptNone, MappedNone DEF Found
    <2> QED BY <2>1, ConcatEmptySeq
  <1>8. CASE ~o.includeHeader
    <2>1. w.out = << >>
      BY <1>2, <1>3, <1>4, <1>8 DEF NewEncoder, Result
    <2>2. << >> \in Seq(Tokens)
      OBVIOUS
    <2>3. h = << >>
      BY <1>2, <1>6, <1>8 DEF Heading
    <2>4. ReadFrom(EmptyReader, << >>, o.delimiter, o.quote) = EmptyReader
      BY EmptyReaderIs, ReadNothing
    <2> QED BY <1>2, <1>3, <1>5, <1>7, <2>1, <2>2, <2>3, <2>4, EmptyReaderIs DEF ReadsBack
  <1>9. CASE o.includeHeader
    <2>1. w = WriteFields(e, format.columns)
      BY <1>1, <1>2, <1>3, <1>4, <1>9 DEF NewEncoder
    <2>2. PICK columns \in Seq(Seq(Tokens)) : columns = format.columns
      BY <1>5
    <2>3. w.out = LineOf(columns, o) /\ \A i \in DOMAIN columns : FieldFits(columns[i], o)
      BY <1>1, <1>2, <1>3, <2>1, <2>2, WholeLine
    <2>4. w.out \in Seq(Tokens)
      BY <1>5, <2>3, LineType
    <2>5. ASSUME Readable(format, << >>)
          PROVE  ReadFrom(EmptyReader, w.out, o.delimiter, o.quote)
                   = Reader(Found(<< >>, format), << >>, << >>, "start")
      <3>1. EndsInBreaks(o) /\ ~IsBlankLine(columns, o)
        BY <1>2, <1>9, <2>2, <2>5 DEF Readable, EndsInBreaks
      <3>2. PICK none \in Seq(Seq(Seq(Tokens))) : none = << >>
        BY EmptyReaderIs
      <3>3. ReadFrom(Reader(none, << >>, << >>, "start"), LineOf(columns, o),
                     o.delimiter, o.quote)
              = Reader(Recorded(none, columns, o), << >>, << >>, "start")
        BY <1>5, <2>3, <3>1, LineIsRead
      <3>4. Recorded(none, columns, o) = h
        <4>1. Recorded(none, columns, o) = Append(none, columns)
          BY <3>1 DEF Recorded
        <4>2. h = <<columns>>
          BY <1>2, <1>6, <1>9, <2>2 DEF Heading
        <4>3. Append(none, columns) = <<columns>>
          BY <3>2
        <4> QED BY <4>1, <4>2, <4>3
      <3> QED BY <1>7, <2>3, <3>2, <3>3, <3>4, EmptyReaderIs
    <2> QED BY <1>2, <1>3, <1>5, <2>4, <2>5 DEF ReadsBack
  <1> QED BY <1>8, <1>9

\* The constructor has written what belongs in front of the rows.
LEMMA SoFarNew ==
  ASSUME NEW format, KnownFormat(format), NewEncoder(format).ok
  PROVE  SoFar(NewEncoder(format).encoder, NewEncoder(format).out, << >>)
  <1>1. PICK e : e = [ format |-> format, batch |-> << >>, first |-> TRUE, open |-> TRUE ]
    OBVIOUS
  <1>2. PICK w : w = NewEncoder(format)
    OBVIOUS
  <1>3. /\ w.encoder = e /\ e.format = format /\ e.batch = << >> /\ e.first /\ e.open
    BY <1>1, <1>2, NewIsEmpty
  <1>4. CASE format.kind = "insert"
    <2>1. w.out = << >>
      BY <1>2, <1>4 DEF NewEncoder, Result
    <2>2. 1 \in Nat \ {0} /\ << >> \in Seq(Words)
      BY NoneOf
    <2>3. Batched(<< >>, << >>, << >>, << >>, 1, << >>)
      BY <2>2, BatchedInit
    <2>4. Mapped(InsertOf, << >>) = << >>
      BY MappedNone
    <2> QED BY <1>2, <1>3, <1>4, <2>1, <2>3, <2>4 DEF SoFar
  <1>5. CASE format.kind = "script"
    <2>2. w.out = Opening(e)
      <3>1. CASE format.createTable = Absent
        <4>1. w.out = << >>
          BY <1>2, <1>5, <3>1 DEF NewEncoder, Result
        <4> QED BY <1>3, <3>1, <4>1 DEF Opening
      <3>2. CASE format.createTable # Absent
        <4>1. w = CreateTable(e)
          BY <1>1, <1>2, <1>5, <3>2 DEF NewEncoder
        <4> QED BY <1>3, <3>2, <4>1 DEF Opening
      <3> QED BY <3>1, <3>2
    <2>3. PICK header \in Seq(Words) : header = Opening(e)
      BY <1>3, <1>5, OpeningType
    <2>4. PICK clause \in Seq(Words) : clause = UpsertClause(e)
      BY ClauseType
    <2>5. PICK k \in Nat \ {0} : k = AtLeastOne(e.format.batchSize)
      BY <1>3, <1>5, FormatSizes
    <2>6. Batched(<< >>, << >>, header, header, k, clause)
      BY BatchedInit
    <2>7. Mapped(ScriptOf, << >>) = << >>
      BY MappedNone
    <2> QED BY <1>2, <1>3, <1>5, <2>2, <2>3, <2>4, <2>5, <2>6, <2>7 DEF SoFar
  <1>6. CASE format.kind = "json"
    <2>1. w.out = <<Mark("[")>>
      BY <1>2, <1>6 DEF NewEncoder, Result
    <2>2. IsList(w.out) /\ Len(w.out) = 1 /\ w.out[1] = Mark("[")
      BY <2>1, ListOfOne
    <2>3. Len(<< >>) = 0
      BY ListOfNone
    <2>4. JsonSize(w.out, 0)
      BY <2>2 DEF JsonSize
    <2>5. JsonHolds(format, w.out, << >>)
      BY <2>2, <2>3 DEF JsonHolds
    <2> QED BY <1>2, <1>3, <1>6, <2>3, <2>4, <2>5 DEF SoFar
  <1>7. CASE format.kind \in {"ndjson", "avro", "parquet"}
    <2>1. w.out = << >>
      BY <1>2, <1>7 DEF NewEncoder, Result
    <2>2. IsList(<< >>) /\ Len(<< >>) = 0
      BY ListOfNone
    <2>3. NdjsonHolds(format, << >>, << >>)
      BY <2>2 DEF NdjsonHolds
    <2> QED BY <1>2, <1>3, <1>7, <2>1, <2>2, <2>3 DEF SoFar
  <1>8. CASE format.kind = "delimited"
    BY <1>2, <1>3, <1>8, DelimitedNew DEF SoFar
  <1> QED BY <1>4, <1>5, <1>6, <1>7, <1>8 DEF KnownFormat

\* One row more, format by format.
LEMMA TuplesGrow ==
  ASSUME NEW exported \in Seq(Seq(Cells)), NEW row \in Seq(Cells)
  PROVE  /\ Mapped(InsertOf, Append(exported, row))
              = Append(Mapped(InsertOf, exported), InsertTuple(row))
         /\ Mapped(ScriptOf, Append(exported, row))
              = Append(Mapped(ScriptOf, exported), ScriptTuple(row))
  <1>1. Mapped(InsertOf, Append(exported, row))
          = Append(Mapped(InsertOf, exported), InsertOf[row])
    <2>1. InsertOf \in [Seq(Cells) -> Seq(Words)]
      BY TuplesOfRows
    <2> QED BY <2>1, MappedGrows
  <1>2. Mapped(ScriptOf, Append(exported, row))
          = Append(Mapped(ScriptOf, exported), ScriptOf[row])
    <2>1. ScriptOf \in [Seq(Cells) -> Seq(Words)]
      BY TuplesOfRows
    <2> QED BY <2>1, MappedGrows
  <1>3. InsertOf[row] = InsertTuple(row) /\ ScriptOf[row] = ScriptTuple(row)
    BY DEF InsertOf, ScriptOf
  <1> QED BY <1>1, <1>2, <1>3

\* One text needs no separator.
LEMMA JoinedOne ==
  ASSUME NEW t \in Seq(Words), NEW separator
  PROVE  Joined(<<t>>, separator) = t
  <1>1. PICK one \in Seq(Seq(Words)) : one = <<t>>
    BY OneWord
  <1>2. DOMAIN one = {1} /\ one[1] = t /\ Len(one) = 1
    BY <1>1
  <1>3. [i \in DOMAIN one |-> IF i = 1 THEN one[i] ELSE separator \o one[i]] = one
    <2>1. one = [i \in {1} |-> one[i]]
      BY <1>2
    <2>2. [i \in DOMAIN one |-> IF i = 1 THEN one[i] ELSE separator \o one[i]]
            = [i \in {1} |-> one[i]]
      BY <1>2
    <2> QED BY <2>1, <2>2
  <1>4. PICK none \in Seq(Seq(Words)) : none = << >>
    BY NoneOf
  <1>5. Append(none, t) = one
    BY <1>1, <1>4
  <1>6. FlattenSeq(one) = FlattenSeq(none) \o t
    BY <1>5, FlattenAppend
  <1>7. FlattenSeq(one) = t
    BY <1>4, <1>6, FlattenNone, ConcatEmptySeq
  <1> QED BY <1>1, <1>3, <1>7 DEF Joined

\* INSERT by INSERT: each row is a batch.
LEMMA SoFarInsert ==
  ASSUME NEW e, e.format.kind = "insert", NEW out, NEW exported \in Seq(Seq(Cells)),
         NEW row \in Seq(Cells), SoFar(e, out, exported)
  PROVE  SoFar(WriteRow(e, row).encoder, out \o WriteRow(e, row).out,
               Append(exported, row))
  <1>1. PICK t \in Seq(Words) : t = InsertTuple(row)
    BY RowTupleTypes
  <1>2. PICK w : w = WriteRow(e, row)
    OBVIOUS
  <1>3. w = WriteInsertRow(e, row)
    BY <1>2 DEF WriteRow
  <1>4. w = Result(TRUE, <<"INSERT">> \o t \o <<";">>, e)
    BY <1>1, <1>3 DEF WriteInsertRow, InsertTuple
  <1>5. w.encoder = e /\ w.out = <<"INSERT">> \o t \o <<";">>
    BY <1>4 DEF Result
  <1>6. PICK none \in Seq(Words) : none = << >>
    BY NoneOf
  <1>7. PICK batch \in Seq(Seq(Words)) : batch = << >>
    BY NoneOf
  <1>8. PICK one \in Seq(Seq(Words)) : one = Append(batch, t)
    BY AppendProperties
  <1>9. one = <<t>> /\ Len(one) = 1
    BY <1>7, <1>8
  <1>10. w.out = Statement(one, none)
    <2>1. Joined(one, <<",">>) = t
      BY <1>9, JoinedOne
    <2>2. PICK head \in Seq(Words) : head = <<"INSERT">>
      BY WordsAre, OneWord
    <2>3. PICK start \in Seq(Words) : start = head \o t
      BY ConcatProperties
    <2>4. start \o none = start
      BY <1>6, ConcatEmptySeq
    <2> QED BY <1>5, <2>1, <2>2, <2>3, <2>4 DEF Statement
  <1>11. PICK tuples : tuples = Mapped(InsertOf, exported)
    OBVIOUS
  <1>12. Batched(tuples, batch, none, out, 1, none)
    BY <1>6, <1>7, <1>11 DEF SoFar
  <1>13. Batched(Append(tuples, t), << >>, none, out \o Statement(one, none), 1, none)
    <2>1. Len(Append(batch, t)) >= 1 /\ 1 \in Nat \ {0}
      BY <1>8, <1>9
    <2> QED BY <1>8, <1>12, <2>1, BatchedFlush
  <1>14. Mapped(InsertOf, Append(exported, row)) = Append(tuples, t)
    BY <1>1, <1>11, TuplesGrow
  <1> QED BY <1>2, <1>5, <1>6, <1>10, <1>13, <1>14 DEF SoFar

\* A row of a script waits in the batch, or fills it and the batch is written.
LEMMA SoFarScript ==
  ASSUME NEW e, IsEncoder(e), KnownFormat(e.format), e.format.kind = "script",
         NEW out, NEW exported \in Seq(Seq(Cells)),
         NEW row \in Seq(Cells), SoFar(e, out, exported), WriteRow(e, row).ok
  PROVE  SoFar(WriteRow(e, row).encoder, out \o WriteRow(e, row).out,
               Append(exported, row))
  <1>1. PICK t \in Seq(Words) : t = ScriptTuple(row)
    BY RowTupleTypes
  <1>2. PICK w : w = WriteRow(e, row)
    OBVIOUS
  <1>3. w = WriteScriptRow(e, row)
    BY <1>2 DEF WriteRow
  <1>4. PICK header \in Seq(Words) : header = Opening(e)
    BY OpeningType
  <1>5. PICK clause \in Seq(Words) : clause = UpsertClause(e)
    BY ClauseType
  <1>6. PICK k \in Nat \ {0} : k = AtLeastOne(e.format.batchSize)
    BY FormatSizes
  <1>7. PICK tuples : tuples = Mapped(ScriptOf, exported)
    OBVIOUS
  <1>8. Batched(tuples, e.batch, header, out, k, clause)
    BY <1>4, <1>5, <1>6, <1>7 DEF SoFar
  <1>9. PICK batch \in Seq(Seq(Words)) : batch = e.batch
    BY <1>8 DEF Batched
  <1>10. PICK grown \in Seq(Seq(Words)) : grown = Append(batch, t)
    BY AppendProperties
  <1>11. PICK more : more = [e EXCEPT !.batch = grown]
    OBVIOUS
  <1>12. more.batch = grown /\ more.format = e.format /\ IsEncoder(more)
    BY <1>11 DEF IsEncoder
  <1>13. w = IF Len(more.batch) >= k THEN FlushBatch(more) ELSE Result(TRUE, << >>, more)
    BY <1>1, <1>3, <1>6, <1>9, <1>10, <1>11 DEF WriteScriptRow, ScriptTuple
  <1>14. Mapped(ScriptOf, Append(exported, row)) = Append(tuples, t)
    BY <1>1, <1>7, TuplesGrow
  <1>17. Len(grown) \in Nat
    OBVIOUS
  <1>15. CASE Len(grown) < k
    <2>1. w = Result(TRUE, << >>, more)
      <3>1. ~(Len(more.batch) >= k)
        BY <1>12, <1>15, <1>17
      <3> QED BY <1>13, <3>1
    <2>2. w.out = << >> /\ w.encoder = more
      BY <2>1 DEF Result
    <2>3. Batched(Append(tuples, t), grown, header, out, k, clause)
      BY <1>8, <1>9, <1>10, <1>15, BatchedKeep
    <2>4. out \o << >> = out
      <3>1. PICK q \in Nat, done \in Seq(Seq(Words)) :
              Len(done) = q * k /\ out = header \o Batches(done, k, clause)
        BY <1>8 DEF Batched
      <3>2. Batches(done, k, clause) \in Seq(Words)
        BY <3>1, BatchesType
      <3>3. out \in Seq(Words)
        BY <3>1, <3>2, ConcatProperties
      <3> QED BY <3>3, ConcatEmptySeq
    <2>5. Opening(more) = header /\ UpsertClause(more) = clause
      BY <1>4, <1>5, <1>12, OpeningOfFormat
    <2> QED BY <1>2, <1>6, <1>12, <1>14, <2>2, <2>3, <2>4, <2>5 DEF SoFar
  <1>16. CASE Len(grown) >= k
    <2>1. w = FlushBatch(more)
      BY <1>12, <1>13, <1>16
    <2>2. grown # << >>
      BY SMTT(30), <1>10
    <2>3. UpsertFits(more)
      <3>1. SUFFICES ASSUME ~UpsertFits(more) PROVE FALSE
        OBVIOUS
      <3>2. PICK out2 : FlushBatch(more) = Result(FALSE, out2, more)
        BY <1>12, <2>2, <3>1 DEF FlushBatch
      <3>3. w.ok = FALSE
        BY <2>1, <3>2 DEF Result
      <3> QED BY <1>2, <3>3
    <2>4. UpsertClause(more) = clause
      BY <1>5, <1>12, OpeningOfFormat
    <2>5. w = Result(TRUE, <<"INSERT">> \o Joined(grown, <<",">>) \o clause \o <<";">>,
                     [more EXCEPT !.batch = << >>])
      BY <1>12, <2>1, <2>2, <2>3, <2>4 DEF FlushBatch
    <2>6. w.out = Statement(grown, clause) /\ w.encoder = [more EXCEPT !.batch = << >>]
      BY <2>5 DEF Result, Statement
    <2>7. w.encoder.batch = << >> /\ w.encoder.format = e.format
      BY <1>12, <2>6 DEF IsEncoder
    <2>8. Batched(Append(tuples, t), << >>, header, out \o Statement(grown, clause), k,
                  clause)
      BY <1>8, <1>9, <1>10, <1>16, BatchedFlush
    <2>9. Opening(w.encoder) = header /\ UpsertClause(w.encoder) = clause
      BY <1>4, <1>5, <2>7, OpeningOfFormat
    <2> QED BY <1>2, <1>6, <1>14, <2>6, <2>7, <2>8, <2>9 DEF SoFar
  <1> QED BY <1>15, <1>16, <1>17

LEMMA AppendLen ==
  ASSUME NEW S, NEW s \in Seq(S), NEW x
  PROVE  Len(Append(s, x)) = Len(s) + 1 /\ Len(s) \in Nat
  OBVIOUS

\* A JSON row is an object and, behind the first, the comma in front of it.
LEMMA SoFarJson ==
  ASSUME NEW e, IsEncoder(e), KnownFormat(e.format), e.format.kind = "json", NEW out,
         NEW exported \in Seq(Seq(Cells)), NEW row \in Seq(Cells), SoFar(e, out, exported)
  PROVE  SoFar(WriteRow(e, row).encoder, out \o WriteRow(e, row).out,
               Append(exported, row))
  <1>1. PICK w : w = WriteRow(e, row)
    OBVIOUS
  <1>2. PICK comma : comma = IF e.first THEN << >> ELSE <<Mark(",")>>
    OBVIOUS
  <1>3. PICK object : object = <<RowObject(e, row)>>
    OBVIOUS
  <1>4. w.out = comma \o object /\ w.encoder = [e EXCEPT !.first = FALSE]
    BY <1>1, <1>2, <1>3 DEF WriteRow, WriteJsonRow, Result
  <1>5. w.encoder.format = e.format /\ w.encoder.first = FALSE
    BY <1>4 DEF IsEncoder
  <1>6. PICK n \in Nat : n = Len(exported)
    OBVIOUS
  <1>7. /\ IsList(out)
        /\ Len(out) = IF n = 0 THEN 1 ELSE 2 * n
        /\ e.first <=> n = 0
        /\ JsonSize(out, n) /\ JsonHolds(e.format, out, exported)
    BY <1>6 DEF SoFar, JsonSize
  <1>8. IsList(comma) /\ Len(comma) = IF n = 0 THEN 0 ELSE 1
    <2>1. CASE n = 0
      <3>1. comma = << >>
        <4>1. e.first
          BY <1>7, <2>1
        <4> QED BY <1>2, <4>1
      <3> QED BY <2>1, <3>1, ListOfNone
    <2>2. CASE n # 0
      <3>1. comma = <<Mark(",")>>
        <4>1. ~e.first
          BY <1>7, <2>2
        <4> QED BY <1>2, <4>1
      <3> QED BY <2>2, <3>1, ListOfOne
    <2> QED BY <2>1, <2>2
  <1>9. IsList(object) /\ Len(object) = 1
    BY <1>3, ListOfOne
  <1>10. IsList(comma \o object) /\ Len(comma \o object) = Len(comma) + 1
    BY <1>8, <1>9, ListsJoin
  <1>11. IsList(out \o w.out) /\ Len(out \o w.out) = Len(out) + (Len(comma) + 1)
    <2>1. PICK piece : piece = comma \o object
      OBVIOUS
    <2>2. IsList(piece) /\ IsList(out)
      BY <1>7, <1>10, <2>1
    <2>3. IsList(out \o piece) /\ Len(out \o piece) = Len(out) + Len(piece)
      BY <2>2, ListsJoin
    <2> QED BY <1>4, <1>10, <2>1, <2>3
  <1>12. Len(out \o w.out) = 2 * (n + 1)
    <2>1. CASE n = 0
      BY <1>7, <1>8, <1>11, <2>1
    <2>2. CASE n # 0
      BY <1>7, <1>8, <1>11, <2>2
    <2> QED BY <2>1, <2>2
  <1>13. Len(Append(exported, row)) = n + 1 /\ n + 1 # 0
    BY <1>6, AppendLen
  <1>14. w.out = JsonPiece(e, row, n)
    <2>1. comma = IF n = 0 THEN << >> ELSE <<Mark(",")>>
      BY <1>2, <1>7
    <2> QED BY <1>3, <1>4, <2>1 DEF JsonPiece
  <1>15. JsonHolds(e.format, out \o w.out, Append(exported, row))
    BY <1>6, <1>7, <1>14, JsonGrows
  <1>16. JsonSize(out \o w.out, n + 1)
    BY <1>11, <1>12 DEF JsonSize
  <1> QED BY <1>1, <1>5, <1>13, <1>15, <1>16 DEF SoFar

\* A line of NDJSON is an object and its end.
LEMMA SoFarNdjson ==
  ASSUME NEW e, KnownFormat(e.format), e.format.kind = "ndjson", NEW out,
         NEW exported \in Seq(Seq(Cells)), NEW row \in Seq(Cells), SoFar(e, out, exported)
  PROVE  SoFar(WriteRow(e, row).encoder, out \o WriteRow(e, row).out,
               Append(exported, row))
  <1>1. PICK w : w = WriteRow(e, row)
    OBVIOUS
  <1>2. w.out = <<RowObject(e, row), Mark("nl")>> /\ w.encoder = e
    BY <1>1 DEF WriteRow, WriteNdjsonRow, Result
  <1>3. PICK n \in Nat : n = Len(exported)
    OBVIOUS
  <1>4. IsList(out) /\ Len(out) = 2 * n /\ NdjsonHolds(e.format, out, exported)
    BY <1>3 DEF SoFar
  <1>5. IsList(w.out) /\ Len(w.out) = 2
    BY <1>2, ListOfTwo
  <1>6. IsList(out \o w.out) /\ Len(out \o w.out) = 2 * (n + 1)
    <2>1. IsList(out \o w.out) /\ Len(out \o w.out) = Len(out) + Len(w.out)
      BY <1>4, <1>5, ListsJoin
    <2> QED BY <1>4, <1>5, <2>1
  <1>7. Len(Append(exported, row)) = n + 1
    BY <1>3, AppendLen
  <1>8. NdjsonHolds(e.format, out \o w.out, Append(exported, row))
    BY <1>2, <1>3, <1>4, NdjsonGrows
  <1> QED BY <1>1, <1>2, <1>6, <1>7, <1>8 DEF SoFar

\* A record is its row.
LEMMA SoFarAvro ==
  ASSUME NEW e, IsEncoder(e), e.format.kind = "avro", NEW out,
         NEW exported \in Seq(Seq(Cells)), NEW row \in Seq(Cells),
         RowFits(row, e.format), SoFar(e, out, exported)
  PROVE  SoFar(WriteRow(e, row).encoder, out \o WriteRow(e, row).out,
               Append(exported, row))
  <1>1. PICK w : w = WriteRow(e, row)
    OBVIOUS
  <1>2. AvroRecord(e, row) = row
    <2>1. row = [i \in 1 .. Len(row) |-> row[i]]
      OBVIOUS
    <2>2. Len(row) = Len(e.format.columns)
      BY DEF RowFits
    <2> QED BY <2>1, <2>2 DEF AvroRecord
  <1>3. w.out = << >> /\ w.encoder = [e EXCEPT !.batch = Append(e.batch, row)]
    BY <1>1, <1>2 DEF WriteRow, Result
  <1>4. w.encoder.format = e.format /\ w.encoder.batch = Append(e.batch, row)
    BY <1>3 DEF IsEncoder
  <1>5. out = << >> /\ e.batch = exported
    BY DEF SoFar
  <1>6. out \o w.out = << >>
    BY <1>3, <1>5
  <1> QED BY <1>1, <1>4, <1>5, <1>6 DEF SoFar

\* The rows are kept.
LEMMA SoFarParquet ==
  ASSUME NEW e, IsEncoder(e), e.format.kind = "parquet", NEW out,
         NEW exported \in Seq(Seq(Cells)), NEW row, SoFar(e, out, exported)
  PROVE  SoFar(WriteRow(e, row).encoder, out \o WriteRow(e, row).out,
               Append(exported, row))
  <1>1. PICK w : w = WriteRow(e, row)
    OBVIOUS
  <1>2. w.out = << >> /\ w.encoder = [e EXCEPT !.batch = Append(e.batch, row)]
    BY <1>1 DEF WriteRow, Result
  <1>3. /\ w.encoder.format = e.format /\ w.encoder.batch = Append(e.batch, row)
        /\ w.encoder.open = e.open
    BY <1>2 DEF IsEncoder
  <1>4. out = << >> /\ e.batch = exported /\ e.open
    BY DEF SoFar
  <1>5. out \o w.out = << >>
    BY <1>2, <1>4
  <1> QED BY <1>1, <1>3, <1>4, <1>5 DEF SoFar

\* A line more is a record more, or none.
LEMMA SoFarDelimited ==
  ASSUME NEW e, KnownFormat(e.format), e.format.kind = "delimited", NEW out,
         NEW exported \in Seq(Seq(Cells)), NEW row \in Seq(Cells),
         SoFar(e, out, exported), WriteRow(e, row).ok
  PROVE  SoFar(WriteRow(e, row).encoder, out \o WriteRow(e, row).out,
               Append(exported, row))
  <1>1. PICK format : format = e.format
    OBVIOUS
  <1>2. PICK o : o = format.options
    OBVIOUS
  <1>3. ReadsBack(format, out, exported) /\ out \in Seq(Tokens) /\ IsReadable(o)
    BY <1>1, <1>2 DEF SoFar, ReadsBack
  <1>4. PICK texts \in Seq(Seq(Tokens)) : texts = FieldTexts(row, o)
    BY <1>3, FieldTextsType
  <1>5. WriteRow(e, row) = WriteFields(e, texts)
    BY <1>1, <1>2, <1>4 DEF WriteRow, WriteDelimitedRow, FieldTexts
  <1>6. /\ WriteRow(e, row).out = LineOf(texts, o) /\ WriteRow(e, row).encoder = e
        /\ \A i \in DOMAIN texts : FieldFits(texts[i], o)
    BY <1>1, <1>2, <1>5, WholeLine
  <1>7. PICK line \in Seq(Tokens) : line = LineOf(texts, o)
    BY <1>3, LineType
  <1>8. out \o line \in Seq(Tokens)
    BY <1>3, ConcatProperties
  <1>9. ASSUME Readable(format, Append(exported, row))
        PROVE  ReadFrom(EmptyReader, out \o line, o.delimiter, o.quote)
                 = Reader(Found(Append(exported, row), format), << >>, << >>, "start")
    <2>1. Readable(format, exported) /\ EndsInBreaks(o)
      BY <1>1, <1>2, <1>9 DEF Readable, EndsInBreaks
    <2>2. PICK found \in Seq(Seq(Seq(Tokens))) : found = Found(exported, format)
      BY <1>1, <1>2, <1>3, FoundType DEF KnownFormat
    <2>3. ReadFrom(EmptyReader, out, o.delimiter, o.quote)
            = Reader(found, << >>, << >>, "start")
      BY <1>2, <1>3, <2>1, <2>2 DEF ReadsBack
    <2>4. EmptyReader \in Readers
      BY EmptyReaderIs
    <2>5. ReadFrom(EmptyReader, out \o line, o.delimiter, o.quote)
            = ReadFrom(ReadFrom(EmptyReader, out, o.delimiter, o.quote), line,
                       o.delimiter, o.quote)
      BY <1>3, <2>4, ReadConcat
    <2>6. ReadFrom(Reader(found, << >>, << >>, "start"), line, o.delimiter, o.quote)
            = Reader(Recorded(found, texts, o), << >>, << >>, "start")
      BY <1>3, <1>6, <1>7, <2>1, LineIsRead
    <2>7. Found(Append(exported, row), format) = Recorded(found, texts, o)
      BY <1>1, <1>2, <1>3, <1>4, <2>2, FoundGrows DEF KnownFormat
    <2> QED BY <2>3, <2>5, <2>6, <2>7
  <1>10. ReadsBack(format, out \o line, Append(exported, row))
    BY <1>2, <1>3, <1>8, <1>9 DEF ReadsBack
  <1> QED BY <1>1, <1>6, <1>7, <1>10 DEF SoFar

\* A row that is taken, whatever the format.
LEMMA SoFarRow ==
  ASSUME NEW e, IsEncoder(e), KnownFormat(e.format), NEW out,
         NEW exported \in Seq(Seq(Cells)), NEW row \in Seq(Cells),
         RowFits(row, e.format), SoFar(e, out, exported),
         WriteRow(e, row).ok
  PROVE  SoFar(WriteRow(e, row).encoder, out \o WriteRow(e, row).out,
               Append(exported, row))
  <1>1. CASE e.format.kind = "delimited"
    BY <1>1, SoFarDelimited
  <1>2. CASE e.format.kind = "insert"
    BY <1>2, SoFarInsert
  <1>3. CASE e.format.kind = "script"
    BY <1>3, SoFarScript
  <1>4. CASE e.format.kind = "json"
    BY <1>4, SoFarJson
  <1>5. CASE e.format.kind = "ndjson"
    BY <1>5, SoFarNdjson
  <1>6. CASE e.format.kind = "avro"
    BY <1>6, SoFarAvro
  <1>7. CASE e.format.kind = "parquet"
    BY <1>7, SoFarParquet
  <1> QED BY <1>1, <1>2, <1>3, <1>4, <1>5, <1>6, <1>7 DEF KnownFormat

-----------------------------------------------------------------------------
(* The end of a file. *)

\* The end of a script writes the batch that is left.
LEMMA EndScript ==
  ASSUME NEW e, IsEncoder(e), KnownFormat(e.format), e.format.kind = "script",
         NEW out, NEW exported \in Seq(Seq(Cells)), SoFar(e, out, exported),
         FinishEncoder(e).ok
  PROVE  FileOf(FinishEncoder(e).encoder, out \o FinishEncoder(e).out, exported)
  <1>1. PICK w : w = FinishEncoder(e)
    OBVIOUS
  <1>2. w = FlushBatch(e)
    BY <1>1 DEF FinishEncoder
  <1>3. PICK header \in Seq(Words) : header = Opening(e)
    BY OpeningType
  <1>4. PICK clause \in Seq(Words) : clause = UpsertClause(e)
    BY ClauseType
  <1>5. PICK k \in Nat \ {0} : k = AtLeastOne(e.format.batchSize)
    BY FormatSizes
  <1>6. PICK tuples : tuples = Mapped(ScriptOf, exported)
    OBVIOUS
  <1>7. Batched(tuples, e.batch, header, out, k, clause)
    BY <1>3, <1>4, <1>5, <1>6 DEF SoFar
  <1>8. header \o Batches(tuples, k, clause)
          = IF e.batch = << >> THEN out ELSE out \o Statement(e.batch, clause)
    BY SMTT(30), <1>7, BatchedEnd
  <1>9. w.encoder.format = e.format
    BY <1>1, EndKeepsFormat
  <1>10. Opening(w.encoder) = header /\ UpsertClause(w.encoder) = clause
    BY <1>3, <1>4, <1>9, OpeningOfFormat
  <1>11. out \o w.out = header \o Batches(tuples, k, clause)
    <2>1. CASE e.batch = << >>
      <3>1. w.out = << >>
        BY <1>2, <2>1 DEF FlushBatch, Result
      <3>2. PICK q \in Nat, done \in Seq(Seq(Words)) :
              Len(done) = q * k /\ out = header \o Batches(done, k, clause)
        BY <1>7 DEF Batched
      <3>3. Batches(done, k, clause) \in Seq(Words)
        BY <3>2, BatchesType
      <3>4. out \in Seq(Words)
        BY <3>2, <3>3, ConcatProperties
      <3>5. out \o << >> = out
        BY <3>4, ConcatEmptySeq
      <3> QED BY <1>8, <2>1, <3>1, <3>5
    <2>2. CASE e.batch # << >>
      <3>1. UpsertFits(e)
        <4>1. SUFFICES ASSUME ~UpsertFits(e) PROVE FALSE
          OBVIOUS
        <4>2. PICK out2 : FlushBatch(e) = Result(FALSE, out2, e)
          BY <2>2, <4>1 DEF FlushBatch
        <4>3. w.ok = FALSE
          BY <1>2, <4>2 DEF Result
        <4> QED BY <1>1, <4>3
      <3>2. w = Result(TRUE, <<"INSERT">> \o Joined(e.batch, <<",">>) \o clause \o <<";">>,
                       [e EXCEPT !.batch = << >>])
        BY <1>2, <1>4, <2>2, <3>1 DEF FlushBatch
      <3>3. w.out = Statement(e.batch, clause)
        BY <3>2 DEF Result, Statement
      <3> QED BY <1>8, <2>2, <3>3
    <2> QED BY <2>1, <2>2
  <1> QED BY <1>1, <1>5, <1>6, <1>9, <1>10, <1>11 DEF FileOf

\* The end of a list of INSERTs writes nothing.
LEMMA EndInsert ==
  ASSUME NEW e, KnownFormat(e.format), e.format.kind = "insert",
         NEW out, NEW exported \in Seq(Seq(Cells)), SoFar(e, out, exported)
  PROVE  FileOf(FinishEncoder(e).encoder, out \o FinishEncoder(e).out, exported)
  <1>1. PICK w : w = FinishEncoder(e)
    OBVIOUS
  <1>2. w.out = << >> /\ w.encoder = e
    BY <1>1 DEF FinishEncoder, Result
  <1>3. PICK none \in Seq(Words) : none = << >>
    BY NoneOf
  <1>4. PICK tuples : tuples = Mapped(InsertOf, exported)
    OBVIOUS
  <1>5. Batched(tuples, << >>, none, out, 1, none)
    BY <1>3, <1>4 DEF SoFar
  <1>6. 1 \in Nat \ {0}
    OBVIOUS
  <1>7. none \o Batches(tuples, 1, none) = out
    BY <1>5, <1>6, BatchedEnd
  <1>8. PICK q \in Nat, done \in Seq(Seq(Words)) :
          Len(done) = q * 1 /\ tuples = done \o << >>
    BY <1>5 DEF Batched
  <1>9. tuples = done
    BY <1>8, ConcatEmptySeq
  <1>10. PICK body \in Seq(Words) : body = Batches(tuples, 1, none)
    BY <1>6, <1>8, <1>9, BatchesType
  <1>11. none \o body = body /\ body \o none = body
    BY <1>3, ConcatEmptySeq
  <1>12. out = body /\ out \o w.out = body
    BY <1>2, <1>3, <1>7, <1>10, <1>11
  <1> QED BY <1>1, <1>2, <1>3, <1>4, <1>10, <1>12 DEF FileOf

\* A column takes every cell it was chosen for, but for digits of an integer among
\* floats.
LEMMA ColumnKeeps ==
  ASSUME NEW n \in Nat, NEW cells \in [1 .. n -> Cells], NEW r \in 1 .. n
  PROVE  /\ \/ ParquetCell(cells[r], ParquetType(cells)).text = cells[r].text
            \/ LosesDigits(ParquetType(cells), cells[r])
         /\ ParquetCell(cells[r], ParquetType(cells)).type
              \in {"null", ParquetType(cells)}
         /\ ParquetCell(cells[r], ParquetType(cells)).type = "null"
              <=> cells[r].type = "null"
  <1>1. PICK cell \in Cells : cell = cells[r]
    OBVIOUS
  <1>2. PICK type : type = ParquetType(cells)
    OBVIOUS
  <1>3. \/ cell = Null
        \/ /\ cell = CellOf(cell.type, cell.text)
           /\ cell.type \in {"bool", "int", "float", "text"}
    BY DEF Cells, CellTypes, CellOf
  <1>4. CASE cell = Null
    <2>1. cell.type = "null" /\ cell.text = << >>
      BY <1>4 DEF Null, CellOf
    <2>2. ParquetCell(cell, type) = Null
      BY <2>1 DEF ParquetCell
    <2> QED BY <1>1, <1>2, <1>4, <2>1, <2>2
  <1>5. CASE /\ cell = CellOf(cell.type, cell.text)
             /\ cell.type \in {"bool", "int", "float", "text"}
    <2>1. cells[r].type = cell.type /\ DOMAIN cells = 1 .. n
      BY <1>1
    <2>2. \/ type = "text"
          \/ type = "float" /\ cell.type \in {"int", "float"}
          \/ type = cell.type /\ type \in {"int", "bool"}
      BY <1>2, <1>5, <2>1 DEF ParquetType
    <2>3. \/ ParquetCell(cell, type) = CellOf(type, cell.text)
          \/ /\ type = "float" /\ cell.type = "int"
             /\ ParquetCell(cell, type) = CellOf(type, AsDouble(cell.text))
      BY <1>5, <2>2 DEF ParquetCell
    <2>4. /\ \/ ParquetCell(cell, type).text = cell.text
             \/ LosesDigits(type, cell)
          /\ ParquetCell(cell, type).type = type
      BY <2>3 DEF CellOf, LosesDigits
    <2>5. type # "null" /\ cell.type # "null"
      BY <1>5, <2>2
    <2> QED BY <1>1, <1>2, <2>4, <2>5
  <1> QED BY <1>3, <1>4, <1>5

\* The end of a Parquet file writes the rows column by column.
LEMMA EndParquet ==
  ASSUME NEW e, IsEncoder(e), KnownFormat(e.format), e.format.kind = "parquet",
         NEW out, NEW exported \in Seq(Seq(Cells)), SoFar(e, out, exported),
         \A r \in DOMAIN exported : RowFits(exported[r], e.format)
  PROVE  FileOf(FinishEncoder(e).encoder, out \o FinishEncoder(e).out, exported)
  <1>1. PICK w : w = FinishEncoder(e)
    OBVIOUS
  <1>2. out = << >> /\ e.batch = exported /\ e.open
    BY DEF SoFar
  <1>3. PICK columns : columns = [i \in DOMAIN e.format.columns |-> ParquetColumn(exported, i)]
    OBVIOUS
  <1>4. w.out = <<columns>> /\ w.encoder = [e EXCEPT !.open = FALSE]
    BY <1>1, <1>2, <1>3 DEF FinishEncoder, FinishParquet, Result
  <1>5. w.encoder.format = e.format
    BY <1>4 DEF IsEncoder
  <1>6. out \o w.out = <<columns>>
    BY <1>2, <1>4
  <1>7. ASSUME NEW i \in DOMAIN e.format.columns
        PROVE  /\ Len(columns[i].cells) = Len(exported)
               /\ \A r \in 1 .. Len(exported) :
                    /\ \/ columns[i].cells[r].text = exported[r][i].text
                       \/ LosesDigits(columns[i].type, exported[r][i])
                    /\ columns[i].cells[r].type \in {"null", columns[i].type}
                    /\ columns[i].cells[r].type = "null" <=> exported[r][i].type = "null"
    <2>1. PICK n \in Nat : n = Len(exported) /\ DOMAIN exported = 1 .. n
      OBVIOUS
    <2>2. e.format.columns \in Seq(Seq(Tokens))
      BY DEF KnownFormat
    <2>3. ASSUME NEW r \in 1 .. n
          PROVE  i <= Len(exported[r]) /\ exported[r][i] \in Cells
      <3>1. PICK row \in Seq(Cells) : row = exported[r]
        BY <2>1
      <3>2. Len(row) = Len(e.format.columns)
        BY <2>1, <3>1 DEF RowFits
      <3>3. i \in 1 .. Len(row)
        BY <2>2, <3>2
      <3> QED BY <3>1, <3>3
    <2>4. PICK cells : cells = ColumnCells(exported, i)
      OBVIOUS
    <2>5. cells \in [1 .. n -> Cells] /\ \A r \in 1 .. n : cells[r] = exported[r][i]
      BY <2>1, <2>3, <2>4 DEF ColumnCells
    <2>6. PICK type : type = ParquetType(cells)
      OBVIOUS
    <2>7. columns[i] = [ type |-> type,
                         cells |-> [r \in 1 .. n |-> ParquetCell(cells[r], type)] ]
      <3>1. columns[i] = ParquetColumn(exported, i)
        BY <1>3
      <3>2. DOMAIN cells = 1 .. n
        BY <2>5
      <3> QED BY <2>4, <2>6, <3>1, <3>2 DEF ParquetColumn
    <2>8. /\ columns[i].type = type
          /\ columns[i].cells = [r \in 1 .. n |-> ParquetCell(cells[r], type)]
      BY <2>7
    <2>9. Len(columns[i].cells) = n
      BY <2>8
    <2>10. ASSUME NEW r \in 1 .. n
           PROVE  /\ \/ columns[i].cells[r].text = exported[r][i].text
                     \/ LosesDigits(columns[i].type, exported[r][i])
                  /\ columns[i].cells[r].type \in {"null", columns[i].type}
                  /\ columns[i].cells[r].type = "null" <=> exported[r][i].type = "null"
      <3>1. columns[i].cells[r] = ParquetCell(cells[r], type) /\ cells[r] = exported[r][i]
        BY <2>5, <2>8
      <3>2. /\ \/ ParquetCell(cells[r], type).text = cells[r].text
               \/ LosesDigits(type, cells[r])
            /\ ParquetCell(cells[r], type).type \in {"null", type}
            /\ ParquetCell(cells[r], type).type = "null" <=> cells[r].type = "null"
        BY <2>5, <2>6, ColumnKeeps
      <3> QED BY <2>8, <3>1, <3>2
    <2> QED BY <2>1, <2>9, <2>10
  <1>8. Len(<<columns>>) = 1 /\ <<columns>>[1] = columns
    OBVIOUS
  <1> QED BY <1>1, <1>5, <1>6, <1>7, <1>8 DEF FileOf

\* The bracket behind the objects leaves them where they are.
LEMMA DocumentCloses ==
  ASSUME NEW format, NEW exported \in Seq(Seq(Cells)), NEW n \in Nat, n = Len(exported),
         NEW out, IsList(out), Len(out) = IF n = 0 THEN 1 ELSE 2 * n,
         JsonHolds(format, out, exported),
         NEW end, IsList(end), Len(end) = 1, end[1] = Mark("]")
  PROVE  IsDocument(format, out \o end, exported)
  <1>1. PICK all : all = out \o end
    OBVIOUS
  <1>2. PICK k \in Nat : k = Len(out) /\ k = IF n = 0 THEN 1 ELSE 2 * n
    OBVIOUS
  <1>3. /\ \A i \in 1 .. Len(out) : (out \o end)[i] = out[i]
        /\ \A i \in 1 .. Len(end) : (out \o end)[Len(out) + i] = end[i]
    <2>1. IsList(out) /\ IsList(end)
      OBVIOUS
    <2> QED BY ONLY <2>1, ListsAt
  <1>4. IsList(out \o end) /\ Len(out \o end) = Len(out) + Len(end)
    BY ListsJoin
  <1>5. \A i \in 1 .. k : all[i] = out[i]
    BY <1>1, <1>2, <1>3
  <1>6. all[k + 1] = Mark("]")
    <2>1. 1 \in 1 .. Len(end)
      OBVIOUS
    <2>2. all[Len(out) + 1] = end[1]
      BY <1>1, <1>3, <2>1
    <2> QED BY <1>2, <2>2
  <1>7. IsList(all) /\ Len(all) = k + 1
    BY <1>1, <1>2, <1>4
  <1>8. all[1] = Mark("[")
    <2>1. 1 \in 1 .. k
      BY <1>2
    <2> QED BY <1>5, <2>1 DEF JsonHolds
  <1>9. ASSUME NEW r \in 2 .. n PROVE all[2 * r - 1] = Mark(",")
    <2>1. 2 * r - 1 \in 1 .. k
      BY <1>2
    <2> QED BY <1>5, <2>1 DEF JsonHolds
  <1>10. ASSUME Readable(format, exported), NEW r \in 1 .. n
         PROVE  all[2 * r] = Object(ObjectOf(format, exported[r]))
    <2>1. 2 * r \in 1 .. k
      BY <1>2
    <2>2. out[2 * r] = Object(ObjectOf(format, exported[r]))
      BY <1>10 DEF JsonHolds
    <2> QED BY <1>5, <2>1, <2>2
  <1>11. JsonHolds(format, all, exported)
    BY <1>8, <1>9, <1>10 DEF JsonHolds
  <1>12. Len(all) = IF n = 0 THEN 2 ELSE 2 * n + 1
    BY <1>2, <1>7
  <1> QED BY <1>1, <1>6, <1>7, <1>11, <1>12 DEF IsDocument

\* The end of the other formats.
LEMMA EndRest ==
  ASSUME NEW e, IsEncoder(e), KnownFormat(e.format),
         e.format.kind \in {"delimited", "json", "ndjson", "avro"},
         NEW out, NEW exported \in Seq(Seq(Cells)), SoFar(e, out, exported)
  PROVE  FileOf(FinishEncoder(e).encoder, out \o FinishEncoder(e).out, exported)
  <1>1. PICK w : w = FinishEncoder(e)
    OBVIOUS
  <1>2. w.encoder.format = e.format
    BY <1>1, EndKeepsFormat
  <1>3. PICK n \in Nat : n = Len(exported)
    OBVIOUS
  <1>4. CASE e.format.kind = "json"
    <2>1. w.out = <<Mark("]")>>
      BY <1>1, <1>4 DEF FinishEncoder, Result
    <2>2. IsList(w.out) /\ Len(w.out) = 1 /\ w.out[1] = Mark("]")
      BY <2>1, ListOfOne
    <2>3. /\ IsList(out) /\ Len(out) = IF n = 0 THEN 1 ELSE 2 * n
          /\ JsonHolds(e.format, out, exported)
      BY <1>3, <1>4 DEF SoFar, JsonSize
    <2>4. Len(out \o w.out) = Len(out) + 1
      BY <2>2, <2>3, ListsJoin
    <2>5. Len(out \o w.out) = IF n = 0 THEN 2 ELSE 2 * n + 1
      BY <2>3, <2>4
    <2>6. IsDocument(e.format, out \o w.out, exported)
      BY <1>3, <2>2, <2>3, <2>5, DocumentCloses
    <2> QED BY <1>1, <1>2, <1>4, <2>6 DEF FileOf
  <1>5. CASE e.format.kind = "ndjson"
    <2>1. w.out = << >>
      BY <1>1, <1>5 DEF FinishEncoder, Result
    <2>2. IsList(w.out) /\ Len(w.out) = 0
      BY <2>1, ListOfNone
    <2>3. IsList(out) /\ Len(out) = 2 * n /\ NdjsonHolds(e.format, out, exported)
      BY <1>3, <1>5 DEF SoFar
    <2>4. out \o w.out = out
      <3>1. PICK S : out \in Seq(S)
        BY <2>3 DEF IsList
      <3> QED BY <2>1, <3>1, ConcatEmptySeq
    <2> QED BY <1>1, <1>2, <1>3, <1>5, <2>3, <2>4 DEF FileOf
  <1>6. CASE e.format.kind = "avro"
    <2>1. w.out = e.batch
      BY <1>1, <1>6 DEF FinishEncoder, Result
    <2>2. out = << >> /\ e.batch = exported
      BY <1>6 DEF SoFar
    <2>3. out \o w.out = exported
      BY <2>1, <2>2, ConcatEmptySeq
    <2> QED BY <1>1, <1>2, <1>6, <2>3 DEF FileOf
  <1>7. CASE e.format.kind = "delimited"
    <2>1. w.out = << >>
      BY <1>1, <1>7 DEF FinishEncoder, Result
    <2>2. ReadsBack(e.format, out, exported) /\ out \in Seq(Tokens)
      BY <1>7 DEF SoFar, ReadsBack
    <2>3. out \o w.out = out
      BY <2>1, <2>2, ConcatEmptySeq
    <2> QED BY <1>1, <1>2, <1>7, <2>2, <2>3 DEF FileOf
  <1> QED BY <1>4, <1>5, <1>6, <1>7

\* The end that succeeds, whatever the format.
LEMMA EndOfFile ==
  ASSUME NEW e, IsEncoder(e), KnownFormat(e.format),
         NEW out, NEW exported \in Seq(Seq(Cells)), SoFar(e, out, exported),
         \A r \in DOMAIN exported : RowFits(exported[r], e.format),
         FinishEncoder(e).ok
  PROVE  FileOf(FinishEncoder(e).encoder, out \o FinishEncoder(e).out, exported)
  <1>1. CASE e.format.kind = "insert"
    BY <1>1, EndInsert
  <1>2. CASE e.format.kind = "script"
    BY <1>2, EndScript
  <1>3. CASE e.format.kind = "parquet"
    BY <1>3, EndParquet
  <1>4. CASE e.format.kind \in {"delimited", "json", "ndjson", "avro"}
    BY <1>4, EndRest
  <1> QED BY <1>1, <1>2, <1>3, <1>4 DEF KnownFormat

\* The rows taken so far, one of them after the other.
LEMMA ExportedType ==
  ASSUME NEW table \in Seq(Seq(Cells)), NEW n \in Nat, n <= Len(table)
  PROVE  /\ SubSeq(table, 1, n) \in Seq(Seq(Cells)) /\ Len(SubSeq(table, 1, n)) = n
         /\ \A r \in 1 .. n : SubSeq(table, 1, n)[r] = table[r]
  <1>1. \A i \in 1 .. n : table[i] \in Seq(Cells)
    OBVIOUS
  <1> QED BY <1>1, SubSeqProperties

\* The next row stands behind the ones before.
LEMMA ExportedGrows ==
  ASSUME NEW table \in Seq(Seq(Cells)), NEW n \in Nat, n < Len(table)
  PROVE  SubSeq(table, 1, n + 1) = Append(SubSeq(table, 1, n), table[n + 1])
  <1>1. PICK m \in Nat : m = n + 1
    OBVIOUS
  <1>2. PICK row \in Seq(Cells) : row = table[m]
    BY <1>1
  <1>0. n <= Len(table) /\ m <= Len(table)
    BY <1>1
  <1>3. PICK s \in Seq(Seq(Cells)) : s = SubSeq(table, 1, n)
    BY <1>0, ExportedType
  <1>4. Len(s) = n /\ \A r \in 1 .. n : s[r] = table[r]
    BY <1>0, <1>3, ExportedType
  <1>5. PICK t \in Seq(Seq(Cells)) : t = SubSeq(table, 1, m)
    BY <1>0, ExportedType
  <1>6. Len(t) = m /\ \A r \in 1 .. m : t[r] = table[r]
    BY <1>0, <1>5, ExportedType
  <1>7. PICK u \in Seq(Seq(Cells)) : u = Append(s, row)
    BY AppendProperties
  <1>8. Len(u) = m /\ u[m] = row /\ \A r \in 1 .. n : u[r] = s[r]
    BY <1>1, <1>4, <1>7
  <1>9. \A r \in 1 .. m : t[r] = u[r]
    <2>1. ASSUME NEW r \in 1 .. n PROVE t[r] = u[r]
      <3>1. r \in 1 .. m
        BY <1>1
      <3>2. u[r] = s[r] /\ s[r] = table[r] /\ t[r] = table[r]
        BY <1>4, <1>6, <1>8, <3>1
      <3> QED BY <3>2
    <2>2. t[m] = u[m]
      BY <1>1, <1>2, <1>6, <1>8
    <2> QED BY <1>1, <2>1, <2>2
  <1>10. t = u
    BY <1>6, <1>8, <1>9, SeqEqual
  <1> QED BY <1>1, <1>2, <1>3, <1>5, <1>7, <1>10

-----------------------------------------------------------------------------
(* The file, step by step. *)

\* A job that goes on has written what there is so far; one that is past the end, or over
\* without an error, the file.
Written ==
  /\ pc \in {"rows", "progress", "check", "finish"} => SoFar(encoder, output, Exported)
  /\ pc \in {"last", "outcome"} \/ Whole => FileOf(encoder, output, Exported)

\* What the course says of the rows taken so far.
LEMMA CourseFacts ==
  ASSUME OnCourse
  PROVE  /\ IsEncoder(encoder) /\ KnownFormat(encoder.format)
         /\ rows \in Seq(Seq(Cells)) /\ rowsWritten \in Nat /\ rowsWritten <= Len(rows)
         /\ Len(rows) \in Nat
         /\ \A r \in DOMAIN rows : RowFits(rows[r], encoder.format)
         /\ Exported \in Seq(Seq(Cells)) /\ Len(Exported) = rowsWritten
         /\ \A r \in 1 .. rowsWritten : Exported[r] = rows[r]
         /\ pc # "over" => ~Whole
  <1>1. /\ IsEncoder(encoder) /\ rowsWritten \in Nat /\ rowsWritten <= Len(rows)
        /\ Format \in Formats /\ rows \in Results(Format)
        /\ pc # "over" => job.status = "running"
    BY DEF OnCourse
  <1>2. /\ KnownFormat(encoder.format) /\ rows \in Seq(Seq(Cells)) /\ Len(rows) \in Nat
        /\ \A r \in DOMAIN rows : RowFits(rows[r], encoder.format)
    BY <1>1, RowsOfAFormat DEF Format
  <1>3. /\ Exported \in Seq(Seq(Cells)) /\ Len(Exported) = rowsWritten
        /\ \A r \in 1 .. rowsWritten : Exported[r] = rows[r]
    BY <1>1, <1>2, ExportedType DEF Exported
  <1>4. pc # "over" => ~Whole
    BY <1>1 DEF Whole
  <1> QED BY <1>1, <1>2, <1>3, <1>4

\* A job that starts has written what belongs in front of its rows.
LEMMA WrittenInit == Init => Written
  <1> SUFFICES ASSUME Init PROVE Written
    OBVIOUS
  <1>1. PICK format \in Formats :
          /\ rows \in Results(format)
          /\ encoder = NewEncoder(format).encoder
          /\ output = NewEncoder(format).out
          /\ pc = IF NewEncoder(format).ok THEN "rows" ELSE "over"
          /\ job.status = IF NewEncoder(format).ok THEN "running" ELSE "none"
          /\ rowsWritten = 0
    BY DEF Init
  <1>2. KnownFormat(format) /\ rows \in Seq(Seq(Cells))
    BY <1>1, RowsOfAFormat
  <1>3. Exported = << >>
    BY <1>1, <1>2 DEF Exported
  <1>4. ~Whole /\ pc \notin {"last", "outcome"}
    BY <1>1 DEF Whole
  <1>5. CASE NewEncoder(format).ok
    BY <1>1, <1>2, <1>3, <1>4, <1>5, SoFarNew DEF Written
  <1>6. CASE ~NewEncoder(format).ok
    BY <1>1, <1>4, <1>6 DEF Written
  <1> QED BY <1>5, <1>6

\* An error leaves no file to speak of.
LEMMA WrittenFails ==
  ASSUME JobFails, OnCourse
  PROVE  Written'
  <1>1. pc' = "over" /\ job'.status = "failed"
    BY DEF JobFails, OnCourse
  <1> QED BY <1>1 DEF Written, Whole

\* Every step that goes on keeps the file at what it is to be.
LEMMA WrittenNext ==
  ASSUME OnCourse, Written, [Next]_vars
  PROVE  Written'
  <1>1. CASE RequestCancel
    BY <1>1 DEF RequestCancel, Written, Exported, Whole
  <1>2. CASE ExportRow
    <2>1. PICK w : w = WriteRow(encoder, rows[rowsWritten + 1])
      OBVIOUS
    <2>2. /\ pc = "rows" /\ rowsWritten < Len(rows)
          /\ encoder' = w.encoder /\ output' = output \o w.out /\ UNCHANGED rows
      BY <1>2, <2>1 DEF ExportRow
    <2>3. CASE w.ok
      <3>1. /\ rowsWritten' = rowsWritten + 1 /\ pc' \in {"progress", "rows"}
            /\ UNCHANGED job
        BY <1>2, <2>1, <2>3 DEF ExportRow
      <3>2. PICK row \in Seq(Cells) : row = rows[rowsWritten + 1]
        BY <2>2, CourseFacts
      <3>3. RowFits(row, encoder.format)
        BY <2>2, <3>2, CourseFacts
      <3>4. Exported' = Append(Exported, row)
        BY <2>2, <3>1, <3>2, CourseFacts, ExportedGrows DEF Exported
      <3>5. SoFar(encoder, output, Exported) /\ ~Whole
        BY <2>2, CourseFacts DEF Written
      <3>6. SoFar(w.encoder, output \o w.out, Append(Exported, row))
        BY <2>1, <2>3, <3>2, <3>3, <3>5, CourseFacts, SoFarRow
      <3>7. SoFar(encoder', output', Exported')
        BY <2>2, <3>4, <3>6
      <3>8. ~Whole'
        BY <3>1, <3>5 DEF Whole
      <3> QED BY <3>1, <3>7, <3>8 DEF Written
    <2>4. CASE ~w.ok
      BY <1>2, <2>1, <2>4, WrittenFails DEF ExportRow
    <2> QED BY <2>3, <2>4
  <1>3. CASE RowsAreOver
    BY <1>3, CourseFacts DEF RowsAreOver, Written, Exported, Whole
  <1>4. ASSUME NEW ok \in BOOLEAN, ReportProgress(ok) PROVE Written'
    <2>1. CASE ok
      BY <1>4, <2>1, CourseFacts DEF ReportProgress, Written, Exported, Whole
    <2>2. CASE ~ok
      BY <1>4, <2>2, WrittenFails DEF ReportProgress
    <2> QED BY <2>1, <2>2
  <1>5. CASE CheckCancel
    <2>1. /\ pc = "check" /\ pc' \in {"finish", "rows"}
          /\ UNCHANGED <<rows, encoder, output, rowsWritten, job>>
      BY <1>5 DEF CheckCancel
    <2> QED BY <2>1, CourseFacts DEF Written, Exported, Whole
  <1>6. CASE Finish
    <2>1. PICK w : w = FinishEncoder(encoder)
      OBVIOUS
    <2>2. /\ pc = "finish" /\ encoder' = w.encoder /\ output' = output \o w.out
          /\ UNCHANGED <<rows, rowsWritten>>
      BY <1>6, <2>1 DEF Finish
    <2>3. CASE w.ok
      <3>1. pc' \in {"outcome", "last"} /\ UNCHANGED job
        BY <1>6, <2>1, <2>3 DEF Finish
      <3>2. SoFar(encoder, output, Exported)
        BY <2>2 DEF Written
      <3>3. \A r \in DOMAIN Exported : RowFits(Exported[r], encoder.format)
        <4>1. ASSUME NEW r \in DOMAIN Exported
              PROVE  RowFits(Exported[r], encoder.format)
          <5>1. r \in 1 .. rowsWritten /\ r \in DOMAIN rows
            BY CourseFacts
          <5> QED BY <5>1, CourseFacts
        <4> QED BY <4>1
      <3>4. FileOf(w.encoder, output \o w.out, Exported)
        BY <2>1, <2>3, <3>2, <3>3, CourseFacts, EndOfFile
      <3>5. Exported' = Exported
        BY <2>2 DEF Exported
      <3> QED BY <2>2, <3>1, <3>4, <3>5 DEF Written
    <2>4. CASE ~w.ok
      BY <1>6, <2>1, <2>4, WrittenFails DEF Finish
    <2> QED BY <2>3, <2>4
  <1>7. ASSUME NEW ok \in BOOLEAN, ReportLast(ok) PROVE Written'
    <2>1. CASE ok
      BY <1>7, <2>1 DEF ReportLast, Written, Exported, Whole
    <2>2. CASE ~ok
      BY <1>7, <2>2, WrittenFails DEF ReportLast
    <2> QED BY <2>1, <2>2
  <1>8. CASE Outcome
    BY <1>8 DEF Outcome, Written, Exported, Whole
  <1>9. CASE WriterFails
    BY <1>9, WrittenFails DEF WriterFails
  <1>10. CASE Preview
    BY <1>10 DEF Preview, Written, Exported, Whole
  <1>11. CASE UNCHANGED vars
    BY <1>11 DEF vars, Written, Exported, Whole
  <1> QED BY <1>1, <1>2, <1>3, <1>4, <1>5, <1>6, <1>7, <1>8, <1>9, <1>10, <1>11 DEF Next

\* The literals of the property, in these names.
LEMMA LiteralsOfRows ==
  ASSUME NEW exported \in Seq(Seq(Cells))
  PROVE  /\ Literals(InsertLiteral, exported) = Mapped(InsertOf, exported)
         /\ Literals(SqlLiteral, exported) = Mapped(ScriptOf, exported)
  BY DEF Literals, Mapped, InsertOf, ScriptOf, InsertTuple, ScriptTuple

\* The file is what the property says of it.
LEMMA FileIsWhole ==
  ASSUME OnCourse, Written
  PROVE  OutputIsTheRows
  <1> SUFFICES ASSUME Whole PROVE OutputIsTheRows
    BY DEF OutputIsTheRows
  <1>1. FileOf(encoder, output, Exported)
    BY DEF Written
  <1>2. job.status = "succeeded" => rowsWritten = Len(rows) /\ job.artifacts = {Len(rows)}
    BY DEF OnCourse
  <1>3. KnownFormat(encoder.format) /\ Len(Exported) = rowsWritten
        /\ \A r \in 1 .. rowsWritten : Exported[r] = rows[r]
    BY CourseFacts
  <1>4. CASE Format.kind = "insert"
    <2>1. output = Batches(Literals(InsertLiteral, Exported), 1, << >>)
      BY <1>1, <1>4, CourseFacts, LiteralsOfRows DEF FileOf, Format
    <2> QED BY <1>2, <1>4, <2>1 DEF OutputIsTheRows
  <1>5. CASE Format.kind = "script"
    <2>1. output = (IF Format.createTable = Absent THEN << >> ELSE CreateTable(encoder).out)
                     \o Batches(Literals(SqlLiteral, Exported),
                                AtLeastOne(Format.batchSize), UpsertClause(encoder))
      BY <1>1, <1>5, CourseFacts, LiteralsOfRows DEF FileOf, Format, Opening
    <2> QED BY <1>2, <1>5, <2>1 DEF OutputIsTheRows
  <1>6. CASE Format.kind = "avro"
    BY <1>1, <1>2, <1>6 DEF FileOf, Format, OutputIsTheRows
  <1>7. CASE Format.kind = "parquet"
    BY <1>1, <1>2, <1>3, <1>7 DEF FileOf, Format, OutputIsTheRows
  <1>8. CASE Format.kind = "json"
    <2>1. IsDocument(Format, output, Exported)
      BY <1>1, <1>8 DEF FileOf, Format
    <2>2. /\ Len(output) = IF rowsWritten = 0 THEN 2 ELSE 2 * rowsWritten + 1
          /\ output[1] = Mark("[") /\ output[Len(output)] = Mark("]")
          /\ \A r \in 2 .. rowsWritten : output[2 * r - 1] = Mark(",")
          /\ Readable(Format, Exported) =>
               \A r \in 1 .. rowsWritten : output[2 * r] = Object(ObjectOf(Format, rows[r]))
      BY <1>3, <2>1 DEF IsDocument, JsonHolds
    <2> QED BY <1>2, <1>8, <2>2 DEF OutputIsTheRows
  <1>9. CASE Format.kind = "ndjson"
    <2>1. Len(output) = 2 * Len(Exported) /\ NdjsonHolds(Format, output, Exported)
      BY <1>1, <1>9 DEF FileOf, Format
    <2>2. /\ Len(output) = 2 * rowsWritten
          /\ \A r \in 1 .. rowsWritten : output[2 * r] = Mark("nl")
          /\ Readable(Format, Exported) =>
               \A r \in 1 .. rowsWritten : output[2 * r - 1] = Object(ObjectOf(Format, rows[r]))
      BY <1>3, <2>1 DEF NdjsonHolds
    <2> QED BY <1>2, <1>9, <2>2 DEF OutputIsTheRows
  <1>10. CASE Format.kind = "delimited"
    BY <1>2, <1>10 DEF OutputIsTheRows
  <1> QED BY <1>3, <1>4, <1>5, <1>6, <1>7, <1>8, <1>9, <1>10 DEF KnownFormat, Format

\* A job that succeeded has written every row, one that was cancelled those it reports,
\* in order and to the end of the file.
THEOREM FilesAreTheRows == Spec => []OutputIsTheRows
  <1>1. Spec => []Written
    BY WrittenInit, WrittenNext, StaysOnCourse, PTL DEF Spec
  <1> QED BY <1>1, FileIsWhole, StaysOnCourse, PTL

-----------------------------------------------------------------------------
(* What a reader finds in documents and lines. *)

LEMMA ItemParts ==
  /\ \A x : Object(x).mark = "object" /\ Object(x).object = x
  /\ \A m : Mark(m).mark = m
  BY DEF Object, Mark

\* Every second item of a document is an object.
LEMMA DocumentIsRead ==
  ASSUME NEW format, NEW exported \in Seq(Seq(Cells)), Readable(format, exported),
         NEW out, IsDocument(format, out, exported)
  PROVE  PreviewJson(out, MaxRows) = PreviewJsonValues(ObjectsOf(format, exported), MaxRows)
  <1>1. PICK k \in Nat : k = Len(exported) /\ DOMAIN exported = 1 .. k
    OBVIOUS
  <1>2. PICK n \in Nat : n = Len(out) /\ n = IF k = 0 THEN 2 ELSE 2 * k + 1
    BY <1>1 DEF IsDocument
  <1>3. /\ out[1] = Mark("[") /\ out[n] = Mark("]")
        /\ \A r \in 2 .. k : out[2 * r - 1] = Mark(",")
        /\ \A r \in 1 .. k : out[2 * r] = Object(ObjectOf(format, exported[r]))
    BY <1>1, <1>2 DEF IsDocument, JsonHolds
  <1>4. n >= 2 /\ (n > 2 => n % 2 = 1) /\ (n - 1) \div 2 = k
    <2>1. CASE k = 0
      BY <1>2, <2>1
    <2>2. CASE k # 0
      <3>1. n = 2 * k + 1
        BY <1>2, <2>2
      <3> QED BY <2>2, <3>1
    <2> QED BY <2>1, <2>2
  <1>5. ASSUME NEW i \in 2 .. n - 1
        PROVE  out[i].mark = IF i % 2 = 0 THEN "object" ELSE ","
    <2>1. k # 0 /\ n = 2 * k + 1
      BY <1>2
    <2>2. CASE i % 2 = 0
      <3>1. PICK r \in 1 .. k : i = 2 * r
        <4>1. i = 2 * (i \div 2) /\ i \div 2 \in 1 .. k
          BY <2>1, <2>2
        <4> QED BY <4>1
      <3>2. out[i] = Object(ObjectOf(format, exported[r]))
        BY <1>3, <3>1
      <3> QED BY <2>2, <3>2, ItemParts
    <2>3. CASE i % 2 # 0
      <3>1. PICK r \in 2 .. k : i = 2 * r - 1
        <4>1. i = 2 * ((i \div 2) + 1) - 1 /\ (i \div 2) + 1 \in 2 .. k
          BY <2>1, <2>3
        <4> QED BY <4>1
      <3>2. out[i] = Mark(",")
        BY <1>3, <3>1
      <3> QED BY <2>3, <3>2, ItemParts
    <2> QED BY <2>2, <2>3
  <1>6. [i \in 1 .. k |-> out[2 * i].object] = ObjectsOf(format, exported)
    <2>1. ASSUME NEW r \in 1 .. k PROVE out[2 * r].object = ObjectOf(format, exported[r])
      BY <1>3, ItemParts
    <2> QED BY <1>1, <2>1 DEF ObjectsOf
  <1>7. [i \in 1 .. (n - 1) \div 2 |-> out[2 * i].object] = ObjectsOf(format, exported)
    BY <1>4, <1>6
  <1> QED BY <1>2, <1>3, <1>4, <1>5, <1>7 DEF PreviewJson

\* What is left of an item that is one of a line.
LineItem(item) == IF item.mark = "nl" THEN << >> ELSE <<item>>

\* Every line has its object.
LEMMA LinesAreRead ==
  ASSUME NEW format, NEW exported \in Seq(Seq(Cells)), Readable(format, exported),
         NEW out, IsList(out), NEW k \in Nat, k = Len(exported), Len(out) = 2 * k,
         NdjsonHolds(format, out, exported)
  PROVE  PreviewNdjson(out, MaxRows) = PreviewJsonValues(ObjectsOf(format, exported), MaxRows)
  <1>1. PICK S : out \in Seq(S)
    BY DEF IsList
  <1>2. PICK n \in Nat : n = 2 * k /\ DOMAIN out = 1 .. n /\ DOMAIN exported = 1 .. k
    <2>1. 2 * k \in Nat /\ DOMAIN out = 1 .. 2 * k /\ DOMAIN exported = 1 .. k
      BY <1>1
    <2> QED BY <2>1
  <1>3. ASSUME NEW r \in 1 .. k
        PROVE  /\ out[2 * r - 1] = Object(ObjectOf(format, exported[r]))
               /\ out[2 * r] = Mark("nl")
    BY DEF NdjsonHolds
  <1>4. PICK parts : parts = [i \in 1 .. n |-> LineItem(out[i])]
    OBVIOUS
  <1>5. parts \in Seq(Seq(S)) /\ Len(parts) = n
    <2>1. ASSUME NEW i \in 1 .. n PROVE LineItem(out[i]) \in Seq(S)
      <3>1. out[i] \in S
        BY <1>1, <1>2
      <3>2. <<out[i]>> \in Seq(S) /\ << >> \in Seq(S)
        BY <3>1, OneWord
      <3> QED BY <3>2 DEF LineItem
    <2>2. parts \in [1 .. n -> Seq(S)]
      BY <1>4, <2>1
    <2> QED BY <2>2, MapType
  <1>6. ASSUME NEW r \in 1 .. k
        PROVE  /\ parts[2 * r - 1] = <<Object(ObjectOf(format, exported[r]))>>
               /\ parts[2 * r] = << >>
    <2>1. 2 * r - 1 \in 1 .. n /\ 2 * r \in 1 .. n
      BY <1>2
    <2>2. parts[2 * r - 1] = LineItem(out[2 * r - 1]) /\ parts[2 * r] = LineItem(out[2 * r])
      BY <1>4, <2>1
    <2> QED BY <1>3, <2>2, ItemParts DEF LineItem
  <1>7. PICK flat : IsRunning(flat, parts, S) /\ FlattenSeq(parts) = flat[n]
    BY <1>5, Running
  <1>8. /\ flat \in [0 .. n -> Seq(S)] /\ flat[0] = << >>
        /\ \A i \in 1 .. n : flat[i] = flat[i - 1] \o parts[i]
    BY <1>5, <1>7 DEF IsRunning
  <1> DEFINE T == {m \in Nat : m <= k =>
                     /\ Len(flat[2 * m]) = m
                     /\ \A r \in 1 .. m : flat[2 * m][r] = Object(ObjectOf(format, exported[r]))}
  <1>9. 0 \in T
    BY <1>8
  <1>10. ASSUME NEW m \in Nat, m \in T PROVE m + 1 \in T
    <2> SUFFICES ASSUME m + 1 <= k
                 PROVE  /\ Len(flat[2 * (m + 1)]) = m + 1
                        /\ \A r \in 1 .. m + 1 :
                             flat[2 * (m + 1)][r] = Object(ObjectOf(format, exported[r]))
      OBVIOUS
    <2>1. /\ m + 1 \in 1 .. k /\ 2 * m \in 0 .. n /\ 2 * m + 1 \in 1 .. n
          /\ 2 * m + 2 \in 1 .. n /\ 2 * (m + 1) = 2 * m + 2
          /\ 2 * (m + 1) - 1 = 2 * m + 1 /\ (2 * m + 1) - 1 = 2 * m
          /\ (2 * m + 2) - 1 = 2 * m + 1
      BY <1>2
    <2>2. PICK before \in Seq(S) : before = flat[2 * m]
      BY <1>8, <2>1
    <2>3. /\ Len(before) = m
          /\ \A r \in 1 .. m : before[r] = Object(ObjectOf(format, exported[r]))
      <3>1. m <= k
        OBVIOUS
      <3> QED BY <1>10, <2>2, <3>1
    <2>4. PICK object : object = Object(ObjectOf(format, exported[m + 1]))
      OBVIOUS
    <2>5. parts[2 * m + 1] = <<object>> /\ parts[2 * m + 2] = << >>
      BY <1>6, <2>1, <2>4
    <2>6. object \in S
      <3>1. out[2 * m + 1] = object
        BY <1>3, <2>1, <2>4
      <3> QED BY <1>1, <1>2, <2>1, <3>1
    <2>7. flat[2 * m + 1] = before \o <<object>> /\ flat[2 * m + 1] \in Seq(S)
      <3>1. 2 * m + 1 \in 0 .. n
        BY <2>1
      <3> QED BY <1>8, <2>1, <2>2, <2>5, <3>1
    <2>8. flat[2 * m + 2] = flat[2 * m + 1]
      <3>1. flat[2 * m + 2] = flat[2 * m + 1] \o << >>
        BY <1>8, <2>1, <2>5
      <3> QED BY <2>7, <3>1, ConcatEmptySeq
    <2>9. flat[2 * m + 1] = Append(before, object)
      BY <2>6, <2>7, AppendIsConcat
    <2>10. PICK after \in Seq(S) : after = Append(before, object)
      BY <2>6, AppendProperties
    <2>11. /\ Len(after) = m + 1 /\ after[m + 1] = object
           /\ \A r \in 1 .. m : after[r] = before[r]
      BY <2>3, <2>6, <2>10
    <2>12. \A r \in 1 .. m + 1 : after[r] = Object(ObjectOf(format, exported[r]))
      <3>1. ASSUME NEW r \in 1 .. m + 1
            PROVE  after[r] = Object(ObjectOf(format, exported[r]))
        <4>1. CASE r = m + 1
          BY <2>4, <2>11, <4>1
        <4>2. CASE r # m + 1
          <5>1. r \in 1 .. m
            BY <4>2
          <5> QED BY <2>3, <2>11, <5>1
        <4> QED BY <4>1, <4>2
      <3> QED BY <3>1
    <2>13. flat[2 * (m + 1)] = after
      BY <2>1, <2>8, <2>9, <2>10
    <2> QED BY <2>11, <2>12, <2>13
  <1>11. k \in T
    <2> HIDE DEF T
    <2> QED BY <1>9, <1>10, Induction
  <1>12. PICK lines \in Seq(S) : lines = FlattenSeq(parts)
    BY <1>5, FlattenType
  <1>13. /\ Len(lines) = k
         /\ \A r \in 1 .. k : lines[r] = Object(ObjectOf(format, exported[r]))
    <2>1. lines = flat[2 * k]
      BY <1>2, <1>7, <1>12
    <2> QED BY <1>11, <2>1
  <1>14. [i \in DOMAIN lines |-> lines[i].object] = ObjectsOf(format, exported)
    <2>1. DOMAIN lines = 1 .. k
      BY <1>13
    <2>2. ASSUME NEW r \in 1 .. k PROVE lines[r].object = ObjectOf(format, exported[r])
      BY <1>13, ItemParts
    <2> QED BY <1>2, <2>1, <2>2 DEF ObjectsOf
  <1>15. lines = FlattenSeq([i \in DOMAIN out |->
                   IF out[i].mark = "nl" THEN << >> ELSE <<out[i]>>])
    <2>1. parts = [i \in DOMAIN out |-> IF out[i].mark = "nl" THEN << >> ELSE <<out[i]>>]
      BY <1>2, <1>4 DEF LineItem
    <2> QED BY <1>12, <2>1
  <1> QED BY <1>14, <1>15 DEF PreviewNdjson

-----------------------------------------------------------------------------
(* The preview, step by step. *)

\* There is a preview only of a file that is over, and as its format is read.
Previewed ==
  preview # Absent =>
    /\ pc = "over"
    /\ \/ /\ Format.kind = "delimited"
          /\ preview = PreviewDelimited(output, ReadOptions(Format.options))
       \/ Format.kind = "json" /\ preview = PreviewJson(output, MaxRows)
       \/ Format.kind = "ndjson" /\ preview = PreviewNdjson(output, MaxRows)

LEMMA PreviewedInit == Init => Previewed
  BY DEF Init, Previewed

LEMMA PreviewedNext ==
  ASSUME Previewed, [Next]_vars
  PROVE  Previewed'
  <1>1. CASE Preview
    <2>1. pc' = "over" /\ encoder' = encoder /\ output' = output
      BY <1>1 DEF Preview
    <2>2. \/ /\ Format.kind = "delimited"
             /\ preview' = PreviewDelimited(output, ReadOptions(Format.options))
          \/ Format.kind = "json" /\ preview' = PreviewJson(output, MaxRows)
          \/ Format.kind = "ndjson" /\ preview' = PreviewNdjson(output, MaxRows)
      BY <1>1 DEF Preview, ReadOptions
    <2> QED BY <2>1, <2>2 DEF Previewed, Format
  <1>2. CASE ~Preview /\ preview = Absent
    <2>1. preview' = Absent
      BY <1>2 DEF Next, RequestCancel, ExportRow, RowsAreOver, ReportProgress, CheckCancel,
                  Finish, ReportLast, Outcome, WriterFails, vars
    <2> QED BY <2>1 DEF Previewed
  <1>3. CASE ~Preview /\ preview # Absent
    <2>1. pc = "over"
      BY <1>3 DEF Previewed
    <2>2. UNCHANGED vars
      BY <1>3, <2>1 DEF Next, RequestCancel, ExportRow, RowsAreOver, ReportProgress,
                        CheckCancel, Finish, ReportLast, Outcome, WriterFails
    <2> QED BY <2>2 DEF Previewed, Format, vars
  <1> QED BY <1>1, <1>2, <1>3

\* What is shown of a file are the rows that are in it.
LEMMA PreviewShows ==
  ASSUME OnCourse, Written, Previewed, Whole, preview # Absent, Readable(Format, rows)
  PROVE  Shows(preview, Format, KeptRows(Exported, Format))
  <1>1. PICK format : format = Format /\ format = encoder.format
    BY DEF Format
  <1>2. KnownFormat(format) /\ FileOf(encoder, output, Exported)
    BY <1>1, CourseFacts DEF Written
  <1>3. PICK exported \in Seq(Seq(Cells)) : exported = Exported
    BY CourseFacts
  <1>4. Readable(format, exported)
    <2>1. \A r \in DOMAIN exported : r \in DOMAIN rows /\ exported[r] = rows[r]
      <3>1. rows \in Seq(Seq(Cells)) /\ DOMAIN exported = 1 .. rowsWritten
            /\ rowsWritten \in Nat /\ rowsWritten <= Len(rows)
        BY <1>3, CourseFacts
      <3>2. \A r \in 1 .. rowsWritten : r \in DOMAIN rows
        BY <3>1
      <3> QED BY <1>3, <3>1, <3>2, CourseFacts
    <2> QED BY <1>1, <2>1 DEF Readable
  <1>5. CASE format.kind = "delimited"
    <2>1. ReadsBack(format, output, exported)
      BY <1>1, <1>2, <1>3, <1>5 DEF FileOf
    <2>2. preview = PreviewDelimited(output, ReadOptions(format.options))
      BY <1>1, <1>5 DEF Previewed
    <2> QED BY <1>1, <1>2, <1>3, <1>4, <1>5, <2>1, <2>2, DelimitedShows
  <1>6. CASE format.kind = "json"
    <2>1. IsDocument(format, output, exported)
      BY <1>1, <1>2, <1>3, <1>6 DEF FileOf
    <2>2. preview = PreviewJson(output, MaxRows)
      BY <1>1, <1>6 DEF Previewed
    <2>3. preview = PreviewJsonValues(ObjectsOf(format, exported), MaxRows)
      BY <1>4, <2>1, <2>2, DocumentIsRead
    <2>4. format.kind # "delimited"
      BY <1>6
    <2> QED BY <1>1, <1>2, <1>3, <1>4, <2>3, <2>4, JsonShows
  <1>7. CASE format.kind = "ndjson"
    <2>1. /\ IsList(output) /\ Len(output) = 2 * Len(exported)
          /\ NdjsonHolds(format, output, exported)
      BY <1>1, <1>2, <1>3, <1>7 DEF FileOf
    <2>2. preview = PreviewNdjson(output, MaxRows)
      BY <1>1, <1>7 DEF Previewed
    <2>3. preview = PreviewJsonValues(ObjectsOf(format, exported), MaxRows)
      <3>1. Len(exported) \in Nat
        OBVIOUS
      <3> QED BY <1>4, <2>1, <2>2, <3>1, LinesAreRead
    <2>4. format.kind # "delimited"
      BY <1>7
    <2> QED BY <1>1, <1>2, <1>3, <1>4, <2>3, <2>4, JsonShows
  <1> QED BY <1>1, <1>5, <1>6, <1>7 DEF Previewed

LEMMA ShownIsReadBack ==
  ASSUME OnCourse, Written, Previewed
  PROVE  PreviewReadsBack
  <1> SUFFICES ASSUME Whole, preview # Absent, Readable(Format, rows)
               PROVE  PreviewReadsBack
    BY DEF PreviewReadsBack
  <1>1. Shows(preview, Format, KeptRows(Exported, Format))
    BY PreviewShows
  <1>2. \A cell : ReadAs(cell) = ReadBackAs(cell, Format)
    BY DEF ReadAs, ReadBackAs
  <1> QED BY <1>1, <1>2, Zenon DEF PreviewReadsBack, Shows

\* Whoever previews a whole file that can be read sees the rows that were exported:
\* fields, quotes and line breaks, objects and lines come back as what they were.
THEOREM PreviewsReadBack == Spec => []PreviewReadsBack
  <1>1. Spec => []Written
    BY WrittenInit, WrittenNext, StaysOnCourse, PTL DEF Spec
  <1>2. Spec => []Previewed
    BY PreviewedInit, PreviewedNext, PTL DEF Spec
  <1> QED BY <1>1, <1>2, ShownIsReadBack, StaysOnCourse, PTL

-----------------------------------------------------------------------------
(* Statements for an imported file. *)

\* What is left of a text without the blanks around it.
LEMMA TrimType ==
  ASSUME NEW text \in Seq(Tokens)
  PROVE  Trim(text) \in Seq(Tokens)
  <1>1. PICK n \in Nat : n = Len(text) /\ DOMAIN text = 1 .. n
    OBVIOUS
  <1>2. PICK solid : solid = {i \in DOMAIN text : text[i] \notin White}
    OBVIOUS
  <1>3. CASE solid = {}
    BY <1>2, <1>3 DEF Trim
  <1>4. CASE solid # {}
    <2>1. solid \in SUBSET (1 .. n)
      BY <1>1, <1>2
    <2>2. Min(solid) \in solid /\ Max(solid) \in solid
      BY <1>4, <2>1, MinIsThere, MaxIsThere
    <2>3. PICK a \in 1 .. n, b \in 1 .. n : a = Min(solid) /\ b = Max(solid)
      BY <2>1, <2>2
    <2>4. \A i \in a .. b : text[i] \in Tokens
      BY <1>1
    <2>5. SubSeq(text, a, b) \in Seq(Tokens)
      BY <2>4, SubSeqProperties
    <2> QED BY <1>2, <1>4, <2>3, <2>5 DEF Trim
  <1> QED BY <1>3, <1>4


\* The words behind the keyword.
Plain == Tokens \cup {"(", ")", ",", "'", ";", "NULL"}

LEMMA PlainAre ==
  /\ "(" \in Plain /\ ")" \in Plain /\ "," \in Plain /\ "'" \in Plain
  /\ ";" \in Plain /\ "NULL" \in Plain /\ "INSERT" \notin Plain
  BY ExportAssumption DEF Plain

LEMMA ImportLiteralType ==
  ASSUME NEW value \in Seq(Tokens)
  PROVE  ImportLiteral(value) \in Seq(Plain)
  <1>1. PICK trimmed \in Seq(Tokens) : trimmed = Trim(value)
    BY TrimType
  <1>2. trimmed \in Seq(Plain)
    BY SeqMonotonic DEF Plain
  <1>3. <<"NULL">> \in Seq(Plain)
    BY PlainAre, OneWord
  <1>4. SqlText(trimmed) \in Seq(Plain)
    BY <1>2, PlainAre, QuotedOver
  <1> QED BY <1>1, <1>2, <1>3, <1>4 DEF ImportLiteral

\* What stands behind the keyword of a row.
Behind(row) ==
  Tuple([i \in DOMAIN row |-> ImportLiteral(row[i])]) \o <<";">>

LEMMA BehindType ==
  ASSUME NEW row \in Seq(Seq(Tokens))
  PROVE  /\ Behind(row) \in Seq(Plain)
         /\ Tuple([i \in DOMAIN row |-> ImportLiteral(row[i])]) \in Seq(Plain)
  <1>1. PICK n \in Nat : n = Len(row) /\ DOMAIN row = 1 .. n
    OBVIOUS
  <1>2. PICK literals : literals = [i \in DOMAIN row |-> ImportLiteral(row[i])]
    OBVIOUS
  <1>3. \A i \in 1 .. n : row[i] \in Seq(Tokens)
    BY <1>1
  <1>4. literals \in [1 .. n -> Seq(Plain)]
    BY <1>1, <1>2, <1>3, ImportLiteralType
  <1>5. literals \in Seq(Seq(Plain))
    BY <1>4, MapType
  <1>6. PICK tuple \in Seq(Plain) : tuple = Tuple(literals)
    BY <1>5, PlainAre, TupleOver
  <1>7. <<";">> \in Seq(Plain)
    BY PlainAre, OneWord
  <1>8. tuple \o <<";">> \in Seq(Plain)
    BY <1>7, ConcatProperties
  <1> QED BY <1>2, <1>6, <1>8 DEF Behind

\* The places of a word.
PlacesOf(s, x) == {i \in DOMAIN s : s[i] = x}

LEMMA PlacesGrow ==
  ASSUME NEW W, NEW x \in W, NEW a \in Seq(W), NEW rest \in Seq(W),
         \A i \in 1 .. Len(rest) : rest[i] # x,
         NEW n \in Nat, IsFiniteSet(PlacesOf(a, x)), Cardinality(PlacesOf(a, x)) = n
  PROVE  LET all == a \o (<<x>> \o rest) IN
         IsFiniteSet(PlacesOf(all, x)) /\ Cardinality(PlacesOf(all, x)) = n + 1
  <1>1. PICK word \in Seq(W) : word = <<x>> /\ Len(word) = 1 /\ word[1] = x
    <2>1. <<x>> \in Seq(W) /\ Len(<<x>>) = 1 /\ <<x>>[1] = x
      BY OneWord
    <2> QED BY <2>1
  <1>2. PICK more \in Seq(W) : more = word \o rest
    BY ConcatProperties
  <1>3. PICK all \in Seq(W) : all = a \o more
    BY ConcatProperties
  <1>4. PICK k \in Nat, m \in Nat : k = Len(a) /\ m = Len(rest)
    OBVIOUS
  <1>5. /\ Len(more) = m + 1 /\ more[1] = x
        /\ \A i \in 2 .. m + 1 : more[i] # x
    <2>1. Len(more) = 1 + m /\ \A i \in 1 .. 1 + m :
            more[i] = IF i <= 1 THEN word[i] ELSE rest[i - 1]
      BY <1>1, <1>2, <1>4, ConcatProperties
    <2>2. ASSUME NEW i \in 2 .. m + 1 PROVE more[i] # x
      <3>1. i - 1 \in 1 .. m /\ i \in 1 .. 1 + m /\ ~(i <= 1)
        OBVIOUS
      <3> QED BY <1>4, <2>1, <3>1
    <2> QED BY <1>1, <2>1, <2>2
  <1>6. Len(all) = k + (m + 1) /\ \A i \in 1 .. k + (m + 1) :
          all[i] = IF i <= k THEN a[i] ELSE more[i - k]
    <2>1. Len(all) = Len(a) + Len(more) /\ \A i \in 1 .. Len(a) + Len(more) :
            all[i] = IF i <= Len(a) THEN a[i] ELSE more[i - Len(a)]
      BY <1>3, ConcatProperties
    <2> QED BY <1>4, <1>5, <2>1
  <1>7. PlacesOf(all, x) = PlacesOf(a, x) \cup {k + 1}
    <2>1. DOMAIN all = 1 .. k + (m + 1) /\ DOMAIN a = 1 .. k
      BY <1>4, <1>6
    <2>2. ASSUME NEW i \in 1 .. k PROVE i \in DOMAIN all /\ all[i] = a[i]
      BY <1>6, <2>1
    <2>3. k + 1 \in DOMAIN all /\ all[k + 1] = x
      BY <1>5, <1>6, <2>1
    <2>4. ASSUME NEW i \in k + 2 .. k + (m + 1) PROVE all[i] # x
      <3>1. i - k \in 2 .. m + 1 /\ ~(i <= k) /\ i \in 1 .. k + (m + 1)
        OBVIOUS
      <3> QED BY <1>5, <1>6, <3>1
    <2>5. \A i \in 1 .. k + (m + 1) : i \in 1 .. k \/ i = k + 1 \/ i \in k + 2 .. k + (m + 1)
      OBVIOUS
    <2> QED BY <2>1, <2>2, <2>3, <2>4, <2>5 DEF PlacesOf
  <1>8. k + 1 \notin PlacesOf(a, x)
    BY <1>4 DEF PlacesOf
  <1>9. IsFiniteSet(PlacesOf(all, x)) /\ Cardinality(PlacesOf(all, x)) = n + 1
    <2>1. PICK places, more1 : places = PlacesOf(a, x) /\ more1 = places \cup {k + 1}
      OBVIOUS
    <2>2. IsFiniteSet(places) /\ Cardinality(places) = n /\ k + 1 \notin places
      BY <1>8, <2>1
    <2>3. IsFiniteSet(more1) /\ Cardinality(more1) = n + 1
      BY ONLY <2>1, <2>2, FS_AddElement, n \in Nat
    <2> QED BY <1>7, <2>1, <2>3
  <1> QED BY <1>1, <1>2, <1>3, <1>9

\* A part has the word in front, and nowhere else.
HasInFront(part, x, W) ==
  \E rest \in Seq(W) : part = <<x>> \o rest /\ \A i \in 1 .. Len(rest) : rest[i] # x

LEMMA OneForEach ==
  ASSUME NEW W, NEW x \in W, NEW parts \in Seq(Seq(W)),
         \A r \in 1 .. Len(parts) : HasInFront(parts[r], x, W)
  PROVE  Cardinality(PlacesOf(FlattenSeq(parts), x)) = Len(parts)
  <1>1. PICK n \in Nat : n = Len(parts)
    OBVIOUS
  <1>2. PICK flat : IsRunning(flat, parts, W) /\ FlattenSeq(parts) = flat[n]
    BY <1>1, Running
  <1>3. /\ flat \in [0 .. n -> Seq(W)] /\ flat[0] = << >>
        /\ \A i \in 1 .. n : flat[i] = flat[i - 1] \o parts[i]
    BY <1>1, <1>2 DEF IsRunning
  <1> DEFINE T == {m \in Nat : m <= n => /\ IsFiniteSet(PlacesOf(flat[m], x))
                                         /\ Cardinality(PlacesOf(flat[m], x)) = m}
  <1>4. 0 \in T
    <2>1. PlacesOf(flat[0], x) = {}
      BY <1>3 DEF PlacesOf
    <2> QED BY <2>1, FS_EmptySet
  <1>5. ASSUME NEW m \in Nat, m \in T PROVE m + 1 \in T
    <2> SUFFICES ASSUME m + 1 <= n
                 PROVE  /\ IsFiniteSet(PlacesOf(flat[m + 1], x))
                        /\ Cardinality(PlacesOf(flat[m + 1], x)) = m + 1
      OBVIOUS
    <2>1. m \in 0 .. n /\ m + 1 \in 1 .. n /\ (m + 1) - 1 = m /\ m <= n
      OBVIOUS
    <2>2. PICK a \in Seq(W) : a = flat[m]
      BY <1>3, <2>1
    <2>3. IsFiniteSet(PlacesOf(a, x)) /\ Cardinality(PlacesOf(a, x)) = m
      BY <1>5, <2>1, <2>2
    <2>4. PICK rest \in Seq(W) : /\ parts[m + 1] = <<x>> \o rest
                                 /\ \A i \in 1 .. Len(rest) : rest[i] # x
      BY <1>1, <2>1 DEF HasInFront
    <2>5. flat[m + 1] = a \o (<<x>> \o rest)
      BY <1>3, <2>1, <2>2, <2>4
    <2>6. PICK all : all = a \o (<<x>> \o rest)
      OBVIOUS
    <2>7. IsFiniteSet(PlacesOf(all, x)) /\ Cardinality(PlacesOf(all, x)) = m + 1
      BY <2>3, <2>4, <2>6, PlacesGrow
    <2> QED BY <2>5, <2>6, <2>7
  <1>6. n \in T
    <2> HIDE DEF T
    <2> QED BY <1>4, <1>5, Induction
  <1> QED BY <1>1, <1>2, <1>6

\* A statement for each row.
LEMMA InsertsAreRows ==
  ASSUME NEW tokens, NEW d, NEW header,
         NEW table \in Seq(Seq(Seq(Tokens))), table = ImportRecords(tokens, d, header)
  PROVE  Cardinality(PlacesOf(GenerateInserts(tokens, d, header), "INSERT")) = Len(table)
  <1>1. PICK W : W = Plain \cup {"INSERT"}
    OBVIOUS
  <1>2. PICK n \in Nat : n = Len(table) /\ DOMAIN table = 1 .. n
    OBVIOUS
  <1>3. PICK parts : parts = [r \in DOMAIN table |->
          <<"INSERT">> \o Tuple([i \in DOMAIN table[r] |-> ImportLiteral(table[r][i])])
            \o <<";">>]
    OBVIOUS
  <1>4. ASSUME NEW r \in 1 .. n
        PROVE  parts[r] \in Seq(W) /\ HasInFront(parts[r], "INSERT", W)
    <2>1. PICK row \in Seq(Seq(Tokens)) : row = table[r]
      BY <1>2
    <2>2. PICK tuple \in Seq(Plain) :
            tuple = Tuple([i \in DOMAIN row |-> ImportLiteral(row[i])])
      BY BehindType
    <2>3. PICK behind \in Seq(Plain) : behind = Behind(row)
      BY BehindType
    <2>4. PICK end \in Seq(Plain) : end = <<";">>
      BY PlainAre, OneWord
    <2>5. PICK word \in Seq(W) : word = <<"INSERT">>
      BY <1>1, OneWord
    <2>6. tuple \in Seq(W) /\ end \in Seq(W) /\ behind \in Seq(W)
      BY <1>1, SeqMonotonic
    <2>7. behind = tuple \o end
      BY <2>2, <2>3, <2>4 DEF Behind
    <2>8. parts[r] = (word \o tuple) \o end
      BY <1>2, <1>3, <2>1, <2>2, <2>4, <2>5
    <2>9. parts[r] = word \o behind
      <3>1. PICK t \in Seq(W), e \in Seq(W) : t = tuple /\ e = end
        BY <2>6
      <3>2. (word \o t) \o e = word \o (t \o e)
        BY ONLY SMTT(30), word \in Seq(W), t \in Seq(W), e \in Seq(W), ConcatAssociative
      <3> QED BY <2>7, <2>8, <3>1, <3>2
    <2>10. \A i \in 1 .. Len(behind) : behind[i] # "INSERT"
      <3>1. \A i \in 1 .. Len(behind) : behind[i] \in Plain
        OBVIOUS
      <3> QED BY <3>1, PlainAre
    <2>11. parts[r] \in Seq(W)
      BY <2>6, <2>9, ConcatProperties
    <2> QED BY <2>5, <2>6, <2>9, <2>10, <2>11 DEF HasInFront
  <1>5. parts \in Seq(Seq(W)) /\ Len(parts) = n
    <2>1. parts \in [1 .. n -> Seq(W)]
      BY <1>2, <1>3, <1>4
    <2> QED BY <2>1, MapType
  <1>6. Cardinality(PlacesOf(FlattenSeq(parts), "INSERT")) = n
    <2>1. "INSERT" \in W
      BY <1>1
    <2> QED BY <1>4, <1>5, <2>1, OneForEach
  <1>7. GenerateInserts(tokens, d, header) = FlattenSeq(parts)
    BY <1>3 DEF GenerateInserts
  <1> QED BY <1>2, <1>6, <1>7

\* A literal of a column's type.
FitsType(type, literal) ==
  \/ type = "text" \/ literal = <<"NULL">>
  \/ type = "bool" /\ literal \in {<<"true">>, <<"false">>}
  \/ type = "int" /\ IsInt(literal)
  \/ type = "float" /\ IsFloat(literal)

LEMMA LiteralFits ==
  ASSUME NEW value, NEW values, Trim(value) # << >> => Trim(value) \in values
  PROVE  FitsType(TypeOf(values), ImportLiteral(value))
  <1>1. PICK trimmed : trimmed = Trim(value)
    OBVIOUS
  <1>2. CASE trimmed = << >> \/ trimmed = <<"NULL">>
    BY <1>1, <1>2 DEF ImportLiteral, FitsType
  <1>3. CASE ~(trimmed = << >> \/ trimmed = <<"NULL">>)
    <2>1. trimmed \in values
      BY <1>1, <1>3
    <2>2. CASE values \subseteq {<<"true">>, <<"false">>}
      <3>1. ImportLiteral(value) = trimmed /\ TypeOf(values) = "bool"
        BY <1>1, <1>3, <2>1, <2>2 DEF ImportLiteral, TypeOf
      <3> QED BY <2>1, <2>2, <3>1 DEF FitsType
    <2>3. CASE ~(values \subseteq {<<"true">>, <<"false">>}) /\ \A v \in values : IsInt(v)
      <3>1. IsInt(trimmed) /\ IsFloat(trimmed)
        BY <2>1, <2>3 DEF IsFloat
      <3>2. ImportLiteral(value) = trimmed /\ TypeOf(values) = "int"
        BY <1>1, <1>3, <2>1, <2>3, <3>1 DEF ImportLiteral, TypeOf
      <3> QED BY <3>1, <3>2 DEF FitsType
    <2>4. CASE /\ ~(values \subseteq {<<"true">>, <<"false">>})
               /\ ~\A v \in values : IsInt(v)
               /\ \A v \in values : IsFloat(v)
      <3>1. IsFloat(trimmed)
        BY <2>1, <2>4
      <3>2. ImportLiteral(value) = trimmed /\ TypeOf(values) = "float"
        BY <1>1, <1>3, <2>1, <2>4, <3>1 DEF ImportLiteral, TypeOf
      <3> QED BY <3>1, <3>2 DEF FitsType
    <2>5. CASE /\ ~(values \subseteq {<<"true">>, <<"false">>})
               /\ ~\A v \in values : IsInt(v)
               /\ ~\A v \in values : IsFloat(v)
      BY <2>1, <2>5 DEF TypeOf, FitsType
    <2> QED BY <2>2, <2>3, <2>4, <2>5
  <1> QED BY <1>2, <1>3

\* What is imported of a file whose records are of one length.
LEMMA SampleFits ==
  ASSUME NEW tokens, NEW d, NEW header,
         NEW records \in Seq(Seq(Seq(Tokens))), records = ReadRecords(tokens, d, "q"),
         SameLength(records),
         NEW sample, sample = FirstRows(ImportRecords(tokens, d, header), SampleRows),
         NEW r \in DOMAIN sample, NEW i \in DOMAIN sample[r]
  PROVE  FitsType(InferCsvSchema(tokens, d, header, SampleRows)[i],
                  ImportLiteral(sample[r][i]))
  <1>1. PICK table \in Seq(Seq(Seq(Tokens))) : table = ImportRecords(tokens, d, header)
    <2>1. records # << >> => Tail(records) \in Seq(Seq(Seq(Tokens)))
      OBVIOUS
    <2> QED BY <2>1 DEF ImportRecords
  <1>2. SampleRows \in Nat
    BY ExportAssumption
  <1>3. r \in DOMAIN table /\ sample[r] = table[r]
    BY <1>1, <1>2, FirstRowsAre
  <1>4. PICK k \in DOMAIN records : records[k] = table[r]
    <2>1. CASE header /\ records # << >>
      <3>1. table = Tail(records)
        BY <1>1, <2>1 DEF ImportRecords
      <3>2. r + 1 \in DOMAIN records /\ records[r + 1] = Tail(records)[r]
        BY <1>3, <2>1, <3>1
      <3> QED BY <3>1, <3>2
    <2>2. CASE ~(header /\ records # << >>)
      BY <1>1, <1>3, <2>2 DEF ImportRecords
    <2> QED BY <2>1, <2>2
  <1>5. records # << >> /\ DOMAIN sample[r] = DOMAIN records[1]
    <2>1. records # << >> /\ 1 \in DOMAIN records
      BY <1>4
    <2>2. Len(records[k]) = Len(records[1])
      BY <1>4 DEF SameLength
    <2>3. records[k] \in Seq(Seq(Tokens)) /\ records[1] \in Seq(Seq(Tokens))
      BY <1>4, <2>1
    <2> QED BY <1>3, <1>4, <2>1, <2>2, <2>3
  <1>6. PICK values : values = {Trim(sample[n][i]) : n \in DOMAIN sample} \ {<< >>}
    OBVIOUS
  <1>7. InferCsvSchema(tokens, d, header, SampleRows)[i] = TypeOf(values)
    BY <1>5, <1>6 DEF InferCsvSchema
  <1>8. Trim(sample[r][i]) # << >> => Trim(sample[r][i]) \in values
    BY <1>6
  <1> QED BY <1>7, <1>8, LiteralFits

LEMMA ShownIsImported ==
  ASSUME OnCourse, Written, Previewed
  PROVE  InsertsFitTheSchema
  <1> SUFFICES ASSUME Whole, Format.kind = "delimited", Format.options.quote = "q",
                      preview # Absent
               PROVE  InsertsFitTheSchema
    BY DEF InsertsFitTheSchema
  <1>1. PICK o : o = Format.options /\ o = encoder.format.options
    BY DEF Format
  <1>2. output \in Seq(Tokens)
    BY DEF Written, FileOf, ReadsBack, Format
  <1>3. PICK d, header : d = o.delimiter /\ header = o.includeHeader
    OBVIOUS
  <1>4. PICK records \in Seq(Seq(Seq(Tokens))) : records = ReadRecords(output, d, "q")
    BY <1>2, RecordsType
  <1>5. PICK table \in Seq(Seq(Seq(Tokens))) : table = ImportRecords(output, d, header)
    <2>1. records # << >> => Tail(records) \in Seq(Seq(Seq(Tokens)))
      OBVIOUS
    <2> QED BY <1>4, <2>1 DEF ImportRecords
  <1>6. SameLength(records) /\ preview.totalRowsSeen = Len(table)
    <2>1. preview = PreviewDelimited(output, ReadOptions(o))
      BY <1>1 DEF Previewed
    <2>2. PICK opts : opts = ReadOptions(o)
      OBVIOUS
    <2>3. opts.delimiter = d /\ opts.quote = "q" /\ opts.hasHeader = header
      BY <1>1, <1>3, <2>2 DEF ReadOptions
    <2>4. preview = PreviewDelimited(output, opts)
      BY <2>1, <2>2
    <2>5. SameLength(records)
      BY <1>4, <2>3, <2>4 DEF PreviewDelimited
    <2>6. (IF header /\ records # << >> THEN Tail(records) ELSE records) = table
      BY <1>4, <1>5 DEF ImportRecords
    <2>7. PICK headers, cells :
            preview = BuildPreview(headers, cells, Len(table), opts.maxRows)
      BY <1>4, <2>3, <2>4, <2>5, <2>6 DEF PreviewDelimited
    <2> QED BY <2>5, <2>7 DEF BuildPreview
  <1>7. Cardinality(PlacesOf(GenerateInserts(output, d, header), "INSERT")) = Len(table)
    BY <1>5, InsertsAreRows
  <1>8. PICK inserts : inserts = GenerateInserts(output, d, header)
    OBVIOUS
  <1>9. Cardinality({i \in DOMAIN inserts : inserts[i] = "INSERT"}) = preview.totalRowsSeen
    BY <1>6, <1>7, <1>8 DEF PlacesOf
  <1>10. PICK schema, sample : /\ schema = InferCsvSchema(output, d, header, SampleRows)
                               /\ sample = FirstRows(ImportRecords(output, d, header), SampleRows)
    OBVIOUS
  <1>11. ASSUME NEW r \in DOMAIN sample, NEW i \in DOMAIN sample[r]
         PROVE  FitsType(schema[i], ImportLiteral(sample[r][i]))
    BY <1>4, <1>6, <1>10, SampleFits
  <1>12. \A r \in DOMAIN sample : \A i \in DOMAIN sample[r] :
           FitsType(schema[i], ImportLiteral(sample[r][i]))
    BY <1>11
  <1>13. d = Format.options.delimiter /\ header = Format.options.includeHeader
    BY <1>1, <1>3
  <1> QED BY <1>8, <1>9, <1>10, <1>12, <1>13 DEF InsertsFitTheSchema, FitsType

\* The table that is made of an exported file takes its rows: a statement for each, with
\* literals of the types that were inferred from the same rows.
THEOREM ImportsFitTheSchema == Spec => []InsertsFitTheSchema
  <1>1. Spec => []Written
    BY WrittenInit, WrittenNext, StaysOnCourse, PTL DEF Spec
  <1>2. Spec => []Previewed
    BY PreviewedInit, PreviewedNext, PTL DEF Spec
  <1> QED BY <1>1, <1>2, ShownIsImported, StaysOnCourse, PTL
=============================================================================
