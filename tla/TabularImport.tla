--------------------------- MODULE TabularImport ---------------------------
(***************************************************************************)
(* Previews of files that are to be imported                               *)
(* (irodori-io/src/tabular/import.rs), of the tokens and items of          *)
(* TabularOutput.  Numbers and names are made of few tokens, of which some *)
(* are several digits.                                                     *)
(***************************************************************************)
EXTENDS TabularOutput

White    == {" ", "nl", "cr", "tab"}
Digits   == {"0", "1", "2", "2^53", "2^53+1"}
NameOnly == {"a", "b", "true", "false", "NaN", "column"} \cup Digits

Trim(text) ==
  LET solid == {i \in DOMAIN text : text[i] \notin White} IN
  IF solid = {} THEN << >> ELSE SubSeq(text, Min(solid), Max(solid))

IsInt(text)   == text # << >> /\ \A i \in DOMAIN text : text[i] \in Digits
IsFloat(text) == \/ text = <<"NaN">>
                 \/ IsInt(text)
                 \/ /\ \A i \in DOMAIN text : text[i] \in Digits \cup {"."}
                    /\ Cardinality({i \in DOMAIN text : text[i] = "."}) = 1
                    /\ Len(text) > 1

-----------------------------------------------------------------------------
(* The reader of the csv crate, which is not in this repository, as it is  *)
(* configured here: a line without a byte is skipped, a record of another  *)
(* length is an error.                                                     *)

EmptyReader == [records |-> << >>, fields |-> << >>, field |-> << >>,
                mode |-> "start"]

EndField(r)  == [r EXCEPT !.fields = Append(@, r.field), !.field = << >>,
                          !.mode = "field"]
EndRecord(r) == [EmptyReader EXCEPT
                   !.records = Append(r.records, Append(r.fields, r.field))]

ReadToken(r, token, delimiter, quote) ==
  CASE r.mode = "quoted" ->
         IF token = quote THEN [r EXCEPT !.mode = "after"]
         ELSE [r EXCEPT !.field = Append(@, token)]
    [] r.mode = "after" /\ token = quote ->
         [r EXCEPT !.field = Append(@, token), !.mode = "quoted"]
    [] r.mode = "start" /\ token \in LineBreaks -> r
    [] r.mode # "quoted" /\ ~(r.mode = "start" /\ token \in LineBreaks)
         /\ ~(r.mode = "after" /\ token = quote) ->
         IF token = delimiter THEN EndField(r)
         ELSE IF token \in LineBreaks THEN EndRecord(r)
         ELSE IF token = quote /\ r.mode \in {"start", "field"}
              THEN [r EXCEPT !.mode = "quoted"]
         ELSE [r EXCEPT !.field = Append(@, token), !.mode = "plain"]

ReadRecords(tokens, delimiter, quote) ==
  LET end == FoldLeft(LAMBDA r, token : ReadToken(r, token, delimiter, quote),
                      EmptyReader, tokens)
  IN  IF end.mode = "start" THEN end.records ELSE EndRecord(end).records

SameLength(records) ==
  \A i \in DOMAIN records : Len(records[i]) = Len(records[1])

-----------------------------------------------------------------------------
(* Types of cells and of columns. *)

InferDelimitedCell(value, nullValues) ==
  LET trimmed == Trim(value) IN
  IF value \in nullValues THEN Null
  ELSE IF trimmed \in {<<"true">>, <<"false">>} THEN CellOf("bool", trimmed)
  ELSE IF IsInt(trimmed) THEN CellOf("int", trimmed)
  ELSE IF IsFloat(trimmed) THEN CellOf("float", trimmed)
  ELSE CellOf("text", value)

MergeTypes(left, right) ==
  IF left = "null" THEN right
  ELSE IF right = "null" \/ left = right THEN left
  ELSE IF {left, right} = {"int", "float"} THEN "float"
  ELSE "text"

InferColumnType(cells) ==
  FoldLeft(LAMBDA type, cell : MergeTypes(type, cell.type), "null", cells)

\* Characters that are no part of a name become "_", never two in a row and
\* none at either end.
SanitizeColumnName(value, index) ==
  LET Step(out, token) ==
        IF token = "_" \/ token \in NameOnly THEN Append(out, token)
        ELSE IF out # << >> /\ Last(out) = "_" THEN out
        ELSE Append(out, "_")
      raw   == FoldLeft(Step, << >>, Trim(value))
      solid == {i \in DOMAIN raw : raw[i] # "_"}
      out   == IF solid = {} THEN << >> ELSE SubSeq(raw, Min(solid), Max(solid))
  IN  IF out = << >> THEN <<"column", "_", ToString(index)>>
      ELSE IF Head(out) \in Digits THEN <<"column", "_">> \o out ELSE out

-----------------------------------------------------------------------------
(* Previews; Absent is an error. *)

BuildPreview(headers, rows, totalRowsSeen, maxRows) ==
  [ columns |-> [i \in DOMAIN headers |->
                   [ sourceName   |-> headers[i],
                     targetName   |-> SanitizeColumnName(headers[i], i),
                     inferredType |->
                       InferColumnType([r \in DOMAIN rows |-> rows[r][i]]) ]],
    rows          |-> rows,
    totalRowsSeen |-> totalRowsSeen,
    truncated     |-> totalRowsSeen > maxRows ]

FirstRows(rows, maxRows) == SubSeq(rows, 1, IF Len(rows) < maxRows
                                            THEN Len(rows) ELSE maxRows)

PreviewDelimited(tokens, o) ==
  LET records == ReadRecords(tokens, o.delimiter, o.quote)
      named   == o.hasHeader /\ records # << >>
      data    == IF named THEN Tail(records) ELSE records
      width   == IF records = << >> THEN 0 ELSE Len(records[1])
      headers == IF o.hasHeader THEN (IF named THEN records[1] ELSE << >>)
                 ELSE [i \in 1 .. width |-> <<"column", "_", ToString(i)>>]
      rows    == [r \in DOMAIN data |->
                    [i \in 1 .. width |->
                       InferDelimitedCell(data[r][i], o.nullValues)]]
  IN  IF ~SameLength(records) THEN Absent
      ELSE BuildPreview(headers, FirstRows(rows, o.maxRows), Len(data), o.maxRows)

\* The keys of an object that are not among the headers.
NewKeys(headers, object) ==
  headers \o FlattenSeq([i \in DOMAIN object |->
               IF Contains(headers, object[i].name) THEN << >>
               ELSE <<object[i].name>>])

\* A key that a row does not have is null in it.
ValueOf(object, name) ==
  LET at == {i \in DOMAIN object : object[i].name = name} IN
  IF at = {} THEN Null ELSE object[Min(at)].value

PreviewJsonValues(objects, maxRows) ==
  LET shown   == FirstRows(objects, maxRows)
      headers == FoldLeft(NewKeys, << >>, shown)
  IN  BuildPreview(headers,
                   [r \in DOMAIN shown |->
                      [i \in DOMAIN headers |-> ValueOf(shown[r], headers[i])]],
                   Len(objects), maxRows)

\* serde_json's reading of a whole document: an array of objects.
PreviewJson(items, maxRows) ==
  LET n == Len(items) IN
  IF /\ n >= 2 /\ items[1] = Mark("[") /\ items[n] = Mark("]")
     /\ n > 2 => n % 2 = 1
     /\ \A i \in 2 .. n - 1 : items[i].mark = IF i % 2 = 0 THEN "object" ELSE ","
  THEN PreviewJsonValues([i \in 1 .. (n - 1) \div 2 |-> items[2 * i].object],
                         maxRows)
  ELSE Absent

\* Line by line, empty lines left out.
PreviewNdjson(items, maxRows) ==
  LET lines == FlattenSeq([i \in DOMAIN items |->
                 IF items[i].mark = "nl" THEN << >> ELSE <<items[i]>>]) IN
  PreviewJsonValues([i \in DOMAIN lines |-> lines[i].object], maxRows)

-----------------------------------------------------------------------------
(* A delimited file, of records of one length, as a table: its schema and  *)
(* its rows as statements.                                                  *)

ImportRecords(tokens, delimiter, hasHeader) ==
  LET records == ReadRecords(tokens, delimiter, "q") IN
  IF hasHeader /\ records # << >> THEN Tail(records) ELSE records

\* The type of a column with these values.  Slip: one value is enough.
TypeOfAny(values) ==
  IF values \cap {<<"true">>, <<"false">>} # {} THEN "bool"
  ELSE IF \E v \in values : IsInt(v) THEN "int"
  ELSE IF \E v \in values : IsFloat(v) THEN "float" ELSE "text"
TypeOf(values) ==
  IF values = {} THEN "text"
  ELSE IF values \subseteq {<<"true">>, <<"false">>} THEN "bool"
  ELSE IF \A v \in values : IsInt(v) THEN "int"
  ELSE IF \A v \in values : IsFloat(v) THEN "float" ELSE "text"

\* infer_csv_schema: the types of the columns by their first rows.
InferCsvSchema(tokens, delimiter, hasHeader, sample) ==
  LET records == ReadRecords(tokens, delimiter, "q")
      rows    == FirstRows(ImportRecords(tokens, delimiter, hasHeader), sample)
  IN  IF records = << >> THEN << >>
      ELSE [i \in DOMAIN records[1] |->
              TypeOf({Trim(rows[r][i]) : r \in DOMAIN rows} \ {<< >>})]

\* generate_inserts_from_csv: one statement for each row.
ImportLiteral(value) ==
  LET trimmed == Trim(value) IN
  IF trimmed = << >> \/ trimmed = <<"NULL">> THEN <<"NULL">>
  ELSE IF trimmed \in {<<"true">>, <<"false">>} \/ IsFloat(trimmed) THEN trimmed
  ELSE SqlText(trimmed)

GenerateInserts(tokens, delimiter, hasHeader) ==
  LET rows == ImportRecords(tokens, delimiter, hasHeader) IN
  FlattenSeq([r \in DOMAIN rows |->
    <<"INSERT">> \o Tuple([i \in DOMAIN rows[r] |-> ImportLiteral(rows[r][i])])
      \o <<";">>])
=============================================================================
