---------------------------- MODULE MCExportJob ----------------------------
(***************************************************************************)
(* Instances of ExportJob for TLC: every format with the options that      *)
(* change what is written, tables of one and two columns, texts made of    *)
(* whatever a format gives a meaning to, and results up to a row more than *)
(* the batch, the progress interval and the preview hold.                  *)
(***************************************************************************)
EXTENDS ExportJob

MCTokens == {" ", "'", ",", ".", "0", "1", "2", "2^53", "2^53+1", "NULL", "NaN",
             "a", "b", "cr", "nl", "q", "tab", "text", "true"}

Text(text) == CellOf("text", text)
One   == CellOf("int", <<"1">>)
Large == CellOf("int", <<"2^53+1">>)
Half  == CellOf("float", <<"0", ".", "2">>)
NaN   == CellOf("float", <<"NaN">>)
True  == CellOf("bool", <<"true">>)

PlainCells == {Null, One, Large, Half, NaN, True, Text(<<"a">>)}
TextCells  == {Text(t) : t \in { << >>, <<",">>, <<"q">>, <<"a", "q", "nl">>,
                                 <<"cr">>, <<"'", "a">>, <<" ", "1">>,
                                 <<"1">>, <<"NULL">>, <<"tab">> }}
MCCells    == PlainCells \cup TextCells

Lists(cells, n) == UNION {[1 .. k -> {<<c>> : c \in cells}] : k \in 0 .. n}
Wide(cells, n)  == UNION {[1 .. k -> cells \X cells] : k \in 0 .. n}

MCResults(format) ==
  IF Len(format.columns) = 1
  THEN Lists(MCCells, 2) \cup Lists({Null, One, Text(<<"a", "q", "nl">>)}, 3)
         \cup {[i \in 1 .. 5 |-> <<One>>]}
  ELSE Wide({Null, Half, Text(<<",">>), Text(<< >>)}, 1)
         \cup Wide({One, Text(<<"q">>)}, 2)

Narrow  == <<<<"a">>>>
Columns == {Narrow, <<<<"a", ",", "q">>, <<"b">>>>}

Options(delimiter, quote, header, null, ending, style) ==
  [ delimiter |-> delimiter, quote |-> quote, includeHeader |-> header,
    nullValue |-> null, lineEnding |-> ending, quoteStyle |-> style ]

Delimited(columns, options) ==
  [kind |-> "delimited", columns |-> columns, options |-> options]

DelimitedFormats ==
  { Delimited(columns, Options(",", "q", header, << >>, ending, style)) :
      columns \in Columns, header \in BOOLEAN, ending \in {<<"nl">>, <<"cr", "nl">>},
      style \in {"necessary", "always", "never"} }
  \cup { Delimited(columns, Options("tab", quote, TRUE, null, <<"nl">>, "necessary")) :
           columns \in Columns, quote \in {"q", "'", "tab"},
           null \in {<<"NULL">>, <<"tab">>} }

Mode(kind, conflict, update) ==
  [kind |-> kind, conflict |-> conflict, update |-> update]
Script(columns, size, mode, schema) ==
  [ kind |-> "script", columns |-> columns, batchSize |-> size, mode |-> mode,
    createTable |-> schema ]
ColumnSpec(name, nullable) ==
  [name |-> name, sqlType |-> "text", nullable |-> nullable]

ScriptFormats ==
  {Script(Narrow, size, Mode("insert", << >>, << >>), schema) :
     size \in 0 .. 2,
     schema \in {Absent, << >>, <<ColumnSpec(<<"a">>, FALSE), ColumnSpec(<<"b">>, TRUE)>>}}
  \cup {Script(columns, 2, Mode("upsert", conflict, update), Absent) :
          columns \in Columns, conflict \in {<< >>, <<<<"a">>>>, <<<<"b">>>>},
          update \in {<< >>, <<<<"b">>>>}}

Other(kind) == {[kind |-> kind, columns |-> columns] :
                  columns \in Columns \cup {<<<<"a">>, <<"a">>>>}}

MCFormats ==
  DelimitedFormats \cup ScriptFormats
    \cup UNION {Other(kind) : kind \in {"insert", "json", "ndjson"}}
    \cup {[kind |-> kind, columns |-> columns] :
            kind \in {"avro", "parquet"}, columns \in {Narrow, <<<<"a">>, <<"b">>>>}}
    \cup Other("avro")
=============================================================================
