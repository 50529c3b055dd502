----------------------------- MODULE MCConnector -----------------------------
(***************************************************************************)
(* Sources for TLC: the connector of synthetic.py with its two parsers,    *)
(* and a later one whose rows parser forgets the stamp of records inside   *)
(* entities: it gets tables without rows, and documents, through.          *)
(***************************************************************************)
EXTENDS Connector

CONSTANTS fixtures, feeds

Known == [kind \in RecordKind |-> "1.0"]
Forgetful == [Known EXCEPT !["Column"] = "0.9"]

MCParsers == [s \in Source |->
    IF s = fixtures THEN [rows |-> Known, prose |-> Known]
                    ELSE [rows |-> Forgetful, prose |-> Known]]

MCPart == {"warehouse", "parts", "v2", "overview", "rows", "prose"}
Plain == {<<"warehouse">>}
PlainTables == {<<"parts">>, <<"parts", "v2">>}

\* No rows, a row of one column, and a second row that has one more.
MCRows == {<<>>, <<{"weight"}>>, <<{"lenght"}, {"lenght", "weight"}>>}

OwnRef == [s \in Source |-> IF s = fixtures THEN "synthetic://fixtures" ELSE "rest://feeds"]

\* One table each, and a document; the other table may come.
OneTable == [s \in Source |-> [x \in Thing |->
    IF x \in Table /\ x.table # <<"parts">> THEN Absent
    ELSE IF x \in Table THEN <<{"weight"}>> ELSE <<>>]]
==============================================================================
