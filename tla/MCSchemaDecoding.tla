-------------------------- MODULE MCSchemaDecoding ---------------------------
(* SchemaDecoding for TLC: schemas whose imports form a diamond and a circle or *)
(* need two versions, records with every header there is and some malformed.    *)
EXTENDS SchemaDecoding

\* 1 imports 2 and 3, which both import 4; 5 and 6 import each other; 7 is Avro; 8
\* imports 4 and 9, which imports 10, another version of the file that 4 is.
MCType == [s \in 1..10 |-> IF s = 7 THEN "AVRO" ELSE "PROTOBUF"]
Ref(name, schema) == [name |-> name, schema |-> schema]
MCReferences ==
    <<(<<Ref("b", 2), Ref("c", 3)>>), <<Ref("d", 4)>>, <<Ref("d", 4)>>, <<>>,
      <<Ref("f", 6)>>, <<Ref("e", 5)>>, <<>>,
      <<Ref("d", 4), Ref("i", 9)>>, <<Ref("d", 10)>>, <<>>>>
MCFileName == [s \in 1..10 |-> IF s = 5 THEN "e" ELSE "root"]
MCMessages ==
    [s \in 1..10 |-> IF s = 7 THEN {} ELSE IF s = 1 THEN {<<0>>, <<1>>, <<1, 0>>}
                     ELSE {<<0>>}]

Rec(by, id, path, payload) == [by |-> by, id |-> id, path |-> path, payload |-> payload]
Raw(bytes) == Rec("raw", 0, <<>>, bytes)

MCRecords ==
    {Rec("rp", 4, <<0>>, <<0, 9>>), Rec("proto", 1, <<1, 0>>, <<9>>),
     Rec("proto", 5, <<0>>, <<>>), Rec("proto", 8, <<0>>, <<9>>),
     Rec("avro", 7, <<>>, <<>>),
     Raw(<<9, 9, 9, 9, 9, 9, 9>>),        \* no header
     Raw(<<0, 0, 0, 0, 99>>),             \* no such schema
     Raw(<<0, 0, 0, 0, 4, 4, 0>>),        \* two indexes, and one of them missing
     Raw(<<0, 0, 0, 0, 4, 172, 2>>),      \* a count of 150
     Raw(<<0, 0, 0, 0, 4, 1>>)}           \* a count of -1
=============================================================================
