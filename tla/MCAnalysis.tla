------------------------------ MODULE MCAnalysis ------------------------------
(***************************************************************************)
(* Of the behaviours of Analysis those that exercise one of its parts, the  *)
(* subject, while the others rest.                                          *)
(***************************************************************************)
EXTENDS Analysis

CONSTANTS d1, d2, d3

VARIABLE subject    \* never changes

MCLastOf(d) == CASE d = d1 -> 2 [] d = d2 -> 1 [] OTHER -> 0
MCNetScenarios == {{}, {"repeat"}, {"reorder"}, {"reorder", "repeat"},
                   {"alloc", "options"}, {"halt"}}

\* Words that count up in steps of a from b.
MCFillings == [a : {0, 91}, b : {0, 255}] \cup {[a |-> 7, b |-> 130]}
MCWordAt(f, i) == (f.a * i + f.b) % Base
MCLengths == 20 .. 95

\* A form has one header that matters and one file, or two.  An "f" may begin
\* another word than "filename=", and files hold "-" and "--" too.
RequestText == <<"U", " ", "/", "x", " ", "U", "T", "T", "P", "/", "1", ".", "1">> \o Crlf
OtherHeader == <<"x", ":", " ", "x">> \o Crlf
ContentType(value) == <<"ct", ":", " ">> \o value \o Crlf
PartHeader ==
    <<"x", "f", "x">> \o FilenameWord \o <<"\"", "x", "\"">> \o Crlf \o <<"x">> \o Crlf \o Crlf
Form1(b, contents) ==
    [head |-> RequestText \o OtherHeader \o ContentType(<<"form", " ", "=">> \o b) \o Crlf,
     boundary |-> b,
     parts |-> [i \in DOMAIN contents |-> [header |-> PartHeader, file |-> contents[i]]],
     rest |-> <<>>]
Stream == [head |-> RequestText \o ContentType(<<"stream">>) \o Crlf,
           boundary |-> <<>>, parts |-> <<>>, rest |-> <<"d">>]
MCUploads ==
    {Stream, Form1(<<"b">>, <<<<"d", "d", "d">>>>), Form1(<<"b", "c">>, <<<<"d", "-", "-", "d">>>>),
     Form1(<<"b", "c">>, <<<<"d", "d">>, <<"d">>>>)}
MCOtherSegments == {RequestText \o OtherHeader \o Crlf, Form1(<<"b">>, <<>>).head}
MCUploadScenarios == {{}, {"anywhere"}, {"others"}, {"shrink"}}

ReassRests == netFaults = {}
PolicyRests == setUp = TRUE
SumRests == segmentLength = 20 /\ filling = [a |-> 0, b |-> 0]
HttpRests == uploadFaults = {} /\ upload = Stream

MCInit ==
    /\ subject \in {"fragments", "ports", "checksum", "uploads"}
    /\ AnalysisInit
    /\ subject # "fragments" => ReassRests
    /\ subject # "ports" => PolicyRests
    /\ subject # "checksum" => SumRests
    /\ subject # "uploads" => HttpRests

MCNext ==
    /\ UNCHANGED subject
    /\ \/ subject = "fragments" /\ Reassembles
       \/ subject = "ports" /\ LooksForPorts
       \/ subject = "checksum" /\ AddsUp
       \/ subject = "uploads" /\ ParsesUploads

MCSpec == MCInit /\ [][MCNext]_<<subject, analysisVars>>
==============================================================================
