------------------------------ MODULE HttpUpload ------------------------------
(***************************************************************************)
(* The parser of HTTP uploads (Http.c): HttpAnalysis is called by           *)
(* TCPAnalysis (Function.c) for each TCP segment sent to a server, finds    *)
(* the files in a form and writes a 'w' over the first byte of each piece.  *)
(* No code of this build calls TCPAnalysis; it is modelled as it stands.    *)
(* There is one parser, g_httpre, for all connections.                      *)
(*                                                                          *)
(* External: a client sends Uploads one after the other, each cut into      *)
(* segments.  An upload is made of tokens, one per byte that the parser     *)
(* tells apart; "ct", "form" and "stream" stand for the header name         *)
(* Content-Type and the types it knows, "x" and "d" for any other byte.     *)
(* Lines end in CR LF, and a header line has a colon and a value that no    *)
(* blank follows.  Memory beyond a segment, where some loops look, holds    *)
(* nothing they look for.                                                   *)
(***************************************************************************)
EXTENDS Integers, SequencesExt

CONSTANTS Uploads,          \* [head, boundary, parts, rest]; a part is [header, file]
          MaxFiles,         \* the size of File, 1024 in the code
          OtherSegments,    \* segments of other connections
          MaxUploads,       \* bound: uploads in a behaviour
          MaxSegments,      \* bound: the segments of an upload; 2 with "anywhere"
          UploadScenarios   \* the sets of faults a behaviour may meet

\* "anywhere": a segment may end anywhere, not only inside the first file, or
\* between the HTTP header and the body of a form; "others": segments of other
\* connections come in between; "shrink": a boundary may be shorter than one
\* before it.
ASSUME UploadScenariosKnown ==
    UploadScenarios \subseteq SUBSET {"anywhere", "others", "shrink"}
ASSUME OtherSegmentsAreTexts == OtherSegments \subseteq Seq(STRING)
ASSUME UploadBounds == MaxUploads \in Nat \ {0} /\ MaxSegments \in Nat /\ MaxFiles \in Nat

SegmentsOf(faults) == IF "anywhere" \in faults THEN 2 ELSE MaxSegments
UploadsOf(faults) == IF "anywhere" \in faults THEN 1 ELSE MaxUploads

VARIABLES
    uploadFaults,   \* those this behaviour may meet; never changes
    step,           \* 0: a request line is next; 3: the rest of a body
    fileType,       \* 0: none, 1: stream, 2: form
    boundary,       \* Boundary, a buffer that is not terminated
    mime,           \* MiMeState, by its number
    files,          \* File: where the piece of each file begins and ends
    fileNumber,
    tail,           \* g_boundarybuffer
    upload,         \* external: the upload that is being sent
    sent,           \* external: how many of its tokens were sent
    segments,       \* external: in how many segments
    uploads,        \* external: how many uploads were begun
    wrote,          \* the positions in the upload that were overwritten
    stray           \* memory was written that is not in the segment

httpre == <<step, fileType, boundary, mime, files, fileNumber>>
client == <<upload, sent, segments, uploads>>
httpVars == <<uploadFaults, httpre, tail, client, wrote, stray>>

------------------------------------------------------------------------------
(* External: what is sent.                                                  *)

Crlf == <<"CR", "LF">>
Dashes == <<"-", "-">>
Delimiter(u) == Dashes \o u.boundary
PartText(u, part) == Delimiter(u) \o Crlf \o part.header \o part.file \o Crlf
PartsText(u, k) ==     \* the first k parts
    LET upTo[n \in 0 .. k] == IF n = 0 THEN <<>> ELSE upTo[n - 1] \o PartText(u, u.parts[n])
    IN  upTo[k]
Body(u) == PartsText(u, Len(u.parts)) \o Delimiter(u) \o Dashes \o u.rest
Text(u) == u.head \o Body(u)

\* The positions of the bytes of its file number k, and of all files.
FileAt(u, k) ==
    LET begin == Len(u.head) + Len(PartsText(u, k - 1))
                 + Len(Delimiter(u) \o Crlf \o u.parts[k].header)
    IN  (begin + 1) .. (begin + Len(u.parts[k].file))
Content(u) == UNION {FileAt(u, k) : k \in DOMAIN u.parts}

\* A segment may end after n tokens.
MayCut(u, n) ==
    \/ n = Len(Text(u))
    \/ "anywhere" \in uploadFaults
    \/ n = Len(u.head) /\ u.parts # <<>>
    \/ sent >= Len(u.head) /\ u.parts # <<>> /\ {n, n + 1} \subseteq FileAt(u, 1)

MaySend(u) == "shrink" \in uploadFaults \/ Len(u.boundary) >= Len(boundary)

\* A pointer is a position in the segment, NULL, or into an earlier segment.
Null == 0
Earlier == -1
Aged(p) == IF p = Null THEN Null ELSE Earlier
\* For one into an earlier segment, nothing says how it compares with the others.
Less(p, q) == IF {p, q} \cap {Earlier} # {} /\ {p, q} # {Earlier, Null} THEN BOOLEAN ELSE {p < q}

\* A loop over the characters of a text, one turn each.
Loop(Turn(_, _), start, text) ==
    LET run[n \in 0 .. Len(text)] == IF n = 0 THEN start ELSE Turn(run[n - 1], text[n])
    IN  run[Len(text)]

------------------------------------------------------------------------------
(* HttpParseRequestLine: the states by name, "bad" where it gives up.       *)

Upper == {"U", "T", "P"}
Digits == {"0", "1"}

LineStep(s, ch) ==
    CASE s = "start" /\ ch \in {"CR", "LF"} -> "start"
      [] s \in {"start", "method"} /\ ch \in Upper -> "method"
      [] s = "method" /\ ch = " " -> "before_uri"
      [] s = "before_uri" /\ ch = " " -> "before_uri"
      [] s = "before_uri" /\ ch \in {"/", "x"} \cup Upper -> "uri"
      [] s = "uri" -> IF ch = " " THEN "skip" ELSE "uri"
      [] s = "skip" -> "http_H"       \* the character after the blank, unseen
      [] s = "http_H" /\ ch = "T" -> "http_HT"
      [] s = "http_HT" /\ ch = "T" -> "http_HTT"
      [] s = "http_HTT" /\ ch = "P" -> "http_HTTP"
      [] s = "http_HTTP" /\ ch = "/" -> "first_major"
      [] s = "first_major" /\ ch = "1" -> "major"
      [] s = "major" -> IF ch = "." THEN "first_minor" ELSE IF ch \in Digits THEN s ELSE "bad"
      [] s \in {"first_minor", "minor"} /\ ch \in Digits -> "minor"
      [] s = "minor" /\ ch = " " -> "after_digit"
      [] s = "after_digit" /\ ch = " " -> s
      [] s \in {"minor", "after_digit"} /\ ch = "CR" -> "almost"
      [] s = "almost" /\ ch = "LF" -> "done"
      [] OTHER -> "bad"

\* The number of tokens of the request line with which the text begins; 0 if it
\* does not begin with a whole one.
RequestLine(text) ==
    LET turn(l, ch) == IF l.s = "done" THEN l ELSE [s |-> LineStep(l.s, ch), n |-> l.n + 1]
        line == Loop(turn, [s |-> "start", n |-> 0], text)
    IN  IF line.s = "done" THEN line.n ELSE 0

------------------------------------------------------------------------------
(* httpParseHeaderLine and httpGetProperty.                                 *)

\* strcpy without the end: what a longer boundary left stays behind.
Overwrite(old, new) == new \o SubSeq(old, Len(new) + 1, Len(old))

\* What follows the first '='.
NewBoundary(value) ==
    LET signs == {i \in 1 .. Len(value) : value[i] = "="}
    IN  IF signs = {} THEN <<>>
        ELSE SubSeq(value, (CHOOSE i \in signs : \A j \in signs : i <= j) + 1, Len(value))

Property(h) ==
    CASE h.name = <<"ct">> /\ h.value # <<>> /\ Head(h.value) = "stream" ->
            [h EXCEPT !.type = 1]
      [] h.name = <<"ct">> /\ h.value # <<>> /\ Head(h.value) = "form" ->
            [h EXCEPT !.type = 2, !.boundary = Overwrite(@, NewBoundary(h.value))]
      [] OTHER -> h

\* One character of the header; h is [s, name, value, type, boundary, at].
HeaderStep(h, ch) ==
    LET go(s) == [h EXCEPT !.s = s, !.at = @ + 1]
    IN  CASE h.s \in {"done", "bad"} -> h
          [] h.s = "start" ->
                CASE ch = "CR" -> go("header_almost")
                  [] ch = "LF" -> [h EXCEPT !.s = "done"]
                  [] ch = "/"  -> go("ignore")
                  [] OTHER     -> [go("name") EXCEPT !.name = <<ch>>, !.value = <<>>]
          [] h.s = "ignore" -> IF ch = "LF" THEN go("start") ELSE go("ignore")
          [] h.s \in {"name", "before", "value", "after"} /\ ch = "LF" ->
                [h EXCEPT !.s = "done"]
          [] h.s \in {"name", "before", "value", "after"} /\ ch = "CR" -> go("almost")
          [] h.s = "name" -> IF ch = ":" THEN go("before")
                             ELSE [go("name") EXCEPT !.name = Append(@, ch)]
          [] h.s = "before" -> IF ch = " " THEN go("before")
                               ELSE [go("value") EXCEPT !.value = <<ch>>]
          [] h.s \in {"value", "after"} ->
                [go(IF ch = " " THEN "after" ELSE "value") EXCEPT !.value = Append(@, ch)]
          [] h.s = "almost" ->
                IF ch \in {"LF", "CR"} THEN Property(go("start")) ELSE [h EXCEPT !.s = "bad"]
          [] h.s = "header_almost" ->
                IF ch = "LF" THEN go("done") ELSE [h EXCEPT !.s = "bad"]

\* The loop looks at one byte beyond the segment, which ends no line; old is what
\* the buffer of the boundary holds.
Header(text, from, old) ==
    Loop(HeaderStep,
         [s |-> "start", name |-> <<>>, value |-> <<>>, type |-> 0,
          boundary |-> old, at |-> from],
         Append(SubSeq(text, from, Len(text)), "x"))

------------------------------------------------------------------------------
(* MiMeParseFile.  States 0 to 8 have seen so many bytes of the word.       *)

FilenameWord == <<"f", "i", "l", "e", "n", "a", "m", "e", "=">>
Quotation == 9
FileName == 10
Enter == 11
BlankLine == 12
FileContent == 13
MinusSign == 14

\* Mutant of Begins: the piece begins with the line feed before it.
Begins_Early(p) == p

\* The piece begins behind the blank line that ends at p.
Begins(p) == p + 1

\* The state after the byte ch; delimiter: the boundary follows it.
NextState(s, ch, delimiter) ==
    CASE s < Quotation  -> IF ch = FilenameWord[s + 1] THEN s + 1
                           ELSE IF s = 6 /\ ch = "e" THEN 8 ELSE 0
      [] s = Quotation  -> IF ch = "\"" THEN FileName ELSE 0
      [] s = FileName   -> IF ch = "\"" THEN Enter ELSE s
      [] s = Enter      -> IF ch = "LF" THEN BlankLine ELSE s
      [] s = BlankLine  -> IF ch = "CR" THEN s ELSE IF ch = "LF" THEN FileContent ELSE Enter
      [] s = FileContent -> IF ch = "-" THEN MinusSign ELSE s
      [] s = MinusSign  -> IF ch # "-" THEN FileContent ELSE IF delimiter THEN 0 ELSE s

\* One byte at position p; f is [state, number, files].
MimeStep(text, f, p, bound) ==
    LET s == NextState(f.state, text[p], IsPrefix(bound, SubSeq(text, p + 1, Len(text))))
    IN  [state  |-> s,
         number |-> IF f.state = Quotation /\ s = FileName THEN f.number + 1 ELSE f.number,
         files  |-> IF f.state = BlankLine /\ s = FileContent
                    THEN [f.files EXCEPT ![f.number].buf = Begins(p)]
                    ELSE IF f.state \in {FileContent, MinusSign} /\ text[p] = "-"
                    THEN [f.files EXCEPT ![f.number].end = IF s = 0 THEN p - 3 ELSE p - 2]
                    ELSE f.files]

AgedFiles == [i \in DOMAIN files |-> [buf |-> Aged(files[i].buf), end |-> Aged(files[i].end)]]

\* The piece of an open file is the whole body until its end is found.
OpenFiles(text, from) ==
    IF fileNumber = 0 THEN AgedFiles
    ELSE [AgedFiles EXCEPT ![fileNumber] = [buf |-> from, end |-> Len(text) + 1]]

Finders == [state : 0 .. MinusSign, number : Nat,
            files : [1 .. MaxFiles -> [buf : Int, end : Int]]]

\* The text up to its end is in memory; the body begins at from.  The loop is cut
\* into halves.
MimeFile(text, from, bound) ==
    LET run[n \in Nat] ==       \* n bytes from position i on
            [i \in Nat |-> [f \in Finders |->
                IF n = 0 THEN f
                ELSE IF n = 1 THEN MimeStep(text, f, i, bound)
                ELSE run[n - n \div 2][i + n \div 2][run[n \div 2][i][f]]]]
        start == [state |-> mime, number |-> fileNumber, files |-> OpenFiles(text, from)]
    IN  run[Len(text) + 1 - from][from][start]

------------------------------------------------------------------------------
(* HttpHasFileTailByBoundary: [found, tail].                                *)

Ending(s, n) == SubSeq(s, Len(s) - n + 1, Len(s))

\* Mutant of BodyTail: a body that ends in the delimiter is not compared.
BodyTail_Open(body) == [found |-> FALSE, tail |-> body]

\* A body shorter than the closing delimiter is put behind what was kept, and
\* what the buffer begins with is compared.
BodyTail(body) ==
    LET end == Dashes \o boundary \o Dashes
        kept == tail \o body
    IN  IF Len(end) <= Len(body)
        THEN IF Ending(body, Len(end)) = end THEN [found |-> TRUE, tail |-> <<>>]
             ELSE [found |-> FALSE, tail |-> Ending(body, Len(end))]
        ELSE IF IsPrefix(end, kept) THEN [found |-> TRUE, tail |-> <<>>]
             ELSE [found |-> FALSE,
                   tail |-> IF Len(kept) <= Len(end) THEN kept ELSE Ending(kept, Len(end))]

------------------------------------------------------------------------------
(* HttpAnalysis.                                                            *)

HttpInit ==
    /\ uploadFaults \in UploadScenarios
    /\ step = 0 /\ fileType = 0 /\ boundary = <<>> /\ mime = 0
    /\ files = [i \in 1 .. MaxFiles |-> [buf |-> Null, end |-> Null]] /\ fileNumber = 0
    /\ tail = <<>>
    /\ upload \in {u \in Uploads : MaySend(u)}
    /\ sent = 0 /\ segments = 0 /\ uploads = 1
    /\ wrote = {} /\ stray = FALSE

\* The files that were found: the first byte of each piece is overwritten, and
\* between two parts of the form they are forgotten.  own: the segment belongs
\* to the upload, and consists of its tokens at these positions.
Rewrite(f, type, own) ==
    /\ mime' = f.state /\ files' = f.files
    /\ fileNumber' = IF type = 2 /\ f.state = 0 THEN 0 ELSE f.number
    /\ \E hit \in SUBSET (1 .. f.number) :
          /\ type # 2 => hit = {}
          /\ type = 2 => \A i \in 1 .. f.number :
                            (i \in hit) \in Less(f.files[i].buf, f.files[i].end)
          /\ wrote' = wrote \cup ({f.files[i].buf : i \in hit} \cap own)
          /\ stray' = (stray \/ ~({f.files[i].buf : i \in hit} \subseteq own))

AsItWas == [state |-> mime, number |-> fileNumber, files |-> AgedFiles]

\* A request whose line or header cannot be parsed, or whose type is not a form.
NotForm(text, from, own) ==
    LET line == RequestLine(SubSeq(text, from, Len(text)))
        h == Header(text, from + line, boundary)
    IN  /\ step = 0
        /\ line = 0 \/ h.s = "bad" \/ h.type # 2
        /\ fileType' = IF line = 0 THEN 0 ELSE h.type
        /\ boundary' = IF line = 0 THEN boundary ELSE h.boundary
        /\ Rewrite(AsItWas, fileType', own)
        /\ UNCHANGED <<step, tail>>

\* A form: its body is in the segment and is taken for the whole of it, or the
\* segments to come are its body.
Form(text, from, own) ==
    LET line == RequestLine(SubSeq(text, from, Len(text)))
        h == Header(text, from + line, boundary)
        body == h.at <= Len(text)
    IN  /\ step = 0 /\ line > 0 /\ h.s # "bad" /\ h.type = 2
        /\ fileType' = 2 /\ boundary' = h.boundary
        /\ step' = IF body THEN 0 ELSE 3
        /\ Rewrite(IF body THEN MimeFile(text, h.at, h.boundary) ELSE AsItWas, 2, own)
        /\ UNCHANGED tail

\* The rest of the body of a form.
Rest(text, from, own) ==
    LET t == BodyTail(SubSeq(text, from, Len(text)))
    IN  /\ step = 3
        /\ Rewrite(MimeFile(text, from, boundary), fileType, own)
        /\ step' = IF t.found THEN 0 ELSE 3
        /\ tail' = t.tail
        /\ UNCHANGED <<fileType, boundary>>

HttpAnalysis(text, from, own) ==
    NotForm(text, from, own) \/ Form(text, from, own) \/ Rest(text, from, own)

\* A segment of the upload, up to the token n.
Segment(n) ==
    /\ n > sent /\ segments < SegmentsOf(uploadFaults)
    /\ segments = SegmentsOf(uploadFaults) - 1 => n = Len(Text(upload))
    /\ MayCut(upload, n)
    /\ HttpAnalysis(SubSeq(Text(upload), 1, n), sent + 1, (sent + 1) .. n)
    /\ sent' = n /\ segments' = segments + 1
    /\ UNCHANGED <<uploadFaults, upload, uploads>>

OtherSegment(text) ==
    /\ "others" \in uploadFaults /\ sent > 0
    /\ HttpAnalysis(text, 1, {})
    /\ UNCHANGED <<uploadFaults, client>>

NextUpload(u) ==
    /\ sent = Len(Text(upload)) /\ uploads < UploadsOf(uploadFaults)
    /\ MaySend(u)
    /\ upload' = u /\ sent' = 0 /\ segments' = 0 /\ uploads' = uploads + 1
    /\ wrote' = {} /\ UNCHANGED <<uploadFaults, httpre, tail, stray>>

HttpNext ==
    \/ \E n \in 1 .. Len(Text(upload)) : Segment(n)
    \/ \E text \in OtherSegments : OtherSegment(text)
    \/ \E u \in Uploads : NextUpload(u)

HttpSpec == HttpInit /\ [][HttpNext]_httpVars

------------------------------------------------------------------------------
(* What uploads are.                                                        *)

ASSUME UploadsAreTexts ==
    \A u \in Uploads :
        /\ u \in [head : Seq(STRING), boundary : Seq(STRING), rest : Seq(STRING),
                  parts : Seq([header : Seq(STRING), file : Seq(STRING)])]
        /\ u.head # <<>>

\* The request line and the header mean what they should, also where the buffer
\* holds an older boundary, and whether the body is in the same segment or not.
ASSUME HeadsAreRead ==
    \A u \in Uploads, old \in {<<>>} \cup {w.boundary : w \in Uploads} :
      \A n \in {Len(u.head), Len(Text(u))} :
        LET text == SubSeq(Text(u), 1, n)
            line == RequestLine(SubSeq(text, 1, Len(text)))
            h == Header(text, 1 + line, old)
        IN  IF u.parts = <<>> THEN (line = 0 \/ h.type \in {0, 1}) /\ h.boundary = old
            ELSE Len(old) <= Len(u.boundary) =>
                    /\ line > 0 /\ h.s # "bad" /\ h.type = 2
                    /\ h.boundary = u.boundary /\ h.at = Len(u.head) + 1

\* The states in which the parser reads a text from which no file begins.
NameStates(text) ==
    LET seen[n \in 0 .. Len(text)] == IF n = 0 THEN 0 ELSE NextState(seen[n - 1], text[n], FALSE)
    IN  seen

\* The header of a part names one file, behind which nothing does, and a file does
\* not hold the delimiter.
ASSUME FormsAreRead ==
    \A u \in Uploads :
        /\ Len(u.parts) <= MaxFiles
        /\ u.parts # <<>> => u.rest = <<>>
        /\ \A i \in 1 .. Len(u.boundary) : u.boundary[i] \notin {"CR", "LF"}
        /\ \A n \in 0 .. Len(u.boundary \o Dashes) : NameStates(u.boundary \o Dashes)[n] < FileName
        /\ \A k \in 1 .. Len(u.parts) :
              LET name == u.boundary \o Crlf \o u.parts[k].header
                  file == u.parts[k].file
              IN  /\ NameStates(name)[Len(name)] = FileContent
                  /\ \A n \in 0 .. (Len(name) - 1) : NameStates(name)[n] < FileContent
                  /\ \A i \in 1 .. Len(file) : ~IsPrefix(Delimiter(u), SubSeq(file, i, Len(file)))

------------------------------------------------------------------------------
HttpTypeOK ==
    /\ uploadFaults \in UploadScenarios /\ upload \in Uploads
    /\ step \in {0, 3} /\ fileType \in 0 .. 2 /\ mime \in 0 .. MinusSign
    /\ fileNumber \in Nat /\ (uploadFaults = {} => fileNumber <= MaxFiles)
    /\ files \in [1 .. MaxFiles -> [buf : Int, end : Int]]
    /\ sent \in 0 .. Len(Text(upload)) /\ segments \in 0 .. SegmentsOf(uploadFaults)
    /\ uploads \in 1 .. UploadsOf(uploadFaults) /\ stray \in BOOLEAN

\* What is overwritten is in a file, wherever the segments of the upload and of
\* the uploads before it ended: never a delimiter, a header of a part, the request
\* line of the next upload, or memory that was a segment's (Http.c 172-227).
OnlyFilesAreWritten == uploadFaults = {} => wrote \subseteq Content(upload) /\ ~stray

\* When a form has been sent, the parser waits for a request line and holds no
\* file: the next upload is read as the first one was (Http.c 75-160, 218-223).
ReadyForNext ==
    /\ uploadFaults = {} /\ upload.rest = <<>>
    /\ sent = Len(Text(upload))
    => step = 0 /\ mime = 0 /\ fileNumber = 0
==============================================================================
