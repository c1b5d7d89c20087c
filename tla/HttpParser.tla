----------------------------- MODULE HttpParser -----------------------------
(***************************************************************************)
(* The HTTP parsers: src/server/http_parser.c and its older copy           *)
(* src/src/http/http_parser.c.  They work on a buffer that holds what has  *)
(* arrived so far: a request that is parsed line by line, as               *)
(* http_parse_request of src/server/test.c does, or a chunked body.  A     *)
(* behaviour is one parse of one prefix of one message.                    *)
(*                                                                         *)
(* A character is a string: a line end is "CR" "LF", letters stand for any *)
(* character of their kind.  Results point into the buffer, as in the      *)
(* code: a span has a start and a length.  Positions count from one, so    *)
(* the code's offset o is position o + 1.                                  *)
(***************************************************************************)
EXTENDS Integers, Sequences, FiniteSets, SequencesExt

CONSTANTS
  MaxFields,  \* bound: header fields of a request
  MaxChunks,  \* bound: chunks of a body before the last one
  MaxHeaders  \* values of max_header, the room the caller has

ASSUME HttpParserAssumption ==
  {MaxFields, MaxChunks} \cup MaxHeaders \subseteq Nat

VARIABLES
  msg,        \* the message that is on its way
  copy,       \* "server" or "runtime": which of the two parsers
  maxHeader,  \* max_header
  data,       \* the buffer: what has arrived, with what the parser overwrote
  phase,      \* "line", "header", "chunked" or "end"
  outcome,    \* "none" before the end, then "ok", "incomplete", "error",
              \* or "overrun": it reads past the end of the buffer
  p1,         \* where the current line or chunk begins
  scan,       \* http_parse_chunked's i
  line,       \* the spans of method and path
  headers,    \* the spans of the headers
  read,       \* *read_len: how much of the buffer is dealt with
  bodyLen     \* *body_len: how much of the body is in front of the buffer, and in
              \* the runtime's copy the size of the chunk

vars == <<msg, copy, maxHeader, data, phase, outcome, p1, scan, line, headers,
          read, bodyLen>>

-----------------------------------------------------------------------------
(* Messages, and what they mean. *)

CRLF == <<"CR", "LF">>
Version == <<"H", "T", "T", "P", "/", "1", ".", "1">>
Pad(n) == [k \in 1..n |-> " "]

Lines == [method: {<<"g">>, <<"g", "g">>}, path: {<<"/">>, <<"/", "?">>},
          version: {Version, <<"H", "T", "T", "P", "/", "2", ".", "0">>, <<"H">>}]
StdLine == [method |-> <<"g">>, path |-> <<"/">>, version |-> Version]
LineText(l) == l.method \o <<" ">> \o l.path \o <<" ">> \o l.version \o CRLF

\* A field may have spaces around its value and a continuation line.  Two names that
\* are tokens and one that is none.
Fields ==
  [name: {<<"x">>}, pad: 0..1, value: {<<>>, <<"v">>}, fold: {<<>>, <<"w">>, <<"w", ":", "w">>}]
  \cup [name: {<<"z", "z">>}, pad: {0}, value: {<<"u">>}, fold: {<<>>, <<"w", ":", "w">>}]
  \cup [name: {<<"y", " ">>}, pad: {0}, value: {<<"v">>}, fold: {<<>>, <<"w">>}]
StdField == [name |-> <<"x">>, pad |-> 1, value |-> <<"v">>, fold |-> <<>>]
FirstLine(f) == f.name \o <<":">> \o Pad(f.pad) \o f.value \o Pad(f.pad) \o CRLF
FieldText(f) ==
  FirstLine(f) \o IF f.fold = <<>> THEN <<>> ELSE <<" ">> \o f.fold \o CRLF

\* Sequences one after another: the text of the first n of them, and of all.
Concats(seqs) ==
  LET c[n \in 0..Len(seqs)] == IF n = 0 THEN <<>> ELSE c[n - 1] \o seqs[n]
  IN  c
Concat(seqs) == Concats(seqs)[Len(seqs)]

BlockText(fields) == Concat([k \in DOMAIN fields |-> FieldText(fields[k])]) \o CRLF

\* A chunk: its size in hexadecimal digits, extensions and data.
Digit == [c \in {"0", "1", "2"} |-> CASE c = "0" -> 0 [] c = "1" -> 1 [] c = "2" -> 2]
Chunks ==
  [size: {<<"1">>, <<"0", "1">>}, ext: {<<>>, <<";", "e">>, <<";", "e", ";", "e">>},
   bytes: {<<"a">>, <<"CR">>}]
  \cup [size: {<<"2">>}, ext: {<<>>}, bytes: {<<"b", ";">>}]
  \cup [size: {<<"1", "1">>}, ext: {<<>>}, bytes: {[k \in 1..17 |-> "c"]}]
LastChunk == [size |-> <<"0">>, ext |-> <<>>, bytes |-> <<>>]
SizeLine(c) == c.size \o c.ext \o CRLF
ChunkText(c) == SizeLine(c) \o c.bytes \o CRLF

Requests ==
  {[kind |-> "request", line |-> l, fields |-> fs, text |-> LineText(l) \o BlockText(fs)] :
     l \in {StdLine}, fs \in BoundedSeq(Fields, MaxFields)}
  \cup
  {[kind |-> "request", line |-> l, fields |-> fs, text |-> LineText(l) \o BlockText(fs)] :
     l \in Lines, fs \in {<<StdField>>}}
Bodies ==
  {[kind |-> "chunked", chunks |-> Append(cs, LastChunk),
    text |-> Concat([k \in DOMAIN cs |-> ChunkText(cs[k])]) \o ChunkText(LastChunk)] :
     cs \in BoundedSeq(Chunks, MaxChunks)}

Init ==
  /\ msg \in Requests \cup Bodies
  /\ \E cut \in 0..Len(msg.text) : data = SubSeq(msg.text, 1, cut)
  /\ copy \in {"server", "runtime"}
  /\ maxHeader \in (IF msg.kind = "request" THEN MaxHeaders ELSE {0})
  /\ phase = (IF msg.kind = "request" THEN "line" ELSE "chunked")
  /\ outcome = "none"
  /\ p1 = 1 /\ scan = 1
  /\ line = <<>> /\ headers = <<>> /\ read = 0 /\ bodyLen = 0

-----------------------------------------------------------------------------
(* Scanning. *)

Text(span) == SubSeq(data, span.from, span.from + span.len - 1)

Least(S) == CHOOSE k \in S : \A m \in S : k <= m
Greatest(S) == CHOOSE k \in S : \A m \in S : m <= k
Find(from, chars) == {k \in from..Len(data) : data[k] \in chars}

\* for(; p != end; p++) if(*p == '\r' && ++p != end && *p == '\n'): the position
\* of the line feed, 0 if the scan stops at the end, -1 if a carriage return in the
\* last place moves p over it.  The character after a carriage return is skipped.
LineFeed(from) ==
  LET f[k \in from..Len(data) + 2] ==
        CASE k > Len(data) -> 0
          [] k <= Len(data) /\ data[k] # "CR" -> f[k + 1]
          [] k = Len(data) /\ data[k] = "CR" -> -1
          [] OTHER -> IF data[k + 1] = "LF" THEN k + 1 ELSE f[k + 2]
  IN  f[from]

Finish(result) == phase' = "end" /\ outcome' = result

-----------------------------------------------------------------------------
(* http_parse_request_line: the first two spaces, then the line feed after *)
(* them, and " HTTP/1." between the second and the last three characters.  *)

RequestLine ==
  LET spaces == Find(1, {" "})
      s1 == Least(spaces)
      s2 == Least(spaces \ {s1})
      lf == IF Cardinality(spaces) < 2 THEN 0 ELSE LineFeed(s2)
      version == lf - s2 = 10 /\ SubSeq(data, s2 + 1, s2 + 7) = SubSeq(Version, 1, 7)
  IN  /\ phase = "line"
      /\ \/ /\ lf \in {-1, 0}
            /\ Finish(IF lf = 0 THEN "incomplete" ELSE "overrun")
            /\ UNCHANGED <<p1, line, read>>
         \/ /\ lf > 0 /\ ~version
            /\ Finish("error")
            /\ UNCHANGED <<p1, line, read>>
         \/ /\ lf > 0 /\ version
            /\ line' = [method |-> [from |-> 1, len |-> s1 - 1],
                        path |-> [from |-> s1 + 1, len |-> s2 - s1 - 1]]
            /\ read' = lf /\ p1' = lf + 1
            /\ phase' = "header" /\ UNCHANGED outcome
      /\ UNCHANGED <<msg, copy, maxHeader, data, scan, headers, bodyLen>>

-----------------------------------------------------------------------------
(* http_parse_header, one line for each step.                              *)

\* The loop is not entered on an empty buffer.
NoHeader ==
  /\ phase = "header" /\ p1 > Len(data)
  /\ Finish("incomplete")
  /\ UNCHANGED <<msg, copy, maxHeader, data, p1, scan, line, headers, read, bodyLen>>

Blank == {" ", "TAB"}

\* token_char_map: no blanks, controls or separators.
is_token(text) == \A k \in DOMAIN text : text[k] \notin Blank \cup {":", "CR", "LF"}

Trimmed(from, to) ==
  LET first == Least({k \in from..Len(data) : data[k] \notin Blank})
      last == Greatest({k \in from - 1..to : data[k] \notin Blank})
  IN  [from |-> first, len |-> last + 1 - first]

ValueLong(colon, lf) == Trimmed(colon + 1, lf - 1)

\* The value between a colon and a line feed.  Both ends skip blanks, the right one
\* also back over the left: the length of a value of blanks only is below zero, a
\* huge size_t in the code.
Value(colon, lf) == Trimmed(colon + 1, lf - 2)

Header(colon, lf) ==
  [name |-> [from |-> p1, len |-> colon - p1], value |-> Value(colon, lf)]

StoreAlways(colon, lf) ==
  IF is_token(SubSeq(data, p1, colon - 1)) THEN Append(headers, Header(colon, lf)) ELSE headers

StoreInFront(colon, lf) ==
  IF is_token(SubSeq(data, p1, colon - 1)) /\ Len(headers) < maxHeader
  THEN <<Header(colon, lf)>> \o headers ELSE headers

\* A line is a header if a token is in front of its colon, and if there is room.
Store(colon, lf) ==
  IF is_token(SubSeq(data, p1, colon - 1)) /\ Len(headers) < maxHeader
  THEN Append(headers, Header(colon, lf)) ELSE headers

\* A line that begins with a blank continues the last header.  The server's copy moves
\* the rest of the line behind the value, the runtime's lets the value grow over
\* the line end.
Fold(lf) ==
  LET h == headers[Len(headers)]
      n == IF copy = "server" THEN lf - p1 - 2 ELSE lf - p1 - 1
      to == h.value.from + h.value.len
  IN  /\ headers' = [headers EXCEPT ![Len(headers)].value.len = @ + IF n > 0 THEN n ELSE 0]
      /\ data' = IF copy = "runtime" THEN data
                 ELSE [k \in DOMAIN data |->
                         IF k \in to..to + n - 1 THEN data[p1 + 1 + k - to] ELSE data[k]]

AfterHasty(lf, end) ==
  IF lf + 1 <= Len(data) /\ data[lf + 1] = "CR"
  THEN Finish("ok") /\ read' = end /\ UNCHANGED p1
  ELSE IF lf = Len(data)
  THEN Finish("incomplete") /\ read' = lf /\ UNCHANGED p1
  ELSE read' = lf /\ p1' = lf + 1 /\ UNCHANGED <<phase, outcome>>

\* What a line feed is followed by: nothing, a line feed of its own after a carriage
\* return, which ends the headers, or another line.
After(lf, end) ==
  \/ /\ Len(data) \in {lf, lf + 1}
     /\ SubSeq(data, lf + 1, Len(data)) \in {<<>>, <<"CR">>}
     /\ Finish(IF copy = "server" THEN "incomplete" ELSE "ok")
     /\ read' = lf /\ UNCHANGED p1
  \/ /\ lf + 2 <= Len(data) /\ SubSeq(data, lf + 1, lf + 2) = CRLF
     /\ Finish("ok")
     /\ read' = end /\ UNCHANGED p1
  \/ /\ lf + 1 <= Len(data)
     /\ data[lf + 1] = "CR" => lf + 2 <= Len(data) /\ data[lf + 2] # "LF"
     /\ read' = lf /\ p1' = lf + 1 /\ UNCHANGED <<phase, outcome>>

\* Neither the scan for the colon nor the one for the line feed tests for the end,
\* and the first does not stop at the end of its line.
HeaderLine ==
  LET colons == Find(p1, {":"})
      colon == Least(colons)
      lf == IF colons = {} THEN 0 ELSE LineFeed(colon)
  IN  /\ phase = "header" /\ p1 <= Len(data)
      /\ \/ /\ lf \in {-1, 0}
            /\ Finish("overrun")
            /\ UNCHANGED <<data, headers, p1, read>>
         \/ /\ lf > 0
            /\ \/ /\ data[p1] \notin Blank
                  /\ headers' = Store(colon, lf)
                  /\ UNCHANGED data
               \/ /\ data[p1] \in Blank /\ headers # <<>>
                  /\ Fold(lf)
               \/ /\ data[p1] \in Blank /\ headers = <<>>
                  /\ UNCHANGED <<data, headers>>
            /\ After(lf, IF copy = "server" THEN lf + 2 ELSE lf)
      /\ UNCHANGED <<msg, copy, maxHeader, scan, line, bodyLen>>

-----------------------------------------------------------------------------
(* http_parse_chunked, one carriage return for each step.                  *)

\* str_parse_hex: the first digit weighs least.  The values of the last n digits.
Hexes(digits) ==
  LET v[n \in 0..Len(digits)] ==
        IF n = 0 THEN 0 ELSE Digit[digits[Len(digits) + 1 - n]] + 16 * v[n - 1]
  IN  v
str_parse_hex(digits) == Hexes(digits)[Len(digits)]

Moved(from, n) ==
  [k \in DOMAIN data |-> IF k \in bodyLen + 1..bodyLen + n
                         THEN data[from + k - bodyLen - 1] ELSE data[k]]

CompactEarly(cr, n) == Moved(cr + 1, n)

\* The data of the chunk whose size line ends with the carriage return at cr: n
\* characters are moved behind the body.
Compact(cr, n) == Moved(cr + 2, n)

\* The size ends at the last semicolon in front of the carriage return.  Behind a
\* chunk the scan goes on with the second character of the next size line.
Chunk ==
  LET crs == Find(scan, {"CR"})
      cr == Least(crs)
      semis == {k \in scan..cr - 1 : data[k] = ";"}
      digits == SubSeq(data, p1, (IF semis = {} THEN cr ELSE Greatest(semis)) - 1)
      valid == digits # <<>> /\ \A k \in DOMAIN digits : digits[k] \in DOMAIN Digit
      n == str_parse_hex(digits)
      end == cr + 1 + n + 2
  IN  /\ phase = "chunked" /\ copy = "server"
      /\ \/ /\ crs = {}
            /\ Finish("ok") /\ UNCHANGED <<data, p1, scan, read, bodyLen>>
         \/ /\ crs # {} /\ ~valid
            /\ Finish("error") /\ UNCHANGED <<data, p1, scan, read, bodyLen>>
         \/ /\ crs # {} /\ valid /\ end > Len(data)
            /\ Finish("incomplete") /\ UNCHANGED <<data, p1, scan, read, bodyLen>>
         \/ /\ crs # {} /\ valid /\ end <= Len(data) /\ n = 0
            /\ read' = cr + 1
            /\ Finish("ok") /\ UNCHANGED <<data, p1, scan, bodyLen>>
         \/ /\ crs # {} /\ valid /\ end <= Len(data) /\ n > 0
            /\ data' = Compact(cr, n) /\ bodyLen' = bodyLen + n /\ read' = end
            /\ p1' = end + 1 /\ scan' = end + 2
            /\ UNCHANGED <<phase, outcome>>
      /\ UNCHANGED <<msg, copy, maxHeader, line, headers>>

\* http_decode_chunked of the runtime's copy: the size of the first chunk, in bodyLen,
\* and where its data begin.  It notes a semicolon and does not use it, and answers
\* the last chunk like an error.
DecodeChunk ==
  LET crs == Find(1, {"CR"})
      digits == SubSeq(data, 1, Least(crs) - 1)
      found == /\ crs # {} /\ digits # <<>>
               /\ \A k \in DOMAIN digits : digits[k] \in DOMAIN Digit
               /\ str_parse_hex(digits) > 0
  IN  /\ phase = "chunked" /\ copy = "runtime"
      /\ \/ /\ found
            /\ bodyLen' = str_parse_hex(digits) /\ read' = Least(crs) + 1
            /\ Finish("ok")
         \/ /\ ~found
            /\ Finish("error") /\ UNCHANGED <<bodyLen, read>>
      /\ UNCHANGED <<msg, copy, maxHeader, data, p1, scan, line, headers>>

Next == RequestLine \/ NoHeader \/ HeaderLine \/ Chunk \/ DecodeChunk

Spec == Init /\ [][Next]_vars

-----------------------------------------------------------------------------
(* Properties. *)

Request == phase = "end" /\ msg.kind = "request"
Whole == Len(msg.text)
Cut == Len(data)

\* The header fields whose values the two parsers read as they are meant.  Not those
\* of blanks only; in the server's copy a continuation line needs a colon, or the
\* next line is taken for a part of it; in the runtime's none is read right.
Readable(f) ==
  /\ f.value = <<>> => f.pad = 0
  /\ f.fold # <<>> => copy = "server" /\ ":" \in ToSet(f.fold)

\* Spans lie in the buffer, and no more headers are stored than there is room for.
TypeOK ==
  /\ phase \in {"line", "header", "chunked", "end"}
  /\ outcome \in {"none", "ok", "incomplete", "error", "overrun"}
  /\ (outcome = "none") = (phase # "end")
  /\ read \in 0..Cut + 1 /\ bodyLen \in Nat
  /\ copy = "server" => read <= Cut /\ bodyLen <= read
  /\ Len(headers) <= maxHeader
  /\ \A k \in DOMAIN headers :
       LET v == headers[k].value
       IN  v.from \in 1..Cut /\ v.len <= Cut - v.from + 1

\* Every continuation line has a colon.  One that has none takes the next line for a
\* part of it.
ColonsInFolds ==
  \A k \in DOMAIN msg.fields :
    msg.fields[k].fold # <<>> => ":" \in ToSet(msg.fields[k].fold)

\* The fields are readable, their names are tokens, and none is continued that there is
\* no room for.
FieldsClear ==
  \A k \in DOMAIN msg.fields :
    /\ Readable(msg.fields[k]) /\ " " \notin ToSet(msg.fields[k].name)
    /\ k > maxHeader => msg.fields[k].fold = <<>>

\* A request that is there as a whole is answered with its method and its path, and
\* everything is read, if it has a header field and its continuation lines have colons,
\* whatever the names and the values are.  A request without a header field is not: in
\* the empty line the scan for a colon runs past the end of the buffer.  The headers
\* are the fields, in their order and continued or not, if FieldsClear: a field whose
\* name is no token is left out, and the continuation of a field that is left out, or
\* that there is no room for, goes to the last header that is stored.
RequestRight ==
  Request /\ Cut = Whole /\ msg.line.version = Version
  => /\ msg.fields = <<>> => outcome = "overrun"
     /\ msg.fields # <<>> /\ ColonsInFolds
        => /\ outcome = "ok"
           /\ read = IF copy = "server" THEN Whole ELSE Whole - 2
           /\ Text(line.method) = msg.line.method /\ Text(line.path) = msg.line.path
     /\ msg.fields # <<>> /\ FieldsClear
        => [k \in DOMAIN headers |-> <<Text(headers[k].name), Text(headers[k].value)>>]
             = [k \in 1..Min({Len(msg.fields), maxHeader}) |->
                  LET f == msg.fields[k] IN <<f.name, f.value \o f.fold>>]

\* Where the request line and the lines of the fields end.
LineEnds ==
  {Len(LineText(msg.line) \o Concat([k \in 1..n |-> FieldText(msg.fields[k])])) :
     n \in 0..Len(msg.fields)}
  \cup {Len(LineText(msg.line) \o Concat([k \in 1..n - 1 |-> FieldText(msg.fields[k])])
             \o FirstLine(msg.fields[n])) : n \in DOMAIN msg.fields}

\* A request of which a part is missing is never refused, and the server's copy never
\* takes it for a whole one.  Nothing is read past the end of a request that is cut
\* at the end of a line, whatever its values are, unless a continuation line has no
\* colon.
CutNeverAnswered ==
  Request /\ Cut < Whole /\ msg.line.version = Version
  => /\ outcome # "error"
     /\ copy = "server" => outcome # "ok"
     /\ Cut \in LineEnds /\ ColonsInFolds => outcome # "overrun"

\* The headers that are reported are fields of the request, in their order, whatever
\* the lines between them look like: values may be wrong, but none is reported
\* under the name of another.
NamesInOrder ==
  Request =>
    \E pick \in [DOMAIN headers ->
                   {k \in DOMAIN msg.fields : " " \notin ToSet(msg.fields[k].name)}] :
      /\ \A i, j \in DOMAIN headers : i < j => pick[i] < pick[j]
      /\ \A i \in DOMAIN headers : Text(headers[i].name) = msg.fields[pick[i]].name

\* A chunk is readable if its size is the same from both ends and it has at most
\* one extension.
ReadableChunk(c) == c.size = Reverse(c.size) /\ Len(c.ext) <= 2

\* Of a chunked body, whichever part has arrived, the server's parser delivers the
\* data of the readable chunks in front of the first that is not, and what follows does
\* not change them.  If every chunk of which a part may be there is readable, it
\* delivers the data of those that are there as a whole and no others, says how far it
\* has read, and leaves the rest as it came: a caller can go on from there.  The
\* runtime's finds the first chunk as soon as its size line has come, if that is
\* readable and has no extension, whatever follows.
ChunksRight ==
  phase = "end" /\ msg.kind = "chunked"
  => LET first == msg.chunks[1]
         texts == [k \in DOMAIN msg.chunks |-> ChunkText(msg.chunks[k])]
         end(n) == Len(Concat(SubSeq(texts, 1, n)))
         there == Max({n \in 0..Len(texts) : end(n) <= Cut})
         readable(n) == \A k \in 1..n : ReadableChunk(msg.chunks[k])
         right == Max({n \in 0..there : readable(n)})
         lead == Concat([k \in 1..right |-> msg.chunks[k].bytes])
     IN  /\ copy = "server" => Len(lead) <= bodyLen /\ SubSeq(data, 1, Len(lead)) = lead
         /\ copy = "server" /\ readable(IF there = Len(texts) THEN there ELSE there + 1)
            => /\ outcome \in {"ok", "incomplete"}
               /\ bodyLen = Len(lead)
               /\ read = IF there = Len(texts) THEN Cut - 2 ELSE end(there)
               /\ SubSeq(data, read + 1, Cut) = SubSeq(msg.text, read + 1, Cut)
         /\ copy = "runtime" /\ ReadableChunk(first) /\ first.ext = <<>> /\ first # LastChunk
            /\ Cut > Len(first.size)
            => /\ outcome = "ok"
               /\ bodyLen = Len(first.bytes) /\ read = Len(SizeLine(first))
=============================================================================
