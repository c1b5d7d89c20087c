------------------------------ MODULE UrlPath ------------------------------
(***************************************************************************)
(* How a runtime finds the file that an import names.  The path of the     *)
(* entry module comes from the command line; every import is resolved      *)
(* against the path that was computed for its referrer, so a wrong path is *)
(* handed on to everything imported from it.                               *)
(*                                                                         *)
(*   "src"    src/src/util/util.c (dirname, normalize_path), which allows  *)
(*            URLs and sizes its result by a sum kept beside the stack     *)
(*   "proto"  src/main.cc, src/xxx/main.cc (NormalizePath), which pop a    *)
(*            vector of segments                                           *)
(*                                                                         *)
(* A path is a place and the segments after it:                            *)
(*   "file"    "/a/b"          "rel"     "a/b", prototypes only            *)
(*   "http"    "http://host/a/b"                                           *)
(*   "nohost"  "http:///a/b", a URL that has lost its host                 *)
(* "/" is the "file" path with one empty segment.  The lengths of segments *)
(* matter to normalize_path, so they are strings; how they are spelled     *)
(* does not.                                                               *)
(***************************************************************************)
EXTENDS Integers, Sequences, SequencesExt

CONSTANTS
  Names,      \* names of files and directories
  HostTail,   \* the host's name without its first character
  MaxDots,    \* bound: segments of a specifier before its last one
  MaxDepth,   \* bound: segments of the file that a chain may reach
  MaxImports  \* bound: imports of one chain

ASSUME UrlPathAssumption ==
  /\ "" \notin Names /\ "." \notin Names /\ ".." \notin Names
  /\ {MaxDots, MaxDepth, MaxImports} \subseteq Nat

\* Strings have lengths, which is all that is used of them.
ASSUME LengthAssumption == \A s \in Names \cup {"", ".", "..", HostTail} : Len(s) \in Nat

VARIABLES
  runtime,  \* "src" or "proto"
  path,     \* the path computed for the module reached so far
  status,   \* "ok"; "garbled": the path was written outside its buffer, cut short,
            \* or contains bytes that were never written; "astray": its length fits,
            \* but a segment was written in front of the stack
  file,     \* the file that the chain of imports means
  regular,  \* every ".." so far removed the segment just before it
  rooted,   \* no specifier so far went up from the root
  kept,     \* no import so far met the edge of what a runtime can express
  imports   \* number of imports made

vars == <<runtime, path, status, file, regular, rooted, kept, imports>>

Path == [site: {"file", "http", "nohost", "rel"}, segs: Seq(Names \cup {"", HostTail})]
File == [site: {"file", "http", "cwd"}, segs: Seq(Names)]

\* What a script may write: an absolute path or URL, or a relative specifier.
Absolute == [site: {"file", "http"}, segs: {<<n>> : n \in Names} \cup (Names \X Names)]
Relative == {Append(dots, n) : dots \in BoundedSeq(Names \cup {".", ".."}, MaxDots),
                               n \in Names}

-----------------------------------------------------------------------------
(* What an import means. *)

\* The directory of a file and the segments of a specifier, walked one by one.
WalkStep(at, s) ==
  CASE s = ".." -> IF at = <<>> THEN at ELSE Front(at)
    [] s \in {"", "."} -> at
    [] OTHER -> Append(at, s)

\* Where the walk is after each number of steps, and in the end.
Walks(segs) ==
  LET at[n \in 0..Len(segs)] == IF n = 0 THEN <<>> ELSE WalkStep(at[n - 1], segs[n])
  IN  at
Walk(segs) == Walks(segs)[Len(segs)]

\* A walk leaves its root if it goes up from there.
Leaves(segs) == \E n \in 1..Len(segs) : segs[n] = ".." /\ Walks(segs)[n - 1] = <<>>

\* Every ".." follows the segment that it removes, or is the first.
Regular(segs) ==
  \A n \in 2..Len(segs) : segs[n] = ".." => segs[n - 1] \notin {".", ".."}

-----------------------------------------------------------------------------
(* util.c.  The faulty variants, here and below, stand before the operator  *)
(* that they vary.                                                         *)

DirnameTop(p) == IF Len(p.segs) = 1 THEN p ELSE [p EXCEPT !.segs = Front(@)]

\* dirname: "/a/b" -> "/a", "/a" -> "/", "http://host/a" -> "http://host".
dirname(p) ==
  [p EXCEPT !.segs = IF p.site = "file" /\ Len(@) = 1 THEN <<"">> ELSE Front(@)]

(* normalize_path on the segments that str_split has cut: ".." takes one   *)
(* from the stack, but from the total the length of the segment before it  *)
(* in the text, be that a name, "." or "..".  The index is Len(stack), or  *)
(* -under once it has gone below zero; from there a name is written in     *)
(* front of the stack, counted, and never copied to the result.            *)
TotalNoSlash(a, s) ==
  CASE s = ".." -> a.total - Len(a.prev)
    [] s = "." -> a.total
    [] OTHER -> a.total + Len(s) + 1

Total(a, s) ==
  CASE s = ".." -> a.total - (Len(a.prev) + 1)
    [] s = "." -> a.total
    [] OTHER -> a.total + Len(s) + 1

ScanStep(a, s) ==
  LET b == [a EXCEPT !.total = Total(a, s), !.prev = s]
  IN  CASE s = ".." /\ a.stack # <<>> -> [b EXCEPT !.stack = Front(@)]
        [] s = ".." /\ a.stack = <<>> -> [b EXCEPT !.under = @ + 1]
        [] s = "." -> b
        [] s \notin {".", ".."} /\ a.under > 0 -> [b EXCEPT !.under = @ - 1, !.astray = TRUE]
        [] OTHER -> [b EXCEPT !.stack = Append(@, s)]

ScanStart(segs) ==
  [stack |-> <<>>, under |-> 0, astray |-> FALSE, total |-> 0, prev |-> Head(segs)]

\* The index has been below zero.
Below(a) == a.under > 0 \/ a.astray

Scans(segs) ==
  LET a[n \in 0..Len(segs)] == IF n = 0 THEN ScanStart(segs) ELSE ScanStep(a[n - 1], segs[n])
  IN  a
Scan(segs) == Scans(segs)[Len(segs)]

\* The length of the text that is written: a slash and a segment for each in the stack.
Lengths(stack) ==
  LET sum[n \in 0..Len(stack)] == IF n = 0 THEN 0 ELSE sum[n - 1] + Len(stack[n]) + 1
  IN  sum
Written(stack) == Lengths(stack)[Len(stack)]

\* normalize_path of a relative path.  Without a slash after the host the copy
\* begins one character into the host, and the scheme is all that is kept; without
\* a host there is nothing to copy and the length given to memcpy wraps.
normalize_path(spec, dir) ==
  LET hostless == dir.site = "http" /\ dir.segs = <<>>
      scan == Scan((IF hostless THEN <<HostTail>> ELSE dir.segs) \o spec)
      wraps == dir.site = "nohost" /\ dir.segs = <<>>
  IN  [path |-> [site |-> IF hostless THEN "nohost" ELSE dir.site, segs |-> scan.stack],
       status |-> CASE wraps \/ scan.total # Written(scan.stack) -> "garbled"
                    [] OTHER -> IF Below(scan) THEN "astray" ELSE "ok"]

-----------------------------------------------------------------------------
(* main.cc. *)

\* The part of the referrer's path before its last slash, cut at the slashes.
Dir(p) ==
  LET raw == IF p.site = "file" THEN <<"">> \o p.segs ELSE p.segs
  IN  IF Len(raw) > 1 THEN Front(raw) ELSE <<"">>

\* The join: a single segment gets a slash, more are joined as they are.
Join(st) ==
  IF Len(st) > 1
  THEN IF Head(st) = "" THEN [site |-> "file", segs |-> Tail(st)]
                        ELSE [site |-> "rel", segs |-> st]
  ELSE [site |-> "file", segs |-> IF st = <<>> THEN <<"">> ELSE st]

PopStepKeeps(v, s) == IF s \in {".", ".."} THEN v ELSE Append(v, s)

PopStepDots(v, s) ==
  IF s # ".." THEN Append(v, s) ELSE IF v = <<>> THEN v ELSE Front(v)

\* "." is skipped, ".." pops even the empty segment in front of the root.
PopStep(v, s) ==
  CASE s = ".." -> IF v = <<>> THEN v ELSE Front(v)
    [] s = "." -> v
    [] OTHER -> Append(v, s)

Pops(segs) ==
  LET v[n \in 0..Len(segs)] == IF n = 0 THEN <<>> ELSE PopStep(v[n - 1], segs[n])
  IN  v

NormalizePath(spec, dir) == Join(Pops(dir \o spec)[Len(dir \o spec)])

-----------------------------------------------------------------------------
(* esm_init: an absolute argument is copied, another is normalized against *)
(* the working directory.  The prototypes name their entry themselves:     *)
(* "./js/main.js", or an absolute path.                                    *)

EntrySrc ==
  \/ \E a \in Absolute :
       /\ path = a /\ file = a /\ status = "ok" /\ regular = TRUE /\ rooted = TRUE
  \/ \E cwd \in {<<"">>} \cup {<<n>> : n \in Names}, spec \in Relative :
       LET result == normalize_path(spec, [site |-> "file", segs |-> cwd])
       IN  /\ path = result.path
           /\ status = result.status
           /\ file = [site |-> "file", segs |-> Walk(cwd \o spec)]
           /\ regular = Regular(Walk(cwd) \o spec)
           /\ rooted = ~Leaves(Walk(cwd) \o spec)

EntryProto ==
  /\ \E n, m \in Names :
       \/ /\ path = [site |-> "rel", segs |-> <<n, m>>]
          /\ file = [site |-> "cwd", segs |-> <<n, m>>]
       \/ /\ path = [site |-> "file", segs |-> <<n, m>>]
          /\ file = path
  /\ status = "ok" /\ regular = TRUE /\ rooted = TRUE

Init ==
  /\ \/ runtime = "src" /\ EntrySrc
     \/ runtime = "proto" /\ EntryProto
  /\ kept = TRUE /\ imports = 0

\* resolve_module_callback on an absolute specifier: it is copied as it stands.
ImportAbsolute(a) ==
  /\ status = "ok" /\ imports < MaxImports
  /\ runtime = "proto" => a.site = "file"
  /\ path' = a /\ file' = a /\ regular' = TRUE /\ rooted' = TRUE /\ kept' = TRUE
  /\ imports' = imports + 1
  /\ UNCHANGED <<runtime, status>>

\* The file that a relative specifier means, from the directory of the last one.
Means(spec) ==
  /\ file' = [file EXCEPT !.segs = Walk(Front(@) \o spec)]
  /\ Len(file'.segs) \in 1..MaxDepth
  /\ regular' = (regular /\ Regular(Front(file.segs) \o spec))
  /\ rooted' = (rooted /\ ~Leaves(Front(file.segs) \o spec))
  /\ imports' = imports + 1

\* resolve_module_callback of esm.cc.  A module directly under a host is the edge:
\* its directory has no slash after the host.
ImportSrc(spec) ==
  /\ runtime = "src" /\ status = "ok" /\ imports < MaxImports
  /\ LET result == normalize_path(spec, dirname(path))
     IN  /\ path' = result.path
         /\ status' = result.status
  /\ Means(spec)
  /\ kept' = (kept /\ ~(file.site = "http" /\ Len(file.segs) = 1))
  /\ UNCHANGED runtime

\* ResolveModuleCallback of main.cc.  The edge is a file that lies in the working
\* directory itself.
ImportProto(spec) ==
  /\ runtime = "proto" /\ imports < MaxImports
  /\ path' = NormalizePath(spec, Dir(path))
  /\ Means(spec)
  /\ kept' = (kept /\ (file.site = "cwd" => Len(file'.segs) > 1))
  /\ UNCHANGED <<runtime, status>>

Next ==
  \/ \E a \in Absolute : ImportAbsolute(a)
  \/ \E spec \in Relative : ImportSrc(spec) \/ ImportProto(spec)

Spec == Init /\ [][Next]_vars

-----------------------------------------------------------------------------
(* Properties. *)

\* The file that the kernel or the server finds under a path.
Found(p) ==
  [site |-> IF p.site = "rel" THEN "cwd" ELSE p.site, segs |-> Walk(p.segs)]

\* Paths and files keep their types; no "." or ".." is left in a computed path.
TypeOK ==
  /\ runtime \in {"src", "proto"} /\ status \in {"ok", "garbled", "astray"}
  /\ path \in Path /\ file \in File
  /\ {regular, rooted, kept} \subseteq BOOLEAN /\ imports \in 0..MaxImports

\* However long the chain, if every ".." of it removed the segment just before it
\* then normalize_path has computed a length that fits the text it wrote, and wrote
\* no segment outside its stack.
LengthFits == runtime = "src" /\ regular /\ kept => status = "ok"

\* As long as no specifier goes up from the root, a length that fits is the length of
\* the right file's path: ".." after "." or ".." makes the sum wrong, and the errors
\* of two or more may cancel, but the stack is right all the same.  It says nothing
\* of specifiers that go up from the root: "../../bb/a" from "/a/a" has the length of
\* "/a", which is what is returned, while "bb" went in front of the stack ("astray").
FitsIsRight ==
  runtime = "src" /\ kept /\ rooted /\ status # "garbled" =>
    status = "ok" /\ Found(path) = file

\* The prototypes resolve every chain that never goes up from the root, nor reaches a
\* file in the working directory itself, to the file it means.
ProtoResolves == runtime = "proto" /\ kept /\ rooted => Found(path) = file
=============================================================================
