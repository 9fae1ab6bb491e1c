------------------------------- MODULE FsShim -------------------------------
(***************************************************************************)
(* The functions of def_fs.js: what each asks of the bindings, and what    *)
(* the callback it passes makes of the answer.  Given no req, a function   *)
(* uses the Sync binding of the same name, and throws where there is none  *)
(* (chown, writeBuffers).  A function is the set of its rows, one for each *)
(* kind of arguments it treats differently.                                *)
(***************************************************************************)
EXTENDS Sequences

\* How a call with a req answers: by a request of the thread pool, from a later
\* tick or promise job without one, by throwing at once, or not at all.
Answers == {"request", "later", "throws", "never"}

\* The operations the model tells apart: on a path, on a descriptor, and those
\* that change the table of descriptors or the position in a file.
Ops == {"path", "descriptor", "open", "close", "transfer", "none"}

\* resolves: a relative path is resolved against process.cwd(), else it is left
\* to the operating system.  converts: the callback converts the value before
\* it completes the req, and throws when there is none.  memory: the worker
\* uses the memory of an array buffer; when a view is handed on as it is, the
\* bindings find no buffer in it, and 0 bytes are transferred.  keeps: the
\* callback refers to that buffer.
Row == [op : Ops, answer : Answers, resolves : BOOLEAN, converts : BOOLEAN,
        memory : BOOLEAN, keeps : BOOLEAN]

Plain(op) ==
    [op |-> op, answer |-> "request", resolves |-> TRUE, converts |-> FALSE,
     memory |-> FALSE, keeps |-> FALSE]

Unresolved(row) == [row EXCEPT !.resolves = FALSE]
Converting(row) == [row EXCEPT !.converts = TRUE]
NoRequest(how)  == [Plain("none") EXCEPT !.answer = how]

-----------------------------------------------------------------------------
access    == {Plain("path")}
rename    == {Plain("path")}
rmdir     == {Plain("path")}
link      == {Plain("path")}
unlink    == {Plain("path")}
chmod     == {Plain("path")}
lchown    == {Plain("path")}
chown     == {Plain("path")}
utimes    == {Plain("path")}
lutimes   == {Plain("path")}

ftruncate == {Plain("descriptor")}
fdatasync == {Plain("descriptor")}
fsync     == {Plain("descriptor")}
fchown    == {Plain("descriptor")}
futimes   == {Plain("descriptor")}

\* A mutation: the path is handed on as it is.
open_unresolved == {Unresolved(Plain("open"))}
open      == {Plain("open")}
close     == {Plain("close")}

\* With useBigint, arr.map is called whether or not there is an arr.
lstat     == {Unresolved(Plain("path")), Unresolved(Converting(Plain("path")))}
stat      == lstat
statfs    == lstat
fstat     == {Plain("descriptor"), Converting(Plain("descriptor"))}

\* With an encoding other than utf8, Buffer.from is.
readlink  == {Unresolved(Plain("path")), Unresolved(Converting(Plain("path")))}

\* The ArrayBuffer of what it is given, which the callback passes on.  It is
\* used from its beginning, wherever in it a view begins that is given: which
\* of its bytes are meant is not modelled.
read      == {[Plain("transfer") EXCEPT !.memory = TRUE, !.keeps = TRUE]}

\* Views.  A list without a view is answered from nextTick; otherwise the first
\* view reads nothing, which is taken for the end of the file.
readBuffers == {Plain("transfer"), NoRequest("later")}
writeBuffer == {Plain("transfer")}

\* The bindings have no write, no symlink and no fchmod, and the functions
\* have no encoding and no binding in scope.
writeBuffers == {NoRequest("throws"), NoRequest("later")}
writeString  == {NoRequest("throws")}
writeFileUtf8 == {NoRequest("throws")}
symlink      == {NoRequest("throws")}
fchmod       == {NoRequest("throws")}

\* A recursive mkdir has no dirname in scope: its promise is rejected.
mkdir     == {Plain("path"), NoRequest("later")}

readdir   == {NoRequest("never")}

Shim ==
    [access |-> access, rename |-> rename, rmdir |-> rmdir, link |-> link, unlink |-> unlink,
     chmod |-> chmod, lchown |-> lchown, chown |-> chown, utimes |-> utimes,
     lutimes |-> lutimes, ftruncate |-> ftruncate, fdatasync |-> fdatasync, fsync |-> fsync,
     fchown |-> fchown, futimes |-> futimes, open |-> open, close |-> close, lstat |-> lstat,
     stat |-> stat, statfs |-> statfs, fstat |-> fstat, readlink |-> readlink, read |-> read,
     readBuffers |-> readBuffers, writeBuffer |-> writeBuffer, writeBuffers |-> writeBuffers,
     writeString |-> writeString, writeFileUtf8 |-> writeFileUtf8, symlink |-> symlink, fchmod |-> fchmod, mkdir |-> mkdir,
     readdir |-> readdir]

Rows(functions) == UNION {Shim[f] : f \in functions}

\* Without a req: opens, reads until there is nothing, and closes whatever the
\* reading came to.  The path is not resolved, and the buffers it reads into
\* are views, so that it reads once.
readFileUtf8 == <<Unresolved(Plain("open")), Plain("transfer"), Plain("close")>>
=============================================================================
