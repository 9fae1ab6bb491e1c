---------------------------- MODULE NativePaths ----------------------------
(***************************************************************************)
(* The functions of bindings.c, and some operations of fs.inc with what    *)
(* they use of win_dirent.h, as the steps they go through.  A step obtains *)
(* a resource, or gives some back, or touches state outside the function.  *)
(* Most steps can fail: then the function, and the C functions that have   *)
(* called it, release what their error paths list, undo, and return.       *)
(*                                                                         *)
(* What is returned, or handed to an object that owns it, is given back.   *)
(***************************************************************************)
EXTENDS Sequences

Step(gets, puts, effect, fails, undo) ==
    [gets |-> gets, puts |-> puts, effect |-> effect, fails |-> fails, undo |-> undo,
     ways |-> {}, again |-> FALSE]

Get(r, undo)        == Step({r}, {}, "none", TRUE, undo)
Take(R)             == Step(R, {}, "none", FALSE, {})
Try(undo)           == Step({}, {}, "none", TRUE, undo)
Put(R)              == Step({}, R, "none", FALSE, {})
Do(effect)          == Step({}, {}, effect, FALSE, {})
TryTo(effect, undo) == Step({}, {}, effect, TRUE, undo)

\* A condition, or a loop over something that the model does not look at.
Either(ways) == [Step({}, {}, "none", FALSE, {}) EXCEPT !.ways = ways]
Loop(body)   == [Step({}, {}, "none", FALSE, {}) EXCEPT !.ways = {<<>>, body}, !.again = TRUE]

Maybe(steps) == Either({<<>>, steps})
Returns == <<>>

-----------------------------------------------------------------------------
(* Conversions.  Each asks for the size, allocates, and converts; the      *)
(* string to convert belongs to JavaScript.  undo is what the callers      *)
(* release when they get no result.                                        *)

utf8_to_wchar(undo) ==
    <<TryTo("string", undo), Get("wide", undo), TryTo("string", undo \cup {"wide"})>>

wstr_to_utf8(undo) ==
    <<Try(undo), Get("utf8", undo), Try(undo \cup {"utf8"})>>

\* A wide string in a local array, returned as a JavaScript string.
FromWide == wstr_to_utf8({}) \o <<Put({"utf8"})>>

-----------------------------------------------------------------------------
(* About the process.                                                      *)

arch     == Returns
platform == Returns
hrtime   == Returns
pid      == Returns

cwd ==
    <<Try({}), Get("wide", {}), Try({"wide"})>>
      \o wstr_to_utf8({"wide"}) \o <<Put({"wide", "utf8"})>>

\* The buffer is doubled until the path fits.  The result of js_realloc takes
\* the place of the only pointer to the buffer, so when it fails there is
\* nothing left to free the old one by.
execPath ==
    <<Get("wide", {}), Try({"wide"}), Loop(<<Get("wide", {}), Try({"wide"})>>)>>
      \o wstr_to_utf8({"wide"}) \o <<Put({"wide", "utf8"})>>

title ==
    execPath \o <<Take({"path"}), Get("cstring", {"path"}), Put({"cstring", "path"})>>

\* Without a snapshot the answer is 0.
GetParentPID == <<Maybe(<<Take({"snapshot"}), Put({"snapshot"})>>)>>

ppid == GetParentPID

env == <<Get("environment", {}), Put({"environment"})>>

js_argv == <<Get("array", {}), Loop(<<Try({"array"})>>), Put({"array"})>>

\* The process is opened, and closed again before it is looked whether it
\* could be terminated; signal 0 only opens it.  It may be this one.
js_kill ==
    <<Try({}), Get("process", {}), Maybe(<<Do("terminate")>>),
      Put({"process"}), Maybe(<<Try({})>>)>>

-----------------------------------------------------------------------------
(* About the system.                                                       *)

endianness == Returns
freemem    == <<Try({})>>
totalmem   == <<Try({})>>
uptime     == Returns
osType     == Returns
tmpdir     == Returns
uid        == Returns
gid        == Returns
shell      == Returns

homedir    == <<Try({})>> \o FromWide
hostname   == <<Try({})>> \o FromWide
username   == <<Try({})>> \o FromWide
osMachine  == FromWide

\* One of two ways to ask for the version, or neither.
osRelease  == <<Try({})>> \o FromWide

\* Without the registry key the name is empty.
osVersion  == <<Maybe(<<Take({"key"}), Put({"key"})>>)>> \o FromWide

osConstants ==
    <<Take({"dlopen", "errnum", "signals", "priority", "constants"}),
      Put({"dlopen", "errnum", "signals", "priority"}), Put({"constants"})>>

fsConstants == <<Take({"constants"}), Put({"constants"})>>

isExternal              == Returns
isProxy                 == Returns
isModuleNamespaceObject == Returns
getProxyTarget          == Returns
getProxyHandler         == Returns
getPromiseState         == Returns
getPromiseResult        == Returns

-----------------------------------------------------------------------------
(* What changes state of the process that other threads see.               *)

\* The string is converted, the stream set to UTF-16, written to, and set back.
PrintTo(wide, print, back) ==
    <<Get("cstring", {})>> \o utf8_to_wchar({"cstring"})
      \o <<Put({"cstring"}), TryTo(wide, {}), Do(print), Do(back), Put({"wide"})>>

js_stdout == <<Maybe(PrintTo("stdout wide", "stdout print", "stdout back"))>>
js_stderr == <<Maybe(PrintTo("stderr wide", "stderr print", "stderr back"))>>

\* There is no asking for the mask without setting it: a query sets all of it
\* and then sets it back.  A mask of all ones is taken for a query.
QueryMask_noRestore == <<Do("mask all")>>
QueryMask == <<Do("mask all"), Do("mask back")>>

js_umask ==
    <<Either({QueryMask,
              <<Try({}), Either({QueryMask, <<Do("mask on")>>, <<Do("mask off")>>})>>})>>

\* What the workers of unfinished requests use is freed before the process ends.
js_exit == <<Maybe(<<Try({})>>), Do("free runtime"), Do("end")>>

reallyExit_clean == <<Do("free runtime"), Do("end")>>
reallyExit == <<Do("end")>>

js_abort == <<Do("terminate")>>

\* The end of main, after the loop.
main == <<Do("free runtime"), Do("end")>>

-----------------------------------------------------------------------------
(* File operations that workers run.                                       *)

fs_open         == utf8_to_wchar({}) \o <<Do("create"), Put({"wide"})>>
fs_unlink       == utf8_to_wchar({}) \o <<Put({"wide"})>>
fs_write_buffer == <<Do("write")>>
fs_close        == Returns

(* Directories.  An entry is opened to see whether it is a link, and once  *)
(* more for its number.                                                    *)

__get_buffer(undo) == <<Get("name", undo)>>

__islink == Maybe(<<Take({"link"}), Put({"link"})>>)
__inode  == Maybe(<<Take({"file"}), Put({"file"})>>)

__internal_opendir_keepsBuffer(undo) ==
    LET found == undo \cup {"find"}
        data  == found \cup {"data", "handle"}
        all   == data \cup {"entries", "buffer"}
    IN  <<Get("find", undo), Get("data", found), Take({"handle"}),
          Get("entries", data), Get("buffer", data \cup {"entries"}),
          Loop(<<__islink, __inode, Maybe(<<Get("entries", all \ {"buffer"})>>)>>),
          Put({"buffer", "find"})>>

\* The entries found are copied into an array that is doubled when it is full.
\* A handle of the directory that could not be opened is kept all the same.
__internal_opendir(undo) ==
    LET found == undo \cup {"find"}
        data  == found \cup {"data", "handle"}
        all   == data \cup {"entries", "buffer"}
    IN  <<Get("find", undo), Get("data", found), Take({"handle"}),
          Get("entries", data), Get("buffer", data \cup {"entries"}),
          Loop(<<__islink, __inode, Maybe(<<Get("entries", all)>>)>>),
          Put({"buffer", "find"})>>

_wopendir(undo) ==
    __get_buffer(undo) \o <<Try(undo \cup {"name"})>>
      \o __internal_opendir(undo \cup {"name"}) \o <<Put({"name"})>>

Directory == {"data", "handle", "entries"}
closedir == <<Put(Directory)>>

\* The names are copied into an array that is doubled too; strs stands for
\* the array and the names in it, which the error paths free one by one.
\* errno is looked at after the directory has been closed.
fs_readdir ==
    utf8_to_wchar({}) \o _wopendir({"wide"}) \o <<Put({"wide"})>>
      \o <<Get("strs", Directory),
           Loop(<<Maybe(<<Get("strs", Directory \cup {"strs"})>>),
                  Try(Directory \cup {"strs"})>>)>>
      \o closedir \o <<Try({"strs"}), Put({"strs"})>>
=============================================================================
