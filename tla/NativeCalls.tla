---------------------------- MODULE NativeCalls ----------------------------
(***************************************************************************)
(* The JavaScript thread calls the functions of bindings.c while workers   *)
(* of the thread pool run file operations.  What the threads share belongs *)
(* to the process: the file mode creation mask, the translation modes of   *)
(* the standard streams, and the memory of the JavaScript runtime, which   *)
(* the strings and array buffers of unfinished requests live in.           *)
(*                                                                         *)
(* A thread walks along a path of NativePaths, one step at a time.         *)
(***************************************************************************)
EXTENDS NativePaths

CONSTANTS Worker,     \* workers that have a request to run
          JS,         \* the JavaScript thread
          None        \* no function

Thread == Worker \cup {JS}


Stream == {"stdout", "stderr"}

\* The functions a script can call, and the end of main: after the loop has run
\* out of work, or after a promise job has thrown, with requests unfinished.
Bindings ==
    [arch |-> arch, platform |-> platform, hrtime |-> hrtime, pid |-> pid, cwd |-> cwd,
     execPath |-> execPath, title |-> title, ppid |-> ppid, env |-> env, argv |-> js_argv,
     kill |-> js_kill, endianness |-> endianness, freemem |-> freemem, totalmem |-> totalmem,
     uptime |-> uptime, osType |-> osType, tmpdir |-> tmpdir, uid |-> uid, gid |-> gid,
     shell |-> shell, homedir |-> homedir, hostname |-> hostname, username |-> username,
     osMachine |-> osMachine, osRelease |-> osRelease, osVersion |-> osVersion,
     osConstants |-> osConstants, fsConstants |-> fsConstants, isExternal |-> isExternal,
     isProxy |-> isProxy, isModuleNamespaceObject |-> isModuleNamespaceObject,
     getProxyTarget |-> getProxyTarget, getProxyHandler |-> getProxyHandler,
     getPromiseState |-> getPromiseState, getPromiseResult |-> getPromiseResult,
     stdout |-> js_stdout, stderr |-> js_stderr, umask |-> js_umask,
     exit |-> js_exit, reallyExit |-> reallyExit, abort |-> js_abort,
     main |-> main, mainAfterThrow |-> main]

Operations ==
    [open |-> fs_open, unlink |-> fs_unlink, write |-> fs_write_buffer,
     close |-> fs_close, readdir |-> fs_readdir]

ASSUME ThreadAssumption ==
    /\ JS \notin Worker
    /\ None \notin DOMAIN Bindings \cup DOMAIN Operations

VARIABLES
    call,       \* per thread: the function it is in, or None
    todo,       \* ... the steps it has left in it
    held,       \* ... what it holds there
    failed,     \* ... whether it is returning an error
    mask,       \* does the process mask withhold the right to write?
    saved,      \* the mask that js_umask has read
    wanted,     \* the mask the script has last set
    wide,       \* streams that are set to UTF-16
    redirected, \* stdout is a file or a pipe, and so has a buffer
    pending,    \* there is text in the buffer of stdout
    runtime,    \* the JavaScript runtime: "up", "freed", and the process "over"
    odd,        \* history: what went to the system under another state than asked
    touched     \* history: operations that used freed memory of the runtime

local == <<call, todo, held, failed>>
shared == <<mask, saved, wanted, wide, redirected, pending, runtime, odd, touched>>
vars == <<local, shared>>

TypeOK ==
    /\ call \in [Thread -> DOMAIN Bindings \cup DOMAIN Operations \cup {None}]
    /\ failed \in [Thread -> BOOLEAN]
    /\ mask \in BOOLEAN /\ saved \in BOOLEAN /\ wanted \in BOOLEAN
    /\ wide \in SUBSET Stream
    /\ redirected \in BOOLEAN /\ pending \in BOOLEAN
    /\ runtime \in {"up", "freed", "over"}
    /\ odd \in SUBSET [what : {"created", "written", "flushed", "lost"},
                       during : DOMAIN Bindings \cup {None}]
    /\ touched \in SUBSET DOMAIN Operations

Init ==
    /\ call = [t \in Thread |-> None]
    /\ todo = [t \in Thread |-> <<>>]
    /\ held = [t \in Thread |-> {}]
    /\ failed = [t \in Thread |-> FALSE]
    /\ mask = FALSE /\ saved = FALSE /\ wanted = FALSE
    /\ wide = {} /\ pending = FALSE
    /\ redirected \in BOOLEAN
    /\ runtime = "up"
    /\ odd = {} /\ touched = {}

Busy(t) == call[t] # None

-----------------------------------------------------------------------------
(* What a step does to the state of the process.                           *)

Saw(what) == odd' = odd \cup {[what |-> what, during |-> call[JS]]}

\* A string or an array buffer of the runtime is read or written.
UsesRuntime(t) ==
    touched' = IF runtime = "freed" THEN touched \cup {call[t]} ELSE touched

SetMask(new) ==
    /\ mask' = new
    /\ UNCHANGED <<wide, redirected, pending, runtime, odd, touched>>

\* The runtime of C keeps only the bit for writing of a mask.
MaskEffect(e) ==
    \/ e = "mask all"  /\ SetMask(TRUE)  /\ saved' = mask /\ UNCHANGED wanted
    \/ e = "mask back" /\ SetMask(saved) /\ UNCHANGED <<saved, wanted>>
    \/ e = "mask on"   /\ SetMask(TRUE)  /\ wanted' = TRUE  /\ UNCHANGED saved
    \/ e = "mask off"  /\ SetMask(FALSE) /\ wanted' = FALSE /\ UNCHANGED saved

\* Text for a file or a pipe stays in the buffer of the stream unless that is
\* full; it is translated when it leaves the buffer.
StreamEffect(e) ==
    /\ \/ e = "stdout wide" /\ wide' = wide \cup {"stdout"} /\ UNCHANGED pending
       \/ e = "stderr wide" /\ wide' = wide \cup {"stderr"} /\ UNCHANGED pending
       \/ e = "stdout back" /\ wide' = wide \ {"stdout"} /\ UNCHANGED pending
       \/ e = "stderr back" /\ wide' = wide \ {"stderr"} /\ UNCHANGED pending
       \/ e = "stdout print" /\ pending' \in {FALSE, redirected} /\ UNCHANGED wide
       \/ e = "stderr print" /\ UNCHANGED <<pending, wide>>
    /\ UNCHANGED <<mask, saved, wanted, redirected, runtime, odd, touched>>

\* exit writes out what the streams still hold, terminating does not.
EndEffect(e) ==
    /\ \/ e = "free runtime" /\ runtime' = "freed" /\ UNCHANGED <<pending, odd>>
       \/ /\ e = "end" /\ runtime' = "over" /\ pending' = FALSE
          /\ IF pending /\ "stdout" \notin wide THEN Saw("flushed") ELSE UNCHANGED odd
       \/ /\ e = "terminate" /\ runtime' = "over" /\ UNCHANGED pending
          /\ IF pending THEN Saw("lost") ELSE UNCHANGED odd
    /\ UNCHANGED <<mask, saved, wanted, wide, redirected, touched>>

\* A file gets the mask of the moment; bytes for a standard stream, the
\* translation of the moment.
WorkerEffect(t, e) ==
    /\ \/ e = "string" /\ UsesRuntime(t) /\ UNCHANGED odd
       \/ /\ e = "create"
          /\ IF mask # wanted THEN Saw("created") ELSE UNCHANGED odd
          /\ UNCHANGED touched
       \/ /\ e = "write" /\ UsesRuntime(t)
          /\ \E s \in Stream : IF s \in wide THEN Saw("written") ELSE UNCHANGED odd
    /\ UNCHANGED <<mask, saved, wanted, wide, redirected, pending, runtime>>

Effect(t, e) ==
    \/ e = "none" /\ UNCHANGED shared
    \/ MaskEffect(e)
    \/ StreamEffect(e)
    \/ EndEffect(e)
    \/ WorkerEffect(t, e)

-----------------------------------------------------------------------------
(* A call: one step after the other succeeds, or one fails.                *)

Enter(t, f, p) ==
    /\ ~Busy(t)
    /\ call' = [call EXCEPT ![t] = f]
    /\ todo' = [todo EXCEPT ![t] = p]
    /\ UNCHANGED <<held, failed, shared>>

ScriptCall(f) ==
    /\ runtime = "up"
    /\ f = "main" => \A w \in Worker : ~Busy(w)
    /\ Enter(JS, f, Bindings[f])

\* The pool runs a request that has been accepted.  The loop ends with none.
WorkerCall(w, f) ==
    /\ runtime # "over"
    /\ call[JS] # "main"
    /\ Enter(w, f, Operations[f])

Choose(t) ==
    /\ todo[t] # <<>> /\ runtime # "over"
    /\ LET step == Head(todo[t])
       IN  \E way \in step.ways :
              todo' = [todo EXCEPT ![t] =
                         IF step.again /\ way # <<>> THEN way \o @ ELSE way \o Tail(@)]
    /\ UNCHANGED <<call, held, failed, shared>>

Succeed(t) ==
    /\ todo[t] # <<>> /\ runtime # "over"
    /\ Head(todo[t]).ways = {}
    /\ LET step == Head(todo[t])
       IN  /\ held' = [held EXCEPT ![t] = (@ \cup step.gets) \ step.puts]
           /\ Effect(t, step.effect)
    /\ todo' = [todo EXCEPT ![t] = Tail(@)]
    /\ UNCHANGED <<call, failed>>

Fail(t) ==
    /\ todo[t] # <<>> /\ runtime # "over"
    /\ Head(todo[t]).fails
    /\ held' = [held EXCEPT ![t] = @ \ Head(todo[t]).undo]
    /\ todo' = [todo EXCEPT ![t] = <<>>]
    /\ failed' = [failed EXCEPT ![t] = TRUE]
    /\ UNCHANGED <<call, shared>>

Return(t) ==
    /\ Busy(t) /\ todo[t] = <<>> /\ runtime # "over"
    /\ call' = [call EXCEPT ![t] = None]
    /\ held' = [held EXCEPT ![t] = {}]
    /\ failed' = [failed EXCEPT ![t] = FALSE]
    /\ UNCHANGED <<todo, shared>>

Next ==
    \/ \E f \in DOMAIN Bindings : ScriptCall(f)
    \/ \E w \in Worker, f \in DOMAIN Operations : WorkerCall(w, f)
    \/ \E t \in Thread : Choose(t) \/ Succeed(t) \/ Fail(t) \/ Return(t)

Spec == Init /\ [][Next]_vars

-----------------------------------------------------------------------------
(* Properties.                                                             *)

\* Whatever step of a call fails, it releases what it holds, once, and nothing
\* else.  Three functions are known to leave their wide string behind: two
\* when the stream cannot be set to UTF-16, and execPath, which title calls,
\* when the second or a later js_realloc fails.
ResourcesBalance ==
    \A t \in Thread :
       /\ todo[t] # <<>> =>
             /\ Head(todo[t]).puts \subseteq held[t]
             /\ Head(todo[t]).undo \subseteq held[t]
       /\ Busy(t) /\ todo[t] = <<>> /\ runtime # "over" =>
             held[t] \subseteq
                IF failed[t] /\ call[t] \in {"execPath", "title", "stdout", "stderr"}
                THEN {"wide"} ELSE {}

\* Mask and translation modes are the script's at every moment, and for every
\* file and every byte of a worker, but while the script asks for the mask
\* or prints: then a file can come out read-only, and bytes translated as
\* UTF-16.  Text printed to a file or a pipe can leave its buffer after the
\* mode has been set back, and is lost when the process does not exit but is
\* terminated.
SharedStateAsAsked ==
    /\ mask # wanted => call[JS] = "umask"
    /\ wide # {} => call[JS] \in Stream
    /\ \A o \in odd :
          \/ o.what = "created" /\ o.during = "umask"
          \/ o.what = "written" /\ o.during \in Stream
          \/ o.what = "flushed" /\ redirected
          \/ o.what = "lost" /\ redirected /\ o.during \in {"abort", "kill"}

\* Memory of the runtime is used after it has been freed only by workers whose
\* requests process.exit, or a promise job that throws, did not wait for: a
\* loop that has come to its end has none, and reallyExit frees nothing.
FreedOnlyUnderAbandoned ==
    touched # {} =>
        /\ runtime # "up"
        /\ call[JS] \in {"exit", "mainAfterThrow"}
        /\ touched \subseteq {"open", "unlink", "write", "readdir"}
=============================================================================
