------------------------------ MODULE FsScript ------------------------------
(***************************************************************************)
(* Scripts that use the file system through def_fs.js: descriptors that    *)
(* are numbers, a file position that belongs to the open file, a directory *)
(* that only process.js knows of, and buffers that workers write to.       *)
(*                                                                         *)
(* A call with a req is a request of the thread pool, of which AsyncRequest*)
(* says what a caller may rely on.  A call without one is run by the       *)
(* script's own thread, while the workers go on.                           *)
(***************************************************************************)
EXTENDS Integers, FsShim

CONSTANTS Functions,    \* the functions of def_fs.js that the script uses
          Req,          \* the calls with a req that it makes
          Descriptors,  \* the numbers for open files
          MaxOpens,     \* how many files are opened, bound of the model
          MaxSync,      \* how many calls without a req, bound of the model
          Positions,    \* the positions it gives
          LongSize,     \* 2^32: _lseek takes a long, position is an int64_t
          Directories,  \* of which one is Home, where the program was started
          Home,
          Script,       \* the script's own thread
          None

ASSUME ScriptAssumption ==
    /\ Functions \subseteq DOMAIN Shim
    /\ Descriptors \subseteq Nat
    /\ MaxOpens \in Nat /\ MaxSync \in Nat
    /\ Positions \subseteq Nat /\ LongSize \in Nat \ {0}
    /\ Home \in Directories
    /\ Script \notin Req /\ None \notin Req \cup Nat \cup {Script}

VARIABLES
    state,      \* of each request of the pool
    call,       \* what each caller has asked for and how far it has come
    table,      \* the file open under each descriptor, 0 for none
    mover,      \* whose position each file is at, if it has been set and not used
    opened,     \* how many files have been opened
    handles,    \* the descriptors the script has been given, and their files
    ended,      \* the files it has asked to be closed
    buffers,    \* the requests whose buffers it still refers to
    cwd,        \* what process.cwd() returns
    lost,       \* the reqs that nothing will complete
    synced,     \* how many calls without a req there were
    careless,   \* history: it used, or closed, what it was closing or using
    overlapped  \* history: the files it had two transfers on at a time

Pool == INSTANCE AsyncRequest WITH Request <- Req

pooled  == <<state, lost>>
files   == <<table, mover, opened>>
script  == <<handles, ended, buffers, cwd, synced, careless, overlapped>>
vars    == <<pooled, call, files, script>>

Files  == 1 .. MaxOpens
Caller == Req \cup {Script}

\* What a call may turn out to have used that its caller did not mean.
Matters == {"file", "position", "directory", "memory"}

\* rest is what a function without a req goes on with, position None for the
\* present one.
Call == [function : Functions \cup {"readFileUtf8", None},
         row : Rows(Functions) \cup {Plain("none")}
                 \cup {readFileUtf8[i] : i \in DOMAIN readFileUtf8},
         rest : {<<>>} \cup {SubSeq(readFileUtf8, i, 3) : i \in 2 .. 3},
         fd : Descriptors \cup {None}, file : Files \cup {0}, dir : Directories,
         position : Positions \cup {0, None}, step : {"begin", "sought", "done"},
         failed : BOOLEAN, amiss : SUBSET Matters]

Idle == [function |-> None, row |-> Plain("none"), rest |-> <<>>, fd |-> None, file |-> 0, dir |-> Home,
         position |-> None, step |-> "begin", failed |-> FALSE, amiss |-> {}]

TypeOK ==
    /\ Pool!TypeOK
    /\ call \in [Caller -> Call]
    /\ table \in [Descriptors -> Files \cup {0}]
    /\ mover \in [Files -> Caller \cup {None}]
    /\ opened \in 0 .. MaxOpens
    /\ handles \subseteq Descriptors \X Files
    /\ ended \subseteq Files
    /\ buffers \subseteq Req
    /\ cwd \in Directories
    /\ lost \subseteq Req
    /\ synced \in 0 .. MaxSync
    /\ careless \in BOOLEAN
    /\ overlapped \subseteq Files

Init ==
    /\ Pool!Init
    /\ call = [c \in Caller |-> Idle]
    /\ table = [d \in Descriptors |-> 0]
    /\ mover = [f \in Files |-> None]
    /\ opened = 0
    /\ handles = {}
    /\ ended = {}
    /\ buffers = {}
    /\ cwd = Home
    /\ lost = {}
    /\ synced = 0
    /\ careless = FALSE
    /\ overlapped = {}

-----------------------------------------------------------------------------
(* The script calls, when its thread is not busy with a call.              *)

Free == call[Script] = Idle

\* The calls on a file that have not been answered.
Unanswered(file) == {c \in Caller : call[c].file = file}

\* The call c of the function f with the given row, on the handle h, if any.
\* It is noted what the script did that it cannot expect to go well.
Ask(c, f, row, rest, h, position) ==
    LET other == Unanswered(h[2])
        \* two transfers at a time
        twice == row.op = "transfer" /\ \E o \in other : call[o].row.op = "transfer"
    IN  /\ call' = [call EXCEPT ![c] =
                      [Idle EXCEPT !.function = f, !.row = row, !.rest = rest,
                                   !.fd = h[1], !.file = h[2], !.position = position,
                                   !.dir = IF row.op \in {"path", "open"} THEN cwd ELSE Home]]
        /\ careless' = (careless \/ h[2] \in ended \/ (row.op = "close" /\ other # {}))
        /\ ended' = IF row.op = "close" THEN ended \cup {h[2]} ELSE ended
        /\ overlapped' = IF twice THEN overlapped \cup {h[2]} ELSE overlapped
        /\ UNCHANGED <<files, handles, cwd>>

NoHandle == <<None, 0>>

\* The arguments of a call: a handle if it needs one, and for a transfer the
\* position, if one is given.
Arguments(op) ==
    (IF op \in {"descriptor", "close", "transfer"} THEN handles ELSE {NoHandle})
      \X (IF op = "transfer" THEN Positions \cup {None} ELSE {None})

MayAsk(r, row, answer) == Free /\ r \notin lost /\ row.answer = answer

\* With a req: it is handed to the pool.
AskPool(r, f, row) ==
    /\ MayAsk(r, row, "request")
    /\ Pool!Accept(r)
    /\ \E a \in Arguments(row.op) : Ask(r, f, row, <<>>, a[1], a[2])
    /\ buffers' = IF row.memory THEN buffers \cup {r} ELSE buffers
    /\ UNCHANGED <<lost, synced>>

\* With a req that is completed from a later tick, or promise job.
AskLater(r, row) ==
    /\ MayAsk(r, row, "later")
    /\ Pool!AcceptCompleted(r)
    /\ UNCHANGED <<lost, call, files, script>>

\* The call throws: the script knows that there will be no answer.
AskThrows(r, row) ==
    /\ MayAsk(r, row, "throws")
    /\ Pool!Refuse(r)
    /\ UNCHANGED <<lost, call, files, script>>

\* The call returns, and that was all.
AskNever(r, row) ==
    /\ MayAsk(r, row, "never")
    /\ state[r] = "idle"
    /\ lost' = lost \cup {r}
    /\ call' = [call EXCEPT ![r].row = row]
    /\ UNCHANGED <<state, files, script>>

\* Without a req.
AskSync(f, row) ==
    /\ Free
    /\ row.answer = "request"
    /\ synced < MaxSync /\ synced' = synced + 1
    /\ \E a \in Arguments(row.op) : Ask(Script, f, row, <<>>, a[1], a[2])
    /\ UNCHANGED <<pooled, buffers>>

AskReadFile ==
    /\ Free
    /\ synced < MaxSync /\ synced' = synced + 1
    /\ Ask(Script, "readFileUtf8", Head(readFileUtf8), Tail(readFileUtf8), NoHandle, None)
    /\ UNCHANGED <<pooled, buffers>>

\* process.chdir: only the variable changes.
Chdir(d) ==
    /\ Free
    /\ cwd' = d
    /\ UNCHANGED <<pooled, call, files, handles, ended, buffers, synced, careless, overlapped>>

\* The script no longer refers to the buffer of a request.
DropBuffer(r) ==
    /\ Free
    /\ r \in buffers
    /\ buffers' = buffers \ {r}
    /\ UNCHANGED <<pooled, call, files, handles, ended, cwd, synced, careless, overlapped>>

-----------------------------------------------------------------------------
(* The operations, run by a worker for a request, or by the script.        *)

Runs(c, op) ==
    /\ call[c].row.op = op
    /\ call[c].step # "done"
    /\ c \in Req => state[c] = "accepted"

\* The operation is over; what it used is told from what was meant.  Nothing
\* but these looks at whether it failed.
Finish(c, failed, amiss) ==
    /\ call' = [call EXCEPT ![c].step = "done", ![c].amiss = amiss,
                            ![c].failed = failed /\ (call[c].row.converts \/ call[c].row.op = "open")]
    /\ IF c = Script THEN UNCHANGED state ELSE Pool!Complete(c)
    /\ UNCHANGED <<lost, script>>

\* The file that the operation finds under its descriptor.
Found(c) == table[call[c].fd]

Amiss(c) == IF Found(c) = call[c].file THEN {} ELSE {"file"}

\* Every operation can fail for reasons of its own.
Outcomes(c) == IF Found(c) = 0 THEN {TRUE} ELSE BOOLEAN

\* The directory that a relative path ends up in: what is not resolved, the
\* system takes from where the program was started.
Directory(c) == IF call[c].row.resolves THEN call[c].dir ELSE Home

Astray(c) == IF Directory(c) = call[c].dir THEN {} ELSE {"directory"}

OnPath(c) ==
    /\ Runs(c, "path")
    /\ \E failed \in BOOLEAN : Finish(c, failed, Astray(c))
    /\ UNCHANGED files

OnDescriptor(c) ==
    /\ Runs(c, "descriptor")
    /\ \E failed \in Outcomes(c) : Finish(c, failed, Amiss(c))
    /\ UNCHANGED files

\* The lowest number that is free.
FreeNumbers == {d \in Descriptors : table[d] = 0}

Open(c) ==
    /\ Runs(c, "open")
    /\ opened < MaxOpens
    /\ \E d \in FreeNumbers :
         /\ \A e \in FreeNumbers : d <= e
         /\ opened' = opened + 1
         /\ table' = [table EXCEPT ![d] = opened + 1]
         /\ call' = [call EXCEPT ![c].step = "done", ![c].fd = d, ![c].file = opened + 1,
                                 ![c].amiss = Astray(c)]
    /\ IF c = Script THEN UNCHANGED state ELSE Pool!Complete(c)
    /\ UNCHANGED <<lost, mover, script>>

OpenFails(c) ==
    /\ Runs(c, "open")
    /\ Finish(c, TRUE, Astray(c))
    /\ UNCHANGED files

Close(c) ==
    /\ Runs(c, "close")
    /\ table' = [table EXCEPT ![call[c].fd] = 0]
    /\ Finish(c, Found(c) = 0, Amiss(c))
    /\ UNCHANGED <<mover, opened>>

\* What is left of a position in a long, and the positions that it leaves be.
ToLong(p) == ((p + LongSize \div 2) % LongSize) - LongSize \div 2
Fits(p) == ToLong(p) = p

Positioned(c) == call[c].position # None

\* A transfer at a position sets the position first, in a call of its own,
\* which fails when what is left of it is negative.
Seek(c) ==
    /\ Runs(c, "transfer")
    /\ Positioned(c) /\ call[c].step = "begin"
    /\ Found(c) # 0
    /\ ToLong(call[c].position) >= 0
    /\ mover' = [mover EXCEPT ![Found(c)] = IF Fits(call[c].position) THEN c ELSE None]
    /\ call' = [call EXCEPT ![c].step = "sought"]
    /\ UNCHANGED <<pooled, table, opened, script>>

TransferFails(c) ==
    /\ Runs(c, "transfer")
    /\ TRUE \in Outcomes(c)
    /\ Finish(c, TRUE, {})
    /\ UNCHANGED files

InPlace_unsought(c) == TRUE
InPlace(c) == Positioned(c) => call[c].step = "sought"

\* The callback keeps the buffer that it passes on; a call without one has it
\* among its arguments.
HasMemory(c) == c \in buffers \cup {Script} \/ call[c].row.keeps

Transfer(c) ==
    /\ Runs(c, "transfer")
    /\ InPlace(c)
    /\ Found(c) # 0
    /\ mover' = [mover EXCEPT ![Found(c)] = None]
    /\ Finish(c, FALSE,
              Amiss(c) \cup (IF Positioned(c) /\ mover[Found(c)] # c
                             THEN {"position"} ELSE {})
                       \cup (IF call[c].row.memory /\ ~HasMemory(c)
                             THEN {"memory"} ELSE {}))
    /\ UNCHANGED <<table, opened>>

Work(c) ==
    \/ OnPath(c)
    \/ OnDescriptor(c)
    \/ Open(c)
    \/ OpenFails(c)
    \/ Close(c)
    \/ Seek(c)
    \/ TransferFails(c)
    \/ Transfer(c)

-----------------------------------------------------------------------------
(* Answers.                                                                *)

\* An opened descriptor is in the script's hands once it is answered.
Given(c) ==
    IF call[c].row.op = "open" /\ ~call[c].failed
    THEN {<<call[c].fd, call[c].file>>}
    ELSE {}

Throws(r) == call[r].failed /\ call[r].row.converts

\* The callback completes the req, with the error or the value.
Deliver(r) ==
    /\ Free
    /\ Pool!Deliver(r)
    /\ handles' = handles \cup Given(r)
    /\ buffers' = buffers \ {r}
    /\ IF Throws(r)
       THEN /\ lost' = lost \cup {r}
            /\ call' = [call EXCEPT ![r] = [Idle EXCEPT !.row = call[r].row]]
       ELSE /\ call' = [call EXCEPT ![r] = Idle]
            /\ UNCHANGED lost
    /\ UNCHANGED <<files, ended, cwd, synced, careless, overlapped>>

\* A call without a req returns, or throws.
Return ==
    /\ call[Script].step = "done"
    /\ call[Script].rest = <<>> \/ (call[Script].row.op = "open" /\ call[Script].failed)
    /\ handles' = handles \cup Given(Script)
    /\ call' = [call EXCEPT ![Script] = Idle]
    /\ UNCHANGED <<pooled, files, ended, buffers, cwd, synced, careless, overlapped>>

\* readFileUtf8 goes on with the file that it has opened, which it closes
\* whether the read has failed or not.  It gives null for a position, which
\* the bindings take for 0.
GoOn ==
    /\ call[Script].step = "done"
    /\ call[Script].rest # <<>>
    /\ ~(call[Script].row.op = "open" /\ call[Script].failed)
    /\ call' = [call EXCEPT ![Script] =
                  [Idle EXCEPT !.function = call[Script].function,
                               !.row = Head(call[Script].rest),
                               !.rest = Tail(call[Script].rest),
                               !.fd = call[Script].fd, !.file = call[Script].file,
                               !.position = 0]]
    /\ UNCHANGED <<pooled, files, script>>

Next ==
    \/ \E f \in Functions : \E row \in Shim[f] :
          \/ AskSync(f, row)
          \/ \E r \in Req :
                \/ AskPool(r, f, row)
                \/ AskLater(r, row)
                \/ AskThrows(r, row)
                \/ AskNever(r, row)
    \/ AskReadFile
    \/ \E d \in Directories : Chdir(d)
    \/ \E r \in Req : DropBuffer(r)
    \/ \E c \in Caller : Work(c)
    \/ \E r \in Req : Deliver(r)
    \/ Return
    \/ GoOn

\* Workers finish what they have begun, and the loop comes round.
Fairness ==
    /\ \A c \in Caller : WF_vars(Work(c))
    /\ \A r \in Req : WF_vars(Deliver(r))
    /\ WF_vars(Return)
    /\ WF_vars(GoOn)

Spec == Init /\ [][Next]_vars /\ Fairness

-----------------------------------------------------------------------------
(* Properties.                                                             *)

\* The functions that leave a relative path to the system.
Unresolving == {"lstat", "stat", "statfs", "readlink", "readFileUtf8"}

\* A script that uses no descriptor it has asked to be closed, and closes none
\* that it has a call on, has every call act on the file that was open when it
\* called, although the table is changed by workers and the numbers are used
\* again.  A call on a path, an open included, acts in process.cwd() as it was
\* when it was called, but for those of the functions that do not resolve it.
\* And a worker writes to no memory that has been given back, whatever the
\* script drops meanwhile; which part of it is written to is another matter.
ActsOnWhatWasMeant ==
    \A c \in Caller :
        /\ ~careless => "file" \notin call[c].amiss
        /\ "directory" \in call[c].amiss => call[c].function \in Unresolving
        /\ "memory" \notin call[c].amiss

\* A transfer with a position is made there, although the position is set in a
\* call of its own, unless the script had two transfers on the file at a time,
\* or a long has no room for the position.
PositionHonoured ==
    \A c \in Caller :
        "position" \in call[c].amiss =>
            \/ careless
            \/ call[c].file \in overlapped
            \/ ~Fits(call[c].position)

=============================================================================
