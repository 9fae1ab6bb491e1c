--------------------------- MODULE FsScriptProofs ---------------------------
(***************************************************************************)
(* For any functions of def_fs.js, descriptors and callers: a script that  *)
(* closes a file when it is done with it, and only then, has every call    *)
(* act on the file it was meant for, and every transfer made where it was  *)
(* meant to be made.                                                       *)
(***************************************************************************)
EXTENDS FsScript, SequenceTheorems, TLAPS

\* The files that the script has been given.
InHand == {h[2] : h \in handles}

\* A file that is known to one caller only: it has just opened it.
Private(c) ==
    /\ call[c].file \notin InHand
    /\ \A o \in Caller \ {c} : call[o].file # call[c].file

\* Where the file of a call comes from.  Numbers of files are not used again.
OriginInv ==
    /\ \A h \in handles : h[2] <= opened
    /\ ended \subseteq InHand
    /\ \A c \in Caller : call[c].file # 0 =>
          /\ call[c].fd \in Descriptors
          /\ call[c].file <= opened
          /\ <<call[c].fd, call[c].file>> \in handles \/ Private(c)
          /\ call[c].row.op = "open" \/ call[c].rest # <<>> => Private(c)

Uses(c) == call[c].row.op \in {"descriptor", "close", "transfer"}

\* How far the calls have come, and readFileUtf8 with its three.
StageInv ==
    /\ \A r \in Req :
          /\ state[r] = "idle" /\ r \notin lost => call[r] = Idle
          /\ state[r] = "completed" => call[r] = Idle \/ call[r].step = "done"
          /\ call[r].rest = <<>>
    /\ \A c \in Caller :
          /\ Uses(c) /\ (c \in Req => state[c] = "accepted") => call[c].file # 0
          /\ call[c].row.op = "open" /\ call[c].step = "done" /\ ~call[c].failed
                => call[c].file # 0
          /\ call[c].step = "sought" => call[c].row.op = "transfer" /\ call[c].file # 0
          /\ call[c].step # "done" => call[c].amiss = {}
    /\ \/ call[Script].rest = <<>>
       \/ call[Script].rest = Tail(readFileUtf8) /\ call[Script].row.op = "open"
       \/ call[Script].rest = <<Plain("close")>> /\ call[Script].row.op = "transfer"

Closed(c) == call[c].row.op = "close" /\ call[c].step = "done"

\* What nobody has asked to be closed is in the table, and what a call uses is
\* until that call has closed it.  A call that closes has the file to itself.
TableInv ==
    /\ \A h \in handles : h[2] \notin ended => table[h[1]] = h[2]
    /\ \A c \in Caller : call[c].file # 0 =>
          /\ ~Closed(c) => table[call[c].fd] = call[c].file
          /\ call[c].row.op = "close" =>
                /\ call[c].file \in ended \/ call[c].file \notin InHand
                /\ \A o \in Caller \ {c} : call[o].file # call[c].file

\* Two transfers on a file at a time are noted, and the one transfer on a file
\* finds the position as it has set it, if there was room for it in a long.
PositionInv ==
    /\ \A c, o \in {k \in Caller : call[k].row.op = "transfer" /\ call[k].file # 0} :
          c # o /\ call[c].file = call[o].file => call[c].file \in overlapped
    /\ ~careless =>
          \A c \in Caller : call[c].step = "sought" =>
             \/ mover[call[c].file] = c
             \/ call[c].file \in overlapped
             \/ ~Fits(call[c].position)

\* A call that leaves its path to the system is one of the functions that do.
NamedInv ==
    \A c \in Caller : (c \in Req => state[c] = "accepted") =>
       call[c].row.resolves \/ call[c].function \in Unresolving

\* The inductive invariant.
IInv ==
    /\ TypeOK
    /\ OriginInv
    /\ StageInv
    /\ careless \/ TableInv
    /\ PositionInv
    /\ NamedInv
    /\ ActsOnWhatWasMeant
    /\ PositionHonoured

-----------------------------------------------------------------------------
(* Facts about the rows of FsShim.                                         *)

\* A worker uses the memory of a buffer only if the callback keeps it.
Tidy == {row \in Row : row.memory => row.keeps}

\* Every way of writing a row of FsShim gives a tidy one.
LEMMA TidyRows ==
    /\ \A op \in Ops : Plain(op) \in Tidy
    /\ \A row \in Tidy : Unresolved(row) \in Tidy /\ Converting(row) \in Tidy
    /\ \A how \in Answers : NoRequest(how) \in Tidy
<1>1. \A op \in Ops : Plain(op) \in Tidy
  BY DEF Plain, Tidy, Row, Answers
<1>2. \A row \in Tidy : Unresolved(row) \in Tidy /\ Converting(row) \in Tidy
  BY DEF Unresolved, Converting, Tidy, Row
<1>3. \A how \in Answers : NoRequest(how) \in Tidy
  BY DEF NoRequest, Plain, Tidy, Row, Ops
<1> QED BY <1>1, <1>2, <1>3

\* So every function of def_fs.js has tidy rows only.
LEMMA TidyFunctions == \A f \in DOMAIN Shim : Shim[f] \subseteq Tidy
<1>1. /\ Plain("path") \in Tidy /\ Plain("descriptor") \in Tidy /\ Plain("open") \in Tidy
      /\ Plain("close") \in Tidy /\ Plain("transfer") \in Tidy
  BY TidyRows DEF Ops
<1>2. /\ NoRequest("later") \in Tidy /\ NoRequest("throws") \in Tidy /\ NoRequest("never") \in Tidy
  BY TidyRows DEF Answers
<1>3. Unresolved(Plain("path")) \in Tidy /\ Unresolved(Converting(Plain("path"))) \in Tidy
      /\ Converting(Plain("descriptor")) \in Tidy
  BY <1>1, TidyRows
<1>4. read \subseteq Tidy
  BY DEF read, Plain, Tidy, Row, Ops, Answers
<1>5. /\ access \subseteq Tidy /\ rename \subseteq Tidy /\ rmdir \subseteq Tidy
      /\ link \subseteq Tidy /\ unlink \subseteq Tidy /\ chmod \subseteq Tidy
      /\ lchown \subseteq Tidy /\ chown \subseteq Tidy /\ utimes \subseteq Tidy
      /\ lutimes \subseteq Tidy
  BY <1>1 DEF access, rename, rmdir, link, unlink, chmod, lchown, chown, utimes, lutimes
<1>6. /\ ftruncate \subseteq Tidy /\ fdatasync \subseteq Tidy /\ fsync \subseteq Tidy
      /\ fchown \subseteq Tidy /\ futimes \subseteq Tidy /\ open \subseteq Tidy
      /\ close \subseteq Tidy
  BY <1>1 DEF ftruncate, fdatasync, fsync, fchown, futimes, open, close
<1>7. /\ lstat \subseteq Tidy /\ stat \subseteq Tidy /\ statfs \subseteq Tidy
      /\ fstat \subseteq Tidy /\ readlink \subseteq Tidy
  BY <1>1, <1>3 DEF lstat, stat, statfs, fstat, readlink
<1>8. /\ readBuffers \subseteq Tidy /\ writeBuffer \subseteq Tidy /\ writeBuffers \subseteq Tidy
      /\ writeString \subseteq Tidy /\ writeFileUtf8 \subseteq Tidy /\ symlink \subseteq Tidy
      /\ fchmod \subseteq Tidy /\ mkdir \subseteq Tidy /\ readdir \subseteq Tidy
  BY <1>1, <1>2 DEF readBuffers, writeBuffer, writeBuffers, writeString, writeFileUtf8,
                    symlink, fchmod, mkdir, readdir
<1> QED
  BY <1>4, <1>5, <1>6, <1>7, <1>8 DEF Shim

Resolve(rows) == \A row \in rows : row.resolves

\* The functions that are not among the Unresolving resolve every path.
LEMMA ResolvingFunctions == \A f \in DOMAIN Shim \ Unresolving : Resolve(Shim[f])
<1>1. \A op : Plain(op).resolves /\ Converting(Plain(op)).resolves
  BY DEF Plain, Converting
<1>2. \A how : NoRequest(how).resolves
  BY DEF NoRequest, Plain
<1>3. /\ Resolve(access) /\ Resolve(rename) /\ Resolve(rmdir) /\ Resolve(link)
      /\ Resolve(unlink) /\ Resolve(chmod) /\ Resolve(lchown) /\ Resolve(chown)
      /\ Resolve(utimes) /\ Resolve(lutimes)
  BY <1>1 DEF Resolve, access, rename, rmdir, link, unlink, chmod, lchown, chown, utimes, lutimes
<1>4. /\ Resolve(ftruncate) /\ Resolve(fdatasync) /\ Resolve(fsync) /\ Resolve(fchown)
      /\ Resolve(futimes) /\ Resolve(open) /\ Resolve(close) /\ Resolve(fstat)
  BY <1>1 DEF Resolve, ftruncate, fdatasync, fsync, fchown, futimes, open, close, fstat
<1>5. Resolve(read)
  BY DEF Resolve, read, Plain
<1>6. /\ Resolve(readBuffers) /\ Resolve(writeBuffer) /\ Resolve(writeBuffers)
      /\ Resolve(writeString) /\ Resolve(writeFileUtf8) /\ Resolve(symlink)
      /\ Resolve(fchmod) /\ Resolve(mkdir) /\ Resolve(readdir)
  BY <1>1, <1>2 DEF Resolve, readBuffers, writeBuffer, writeBuffers, writeString,
                    writeFileUtf8, symlink, fchmod, mkdir, readdir
<1> QED
  BY <1>3, <1>4, <1>5, <1>6 DEF Shim, Unresolving

\* The three calls of readFileUtf8, and what is left of them.
LEMMA ReadFile ==
    /\ Head(readFileUtf8) = Unresolved(Plain("open"))
    /\ Tail(readFileUtf8) # <<>>
    /\ Head(Tail(readFileUtf8)) = Plain("transfer")
    /\ Tail(Tail(readFileUtf8)) = <<Plain("close")>>
    /\ <<Plain("close")>> # <<>>
    /\ Head(<<Plain("close")>>) = Plain("close")
    /\ Tail(<<Plain("close")>>) = <<>>
    /\ {SubSeq(readFileUtf8, i, 3) : i \in 2 .. 3} = {Tail(readFileUtf8), <<Plain("close")>>}
    /\ {readFileUtf8[i] : i \in DOMAIN readFileUtf8}
          = {Unresolved(Plain("open")), Plain("transfer"), Plain("close")}
<1>1. Tail(readFileUtf8) = <<Plain("transfer"), Plain("close")>>
  BY DEF readFileUtf8
<1>2. Tail(<<Plain("close")>>) = <<>>
  BY HeadTailProperties, EmptySeq, <<Plain("close")>> \in Seq({Plain("close")}),
     Len(<<Plain("close")>>) = 1, <<Plain("close")>> # <<>>
<1>3. SubSeq(readFileUtf8, 2, 3) = <<Plain("transfer"), Plain("close")>>
  <2> DEFINE S == {Unresolved(Plain("open")), Plain("transfer"), Plain("close")}
             s == readFileUtf8
             t == SubSeq(s, 2, 3)
             u == <<Plain("transfer"), Plain("close")>>
  <2>1. s[2] = Plain("transfer") /\ s[3] = Plain("close")
    BY DEF readFileUtf8
  <2>2. u \in Seq(S) /\ Len(u) = 2 /\ u[1] = s[2] /\ u[2] = s[3]
    BY <2>1
  <2>3. \A i \in 2 .. 3 : s[i] \in S
    BY <2>1
  <2> HIDE DEF S, s, u
  <2>4. t \in Seq(S) /\ Len(t) = 2 /\ \A i \in 1 .. 2 : t[i] = s[i + 1]
    BY <2>3, SubSeqProperties
  <2>5. t[1] = s[2] /\ t[2] = s[3]
    BY <2>4
  <2> HIDE DEF t
  <2>6. \A i \in 1 .. Len(t) : t[i] = u[i]
    BY <2>2, <2>4, <2>5
  <2> QED BY <2>2, <2>4, <2>6, SeqEqual DEF t, s, u
<1>4. SubSeq(readFileUtf8, 3, 3) = <<Plain("close")>>
  <2> DEFINE S == {Plain("close")}
             s == readFileUtf8
             t == SubSeq(s, 3, 3)
             u == <<Plain("close")>>
  <2>1. s[3] = Plain("close")
    BY DEF readFileUtf8
  <2>2. u \in Seq(S) /\ Len(u) = 1 /\ u[1] = s[3]
    BY <2>1
  <2>3. \A i \in 3 .. 3 : s[i] \in S
    BY <2>1
  <2> HIDE DEF S, s, u
  <2>4. t \in Seq(S) /\ Len(t) = 1 /\ \A i \in 1 .. 1 : t[i] = s[i + 2]
    BY <2>3, SubSeqProperties
  <2>5. t[1] = s[3]
    BY <2>4
  <2> HIDE DEF t
  <2>6. \A i \in 1 .. Len(t) : t[i] = u[i]
    BY <2>2, <2>4, <2>5
  <2> QED BY <2>2, <2>4, <2>6, SeqEqual DEF t, s, u
<1>5. {SubSeq(readFileUtf8, i, 3) : i \in 2 .. 3}
         = {SubSeq(readFileUtf8, 2, 3), SubSeq(readFileUtf8, 3, 3)}
  OBVIOUS
<1>6. {readFileUtf8[i] : i \in DOMAIN readFileUtf8}
         = {Unresolved(Plain("open")), Plain("transfer"), Plain("close")}
  BY DEF readFileUtf8
<1>7. Head(readFileUtf8) = Unresolved(Plain("open"))
  BY DEF readFileUtf8
<1>8. /\ Head(<<Plain("transfer"), Plain("close")>>) = Plain("transfer")
      /\ Tail(<<Plain("transfer"), Plain("close")>>) = <<Plain("close")>>
      /\ <<Plain("transfer"), Plain("close")>> # <<>>
  OBVIOUS
<1>9. Head(<<Plain("close")>>) = Plain("close") /\ <<Plain("close")>> # <<>>
  OBVIOUS
<1> QED BY <1>1, <1>2, <1>3, <1>4, <1>5, <1>6, <1>7, <1>8, <1>9

\* What the row of a call can be.
CallRow == Rows(Functions) \cup {Plain("none")}
               \cup {readFileUtf8[i] : i \in DOMAIN readFileUtf8}

CallRest == {<<>>, Tail(readFileUtf8), <<Plain("close")>>}

\* The rows that a call may have.
LEMMA RowFacts ==
    ASSUME ScriptAssumption
    PROVE  /\ CallRow \subseteq Tidy
           /\ Rows(Functions) \subseteq CallRow
           /\ Plain("none") \in CallRow /\ Plain("transfer") \in CallRow
           /\ Plain("close") \in CallRow /\ Head(readFileUtf8) \in CallRow
<1>1. Rows(Functions) \subseteq Tidy
  BY TidyFunctions DEF Rows, ScriptAssumption
<1>2. /\ Plain("none") \in Tidy /\ Unresolved(Plain("open")) \in Tidy
      /\ Plain("transfer") \in Tidy /\ Plain("close") \in Tidy
  BY TidyRows DEF Ops
<1> QED BY <1>1, <1>2, ReadFile DEF CallRow

\* The operation of a row that is written with Plain.
LEMMA PlainFacts ==
    /\ \A op : Plain(op).op = op
    /\ \A op : Plain(op).resolves
    /\ Unresolved(Plain("open")).op = "open"
  BY DEF Plain, Unresolved

-----------------------------------------------------------------------------
(* Calls as records.                                                       *)

\* The fields of a call.
LEMMA CallFacts ==
    ASSUME NEW x \in Call
    PROVE  /\ x.row \in CallRow /\ x.rest \in CallRest
           /\ x.fd \in Descriptors \cup {None} /\ x.file \in Files \cup {0}
           /\ x.dir \in Directories
           /\ x.step \in {"begin", "sought", "done"}
           /\ x.failed \in BOOLEAN /\ x.amiss \in SUBSET Matters
  BY ReadFile DEF Call, CallRow, CallRest

\* The function of a call.
LEMMA FunctionFacts ==
    ASSUME NEW x \in Call
    PROVE  x.function \in Functions \cup {"readFileUtf8", None}
  BY DEF Call

\* A caller without a call.
LEMMA IdleFacts ==
    ASSUME ScriptAssumption
    PROVE  /\ Idle \in Call
           /\ Idle.row.op = "none" /\ Idle.rest = <<>> /\ Idle.file = 0
           /\ Idle.step = "begin" /\ Idle.amiss = {} /\ Idle.failed = FALSE
           /\ Idle.row.resolves
<1>1. Plain("none").op = "none" /\ Plain("none").resolves
  BY DEF Plain
<1> QED BY <1>1 DEF Idle, Call, ScriptAssumption

\* A call that has set the position.
LEMMA SeekFields ==
    ASSUME NEW x \in Call, NEW y, y = [x EXCEPT !.step = "sought"]
    PROVE  /\ y \in Call
           /\ y.row = x.row /\ y.rest = x.rest /\ y.fd = x.fd /\ y.file = x.file
           /\ y.step = "sought" /\ y.amiss = x.amiss /\ y.failed = x.failed
           /\ y.function = x.function /\ y.position = x.position
  BY DEF Call

\* A call of which only the row is left.
LEMMA RowFields ==
    ASSUME ScriptAssumption, NEW row \in CallRow, NEW y, y = [Idle EXCEPT !.row = row]
    PROVE  /\ y \in Call
           /\ y.row = row /\ y.rest = <<>> /\ y.file = 0
           /\ y.step = "begin" /\ y.amiss = {} /\ y.failed = FALSE
  BY DEF Call, Idle, CallRow, ScriptAssumption

-----------------------------------------------------------------------------
(* Every action keeps IInv.  The actions that have the same shape share a  *)
(* lemma about that shape.                                                 *)

\* It holds of a script that has not called anything.
LEMMA InitIInv == ASSUME ScriptAssumption, Init PROVE IInv
<1> USE IdleFacts
<1>1. Script \in Caller /\ \A c \in Caller : call[c] = Idle
  BY DEF Init, Caller
<1>2. TypeOK
  <2>1. Pool!TypeOK
    BY DEF Init, Pool!Init, Pool!TypeOK, Pool!States
  <2>2. call \in [Caller -> Call]
    BY DEF Init
  <2>3. mover \in [Files -> Caller \cup {None}] /\ table \in [Descriptors -> Files \cup {0}]
    BY DEF Init
  <2>4. 0 \in 0 .. MaxOpens /\ 0 \in 0 .. MaxSync /\ Home \in Directories
    BY DEF ScriptAssumption
  <2> QED BY <2>1, <2>2, <2>3, <2>4 DEF Init, TypeOK
<1>3. OriginInv
  BY <1>1 DEF Init, OriginInv, InHand
<1>4. StageInv
  BY <1>1 DEF Init, StageInv, Pool!Init, Uses, Caller
<1>5. TableInv
  BY <1>1 DEF Init, TableInv
<1>6. PositionInv
  BY <1>1 DEF PositionInv
<1>7. NamedInv /\ ActsOnWhatWasMeant /\ PositionHonoured
  BY <1>1 DEF NamedInv, ActsOnWhatWasMeant, PositionHonoured
<1> QED BY <1>2, <1>3, <1>4, <1>5, <1>6, <1>7 DEF IInv

\* One call changes.
LEMMA CallChanges ==
    ASSUME call \in [Caller -> Call], NEW c \in Caller, NEW x \in Call,
           call' = [call EXCEPT ![c] = x]
    PROVE  /\ call' \in [Caller -> Call]
           /\ call'[c] = x
           /\ \A o \in Caller \ {c} : call'[o] = call[o]
  OBVIOUS

\* What a worker changes of the states of the pool.
Advances(c, to) ==
    /\ state' \in [Req -> Pool!States]
    /\ c \in Req => state'[c] = to
    /\ \A r \in Req \ {c} : state'[r] = state[r]

\* A call is asked for: its file is one in the script's hands, and open
\* unless the script is careless.
LEMMA AskKeeps ==
    ASSUME ScriptAssumption, IInv, NEW c \in Caller, call[c] = Idle,
           NEW f \in Functions \cup {"readFileUtf8"}, NEW row \in CallRow, NEW rest \in CallRest,
           NEW h \in handles \cup {NoHandle}, NEW position \in Positions \cup {None},
           row.resolves \/ f \in Unresolving,
           row.op \in {"descriptor", "close", "transfer"} <=> h \in handles,
           rest = <<>> \/ (c = Script /\ rest = Tail(readFileUtf8) /\ row.op = "open"),
           Ask(c, f, row, rest, h, position),
           Advances(c, "accepted"),
           lost' = lost, buffers' \subseteq Req, synced' \in 0 .. MaxSync
    PROVE  IInv'
<1> DEFINE x == [Idle EXCEPT !.function = f, !.row = row, !.rest = rest,
                             !.fd = h[1], !.file = h[2], !.position = position,
                             !.dir = IF row.op \in {"path", "open"} THEN cwd ELSE Home]
<1>1. /\ h[1] \in Descriptors \cup {None} /\ h[2] \in Files \cup {0}
      /\ h \in handles <=> h[2] # 0
      /\ h \in handles => h[1] \in Descriptors /\ h[2] \in Files /\ h = <<h[1], h[2]>>
  BY DEF NoHandle, IInv, TypeOK, Files
<1>2. cwd \in Directories /\ Home \in Directories /\ call \in [Caller -> Call]
  BY DEF IInv, TypeOK, ScriptAssumption
<1>3. /\ x \in Call
      /\ x.row = row /\ x.rest = rest /\ x.fd = h[1] /\ x.file = h[2]
      /\ x.step = "begin" /\ x.amiss = {} /\ x.failed = FALSE /\ x.function = f
  <2> DEFINE d == IF row.op \in {"path", "open"} THEN cwd ELSE Home
  <2>1. d \in Directories
    BY <1>2
  <2>2. x = [Idle EXCEPT !.function = f, !.row = row, !.rest = rest,
                         !.fd = h[1], !.file = h[2], !.position = position, !.dir = d]
    OBVIOUS
  <2> HIDE DEF d, x
  <2> QED BY <1>1, <2>1, <2>2, ReadFile DEF Idle, Call, CallRow, CallRest
<1>4. call' = [call EXCEPT ![c] = x]
  BY DEF Ask
<1> HIDE DEF x
<1>5. /\ call' \in [Caller -> Call]
      /\ call'[c] = x
      /\ \A o \in Caller \ {c} : call'[o] = call[o]
  BY <1>2, <1>3, <1>4, CallChanges
<1>6. /\ UNCHANGED <<table, mover, opened, handles, cwd>>
      /\ careless' = (careless \/ h[2] \in ended
                               \/ (row.op = "close" /\ Unanswered(h[2]) # {}))
      /\ ended' = IF row.op = "close" THEN ended \cup {h[2]} ELSE ended
      /\ overlapped' = IF row.op = "transfer"
                            /\ \E o \in Unanswered(h[2]) : call[o].row.op = "transfer"
                       THEN overlapped \cup {h[2]} ELSE overlapped
  BY DEF Ask, files
<1>7. call[c].file = 0 /\ InHand' = InHand /\ (h \in handles => h[2] \in InHand)
  BY <1>6, IdleFacts DEF InHand
<1>8. TypeOK'
  <2>1. careless' \in BOOLEAN
    BY <1>6
  <2>2. row.op \in {"close", "transfer"} => h[2] \in Files
    BY <1>1
  <2>3. ended' \subseteq Files /\ overlapped' \subseteq Files
    BY <1>6, <2>2 DEF IInv, TypeOK
  <2>4. Pool!TypeOK'
    BY DEF Pool!TypeOK, Advances
  <2> QED BY <1>5, <1>6, <2>1, <2>3, <2>4 DEF IInv, TypeOK
<1>9. OriginInv'
  <2> DEFINE In == InHand
  <2>1. \A g \in handles' : g[2] <= opened'
    BY <1>6 DEF IInv, OriginInv
  <2>2. ended' \subseteq InHand'
    BY <1>1, <1>6, <1>7 DEF IInv, OriginInv
  <2>3. ASSUME NEW o \in Caller, call'[o].file # 0
        PROVE  /\ call'[o].fd \in Descriptors
               /\ call'[o].file <= opened'
               /\ <<call'[o].fd, call'[o].file>> \in handles' \/ Private(o)'
               /\ call'[o].row.op = "open" \/ call'[o].rest # <<>> => Private(o)'
    <3>1. CASE o = c
      <4>1. h \in handles
        BY <1>1, <1>3, <1>5, <2>3, <3>1
      <4>2. h[2] <= opened
        BY <4>1 DEF IInv, OriginInv
      <4>3. row.op # "open" /\ rest = <<>>
        BY <4>1
      <4> QED BY <1>1, <1>3, <1>5, <1>6, <3>1, <4>1, <4>2, <4>3
    <3>2. CASE o # c
      <4>1. call'[o] = call[o]
        BY <1>5, <3>2
      <4>2. Private(o) => Private(o)'
        <5>1. Private(o) => call'[c].file # call'[o].file
          BY <1>1, <1>3, <1>5, <1>7, <2>3, <4>1 DEF Private
        <5> QED BY <1>5, <1>7, <4>1, <5>1 DEF Private
      <4> QED BY <1>6, <2>3, <4>1, <4>2 DEF IInv, OriginInv
    <3> QED BY <3>1, <3>2
  <2> QED BY <2>1, <2>2, <2>3 DEF OriginInv
<1>10. StageInv'
  <2>1. ASSUME NEW r \in Req
        PROVE  /\ state'[r] = "idle" /\ r \notin lost' => call'[r] = Idle
               /\ state'[r] = "completed" => call'[r] = Idle \/ call'[r].step = "done"
               /\ call'[r].rest = <<>>
    BY <1>3, <1>5 DEF IInv, StageInv, Advances, Caller, ScriptAssumption
  <2>2. ASSUME NEW o \in Caller
        PROVE  /\ Uses(o)' /\ (o \in Req => state'[o] = "accepted") => call'[o].file # 0
               /\ call'[o].row.op = "open" /\ call'[o].step = "done" /\ ~call'[o].failed
                     => call'[o].file # 0
               /\ call'[o].step = "sought" => call'[o].row.op = "transfer" /\ call'[o].file # 0
               /\ call'[o].step # "done" => call'[o].amiss = {}
    <3>1. CASE o = c
      BY <1>1, <1>3, <1>5, <3>1 DEF Uses
    <3>2. CASE o # c
      <4>1. call'[o] = call[o] /\ (o \in Req => state'[o] = state[o])
        BY <1>5, <3>2 DEF Advances
      <4> QED BY <4>1 DEF IInv, StageInv, Uses
    <3> QED BY <3>1, <3>2
  <2>3. \/ call'[Script].rest = <<>>
        \/ call'[Script].rest = Tail(readFileUtf8) /\ call'[Script].row.op = "open"
        \/ call'[Script].rest = <<Plain("close")>> /\ call'[Script].row.op = "transfer"
    BY <1>3, <1>5 DEF IInv, StageInv, Caller
  <2> QED BY <2>1, <2>2, <2>3 DEF StageInv
<1>11. careless' \/ TableInv'
  <2>1. SUFFICES ASSUME ~careless' PROVE TableInv'
    OBVIOUS
  <2>2. TableInv /\ h[2] \notin ended /\ (row.op = "close" => Unanswered(h[2]) = {})
    BY <1>6, <2>1 DEF IInv
  <2>3. \A g \in handles' : g[2] \notin ended' => table'[g[1]] = g[2]
    BY <1>6, <2>2 DEF TableInv
  <2>4. ASSUME NEW o \in Caller, call'[o].file # 0
        PROVE  /\ ~Closed(o)' => table'[call'[o].fd] = call'[o].file
               /\ call'[o].row.op = "close" =>
                     /\ call'[o].file \in ended' \/ call'[o].file \notin InHand'
                     /\ \A p \in Caller \ {o} : call'[p].file # call'[o].file
    <3>1. CASE o = c
      <4>1. h \in handles
        BY <1>1, <1>3, <1>5, <2>4, <3>1
      <4>2. table[h[1]] = h[2]
        BY <2>2, <4>1 DEF TableInv
      <4>3. row.op = "close" => h[2] \in ended' /\ \A p \in Caller \ {c} : call[p].file # h[2]
        BY <1>6, <2>2 DEF Unanswered
      <4> QED BY <1>3, <1>5, <1>6, <3>1, <4>2, <4>3
    <3>2. CASE o # c
      <4>1. call'[o] = call[o]
        BY <1>5, <3>2
      <4>2. call[o].row.op = "close" => h[2] # call[o].file
        BY <1>1, <1>7, <2>2, <2>4, <4>1 DEF TableInv
      <4> QED BY <1>3, <1>5, <1>6, <1>7, <2>2, <2>4, <4>1, <4>2 DEF TableInv, Closed
    <3> QED BY <3>1, <3>2
  <2> QED BY <2>3, <2>4 DEF TableInv
<1>12. PositionInv'
  <2>1. ASSUME NEW k \in Caller, NEW o \in Caller, k # o,
               call'[k].row.op = "transfer", call'[o].row.op = "transfer",
               call'[k].file # 0, call'[k].file = call'[o].file
        PROVE  call'[k].file \in overlapped'
    <3>1. CASE k # c /\ o # c
      BY <1>5, <1>6, <2>1, <3>1 DEF IInv, PositionInv
    <3>2. CASE k = c
      <4>1. o \in Unanswered(h[2]) /\ call[o].row.op = "transfer" /\ row.op = "transfer"
        BY <1>3, <1>5, <2>1, <3>2 DEF Unanswered
      <4> QED BY <1>3, <1>5, <1>6, <3>2, <4>1
    <3>3. CASE o = c
      <4>1. k \in Unanswered(h[2]) /\ call[k].row.op = "transfer" /\ row.op = "transfer"
        BY <1>3, <1>5, <2>1, <3>3 DEF Unanswered
      <4> QED BY <1>3, <1>5, <1>6, <2>1, <3>3, <4>1
    <3> QED BY <3>1, <3>2, <3>3
  <2>2. ASSUME ~careless', NEW k \in Caller, call'[k].step = "sought"
        PROVE  \/ mover'[call'[k].file] = k
               \/ call'[k].file \in overlapped'
               \/ ~Fits(call'[k].position)
    BY <1>3, <1>5, <1>6, <2>2 DEF IInv, PositionInv
  <2> QED BY <2>1, <2>2 DEF PositionInv
<1>13. ActsOnWhatWasMeant' /\ PositionHonoured'
  BY <1>3, <1>5, <1>6 DEF IInv, ActsOnWhatWasMeant, PositionHonoured
<1>14. NamedInv'
  BY <1>3, <1>5 DEF IInv, NamedInv, Advances
<1> QED BY <1>8, <1>9, <1>10, <1>11, <1>12, <1>13, <1>14 DEF IInv

\* An operation that is over, and has left the files to the other calls.
LEMMA FinishKeeps ==
    ASSUME ScriptAssumption, IInv, NEW c \in Caller, NEW failed \in BOOLEAN,
           NEW amiss \in SUBSET Matters,
           c \in Req => state[c] = "accepted",
           Finish(c, failed, amiss),
           call[c].row.op = "open" => failed,
           "file" \in amiss => careless,
           "memory" \notin amiss,
           "directory" \in amiss => ~call[c].row.resolves,
           "position" \in amiss => \/ careless
                                   \/ call[c].file \in overlapped
                                   \/ ~Fits(call[c].position),
           opened' = opened,
           table' \in [Descriptors -> Files \cup {0}],
           mover' \in [Files -> Caller \cup {None}],
           ~careless => \A h \in handles : h[2] \notin ended => table'[h[1]] = h[2],
           ~careless => \A o \in Caller :
               call[o].file # 0 /\ ~Closed(o) /\ (o = c => call[c].row.op # "close")
                  => table'[call[o].fd] = call[o].file,
           ~careless => \A o \in Caller \ {c} :
               call[o].step = "sought" /\ mover[call[o].file] = o
                  => mover'[call[o].file] = o \/ call[o].file \in overlapped
    PROVE  IInv'
<1> DEFINE F == failed /\ (call[c].row.converts \/ call[c].row.op = "open")
           x == [call[c] EXCEPT !.step = "done", !.amiss = amiss, !.failed = F]
<1>1. call \in [Caller -> Call] /\ call[c] \in Call /\ F \in BOOLEAN
  BY DEF IInv, TypeOK
<1>2. call' = [call EXCEPT ![c] = x]
  BY <1>1 DEF Finish
<1>3. call[c].row.op = "open" => F
  OBVIOUS
<1> HIDE DEF F
<1>4. /\ x \in Call
      /\ x.row = call[c].row /\ x.rest = call[c].rest /\ x.fd = call[c].fd
      /\ x.file = call[c].file /\ x.step = "done" /\ x.amiss = amiss /\ x.failed = F
      /\ x.function = call[c].function /\ x.position = call[c].position
  BY <1>1, ZenonT(30) DEF Call
<1> HIDE DEF x
<1>5. /\ call' \in [Caller -> Call]
      /\ call'[c] = x
      /\ \A o \in Caller \ {c} : call'[o] = call[o]
  BY <1>1, <1>2, <1>4, CallChanges
<1>6. /\ \A o \in Caller : /\ call'[o].row = call[o].row /\ call'[o].rest = call[o].rest
                           /\ call'[o].fd = call[o].fd /\ call'[o].file = call[o].file
      /\ UNCHANGED <<lost, handles, ended, buffers, cwd, synced, careless, overlapped>>
      /\ InHand' = InHand
  BY <1>4, <1>5 DEF Finish, script, InHand
<1>7. Advances(c, "completed")
  <2>1. CASE c = Script
    BY <2>1 DEF Finish, Advances, ScriptAssumption, IInv, TypeOK, Pool!TypeOK
  <2>2. CASE c # Script
    BY <2>2 DEF Finish, Advances, IInv, TypeOK, Pool!TypeOK, Pool!Complete, Pool!Move,
                Pool!States, Caller
  <2> QED BY <2>1, <2>2
<1>8. TypeOK'
  BY <1>5, <1>6, <1>7 DEF IInv, TypeOK, Pool!TypeOK, Advances
<1>9. OriginInv'
  <2>1. \A o \in Caller : Private(o) => Private(o)'
    BY <1>6 DEF Private
  <2> QED BY <1>6, <2>1 DEF IInv, OriginInv
<1>10. StageInv'
  <2>1. ASSUME NEW r \in Req
        PROVE  /\ state'[r] = "idle" /\ r \notin lost' => call'[r] = Idle
               /\ state'[r] = "completed" => call'[r] = Idle \/ call'[r].step = "done"
               /\ call'[r].rest = <<>>
    <3>1. CASE r = c
      BY <1>4, <1>5, <1>6, <1>7, <3>1 DEF IInv, StageInv, Advances, Caller
    <3>2. CASE r # c
      BY <1>5, <1>6, <1>7, <3>2 DEF IInv, StageInv, Advances, Caller
    <3> QED BY <3>1, <3>2
  <2>2. ASSUME NEW o \in Caller
        PROVE  /\ Uses(o)' /\ (o \in Req => state'[o] = "accepted") => call'[o].file # 0
               /\ call'[o].row.op = "open" /\ call'[o].step = "done" /\ ~call'[o].failed
                     => call'[o].file # 0
               /\ call'[o].step = "sought" => call'[o].row.op = "transfer" /\ call'[o].file # 0
               /\ call'[o].step # "done" => call'[o].amiss = {}
    <3>1. CASE o = c
      BY <1>3, <1>4, <1>5, <1>7, <3>1 DEF IInv, StageInv, Uses, Advances
    <3>2. CASE o # c
      <4>1. call'[o] = call[o] /\ (o \in Req => state'[o] = state[o])
        BY <1>5, <1>7, <3>2 DEF Advances
      <4> QED BY <4>1 DEF IInv, StageInv, Uses
    <3> QED BY <3>1, <3>2
  <2>3. \/ call'[Script].rest = <<>>
        \/ call'[Script].rest = Tail(readFileUtf8) /\ call'[Script].row.op = "open"
        \/ call'[Script].rest = <<Plain("close")>> /\ call'[Script].row.op = "transfer"
    BY <1>6 DEF IInv, StageInv, Caller
  <2> QED BY <2>1, <2>2, <2>3 DEF StageInv
<1>11. careless' \/ TableInv'
  <2>1. SUFFICES ASSUME ~careless PROVE TableInv'
    BY <1>6
  <2>2. ASSUME NEW o \in Caller, call'[o].file # 0, ~Closed(o)'
        PROVE  table'[call'[o].fd] = call'[o].file
    <3>1. ~Closed(o) /\ (o = c => call[c].row.op # "close")
      BY <1>4, <1>5, <2>2 DEF Closed
    <3> QED BY <1>6, <2>1, <2>2, <3>1
  <2> QED BY <1>6, <2>1, <2>2 DEF IInv, TableInv
<1>12. PositionInv'
  <2>1. ASSUME ~careless', NEW o \in Caller, call'[o].step = "sought"
        PROVE  \/ mover'[call'[o].file] = o
               \/ call'[o].file \in overlapped'
               \/ ~Fits(call'[o].position)
    <3>1. o # c /\ call'[o] = call[o]
      BY <1>4, <1>5, <2>1
    <3> QED BY <1>6, <2>1, <3>1 DEF IInv, PositionInv
  <2> QED BY <1>6, <2>1 DEF IInv, PositionInv
<1>13. ActsOnWhatWasMeant' /\ PositionHonoured'
  <2>1. "directory" \in amiss => call[c].function \in Unresolving
    BY DEF IInv, NamedInv
  <2> QED BY <1>4, <1>5, <1>6, <2>1 DEF IInv, ActsOnWhatWasMeant, PositionHonoured
<1>14. NamedInv'
  BY <1>4, <1>5, <1>7 DEF IInv, NamedInv, Advances
<1> QED BY <1>8, <1>9, <1>10, <1>11, <1>12, <1>13, <1>14 DEF IInv

\* What an operation that is about to run finds under its descriptor.
LEMMA FindsMeant ==
    ASSUME ScriptAssumption, IInv, NEW c \in Caller,
           NEW op \in {"descriptor", "close", "transfer"}, Runs(c, op)
    PROVE  /\ call[c].file \in Files /\ call[c].fd \in Descriptors
           /\ Found(c) \in Files \cup {0}
           /\ ~careless => Found(c) = call[c].file
<1>1. call[c].file # 0
  BY DEF IInv, StageInv, Runs, Uses
<1>2. call[c] \in Call
  BY DEF IInv, TypeOK
<1>3. call[c].file \in Files /\ call[c].fd \in Descriptors
  BY <1>1, <1>2, CallFacts DEF IInv, OriginInv
<1>4. Found(c) \in Files \cup {0}
  BY <1>3 DEF IInv, TypeOK, Found
<1>5. ~careless => Found(c) = call[c].file
  BY <1>1 DEF IInv, TableInv, Closed, Runs, Found
<1> QED BY <1>3, <1>4, <1>5

\* Only what is not resolved goes astray.
LEMMA AstrayFacts ==
    ASSUME NEW c \in Caller
    PROVE  /\ Astray(c) \in SUBSET {"directory"}
           /\ "directory" \in Astray(c) => ~call[c].row.resolves
  BY DEF Astray, Directory

\* An operation on a path touches neither the table nor a position.
LEMMA OnPathKeeps ==
    ASSUME ScriptAssumption, IInv, NEW c \in Caller, OnPath(c)
    PROVE  IInv'
<1>1. PICK failed \in BOOLEAN : Finish(c, failed, Astray(c))
  BY DEF OnPath
<1>2. Astray(c) \in SUBSET {"directory"} /\ ("directory" \in Astray(c) => ~call[c].row.resolves)
  BY AstrayFacts
<1>3. /\ c \in Req => state[c] = "accepted"
      /\ call[c].row.op # "open"
      /\ UNCHANGED <<table, mover, opened>>
  BY DEF OnPath, Runs, files
<1> QED BY <1>1, <1>2, <1>3, FinishKeeps DEF Matters, IInv, TypeOK, TableInv

\* An operation on a descriptor finds in the table the file that was meant.
LEMMA OnDescriptorKeeps ==
    ASSUME ScriptAssumption, IInv, NEW c \in Caller, OnDescriptor(c)
    PROVE  IInv'
<1>1. PICK failed \in BOOLEAN : Finish(c, failed, Amiss(c))
  BY DEF OnDescriptor, Outcomes
<1>2. /\ c \in Req => state[c] = "accepted"
      /\ call[c].row.op # "open"
      /\ UNCHANGED <<table, mover, opened>>
  BY DEF OnDescriptor, Runs, files
<1>3. Amiss(c) \in SUBSET {"file"} /\ ("file" \in Amiss(c) => careless)
  BY FindsMeant DEF OnDescriptor, Amiss
<1> QED BY <1>1, <1>2, <1>3, FinishKeeps DEF Matters, IInv, TypeOK, TableInv

\* An open that fails takes no number.
LEMMA OpenFailsKeeps ==
    ASSUME ScriptAssumption, IInv, NEW c \in Caller, OpenFails(c)
    PROVE  IInv'
<1>1. /\ Finish(c, TRUE, Astray(c))
      /\ c \in Req => state[c] = "accepted"
      /\ UNCHANGED <<table, mover, opened>>
  BY DEF OpenFails, Runs, files
<1>2. Astray(c) \in SUBSET {"directory"} /\ ("directory" \in Astray(c) => ~call[c].row.resolves)
  BY AstrayFacts
<1> QED BY <1>1, <1>2, FinishKeeps, ZenonT(30) DEF Matters, IInv, TypeOK, TableInv

\* A transfer that fails moves nothing.
LEMMA TransferFailsKeeps ==
    ASSUME ScriptAssumption, IInv, NEW c \in Caller, TransferFails(c)
    PROVE  IInv'
<1>1. /\ Finish(c, TRUE, {})
      /\ c \in Req => state[c] = "accepted"
      /\ UNCHANGED <<table, mover, opened>>
  BY DEF TransferFails, Runs, files
<1> QED BY <1>1, FinishKeeps DEF IInv, TypeOK, TableInv

\* Only the call that closes a file has it, so no other loses its descriptor.
LEMMA CloseKeeps ==
    ASSUME ScriptAssumption, IInv, NEW c \in Caller, Close(c)
    PROVE  IInv'
<1> DEFINE failed == Found(c) = 0
<1>1. /\ Finish(c, failed, Amiss(c)) /\ failed \in BOOLEAN
      /\ Runs(c, "close")
      /\ table' = [table EXCEPT ![call[c].fd] = 0]
      /\ mover' = mover /\ opened' = opened
  BY DEF Close
<1> HIDE DEF failed
<1>2. /\ c \in Req => state[c] = "accepted"
      /\ call[c].row.op = "close" /\ call[c].step # "done"
  BY <1>1 DEF Runs
<1>3. Amiss(c) \in SUBSET {"file"} /\ ("file" \in Amiss(c) => careless)
  BY <1>1, FindsMeant DEF Amiss
<1>4. /\ call[c].file \in Files /\ call[c].fd \in Descriptors
      /\ ~careless => table[call[c].fd] = call[c].file
  BY <1>1, FindsMeant DEF Found
<1>5. /\ table' \in [Descriptors -> Files \cup {0}]
      /\ mover' \in [Files -> Caller \cup {None}]
  BY <1>1 DEF IInv, TypeOK
<1>6. \A d \in Descriptors : d # call[c].fd => table'[d] = table[d]
  BY <1>1 DEF IInv, TypeOK
<1>7. call[c].file # 0
  BY <1>4 DEF Files
<1>8. ASSUME ~careless
      PROVE  /\ call[c].file \in ended \/ call[c].file \notin InHand
             /\ \A o \in Caller \ {c} : call[o].file # call[c].file
  BY <1>2, <1>7, <1>8 DEF IInv, TableInv
<1>9. ASSUME ~careless, NEW h \in handles, h[2] \notin ended
      PROVE  table'[h[1]] = h[2]
  <2>1. h[1] \in Descriptors /\ table[h[1]] = h[2] /\ h[2] \in InHand
    BY <1>9 DEF IInv, TypeOK, TableInv, InHand
  <2>2. h[2] # call[c].file
    BY <1>8, <1>9, <2>1
  <2> QED BY <1>4, <1>6, <1>9, <2>1, <2>2
<1>10. ASSUME ~careless, NEW o \in Caller, call[o].file # 0, ~Closed(o),
              o = c => call[c].row.op # "close"
       PROVE  table'[call[o].fd] = call[o].file
  <2>1. o # c
    BY <1>2, <1>10
  <2>2. call[o].fd \in Descriptors /\ table[call[o].fd] = call[o].file
    BY <1>10 DEF IInv, TableInv, OriginInv
  <2>3. call[o].file # call[c].file
    BY <1>8, <1>10, <2>1
  <2> QED BY <1>4, <1>6, <1>10, <2>2, <2>3
<1> QED BY <1>1, <1>2, <1>3, <1>5, <1>9, <1>10, FinishKeeps DEF Matters

\* A transfer uses up the position that it, or another on the file, has set.
LEMMA TransferKeeps ==
    ASSUME ScriptAssumption, IInv, NEW c \in Caller, Transfer(c)
    PROVE  IInv'
<1> DEFINE misplaced == IF Positioned(c) /\ mover[Found(c)] # c THEN {"position"} ELSE {}
           freed == IF call[c].row.memory /\ ~HasMemory(c) THEN {"memory"} ELSE {}
           amiss == Amiss(c) \cup misplaced \cup freed
<1>1. /\ Finish(c, FALSE, amiss)
      /\ Runs(c, "transfer") /\ InPlace(c) /\ Found(c) # 0
      /\ mover' = [mover EXCEPT ![Found(c)] = None]
      /\ table' = table /\ opened' = opened
  BY DEF Transfer
<1>2. /\ c \in Req => state[c] = "accepted"
      /\ call[c].row.op = "transfer"
  BY <1>1 DEF Runs
<1>3. /\ call[c].file \in Files /\ Found(c) \in Files
      /\ ~careless => Found(c) = call[c].file
  BY <1>1, FindsMeant
<1>4. Amiss(c) \in SUBSET {"file"} /\ ("file" \in Amiss(c) => careless)
  BY <1>1, FindsMeant DEF Amiss
<1>5. /\ misplaced \in SUBSET {"position"}
      /\ "position" \in misplaced => \/ careless
                                     \/ call[c].file \in overlapped
                                     \/ ~Fits(call[c].position)
  BY <1>1, <1>3 DEF InPlace, IInv, PositionInv
<1>6. freed = {}
  <2>1. call[c].row \in CallRow
    BY CallFacts DEF IInv, TypeOK
  <2>2. call[c].row.memory => call[c].row.keeps
    BY <2>1, RowFacts DEF Tidy
  <2> QED BY <2>2 DEF HasMemory
<1> HIDE DEF misplaced, freed
<1>7. /\ amiss \in SUBSET Matters
      /\ "file" \in amiss => careless
      /\ "memory" \notin amiss /\ "directory" \notin amiss
      /\ "position" \in amiss => \/ careless
                                 \/ call[c].file \in overlapped
                                 \/ ~Fits(call[c].position)
  BY <1>4, <1>5, <1>6 DEF Matters
<1> HIDE DEF amiss
<1>8. table' \in [Descriptors -> Files \cup {0}] /\ mover' \in [Files -> Caller \cup {None}]
  BY <1>1 DEF IInv, TypeOK
<1>9. ASSUME ~careless, NEW o \in Caller \ {c},
             call[o].step = "sought", mover[call[o].file] = o
      PROVE  mover'[call[o].file] = o \/ call[o].file \in overlapped
  <2>1. /\ call[o].row.op = "transfer" /\ call[o].file # 0
        /\ call[o].file \in Files \cup {0}
    BY <1>9, CallFacts DEF IInv, StageInv, TypeOK
  <2>2. CASE call[o].file = call[c].file
    BY <1>2, <2>1, <2>2 DEF IInv, PositionInv
  <2>3. CASE call[o].file # call[c].file
    BY <1>1, <1>3, <1>9, <2>1, <2>3 DEF IInv, TypeOK
  <2> QED BY <2>2, <2>3
<1>10. ~careless => \A o \in Caller : call[o].file # 0 /\ ~Closed(o)
                                        => table'[call[o].fd] = call[o].file
  BY <1>1 DEF IInv, TableInv
<1>11. ~careless => \A h \in handles : h[2] \notin ended => table'[h[1]] = h[2]
  BY <1>1 DEF IInv, TableInv
<1> QED BY <1>1, <1>2, <1>7, <1>8, <1>9, <1>10, <1>11, FinishKeeps

\* The file of an open is new, and no call has its descriptor yet.
LEMMA OpenKeeps ==
    ASSUME ScriptAssumption, IInv, NEW c \in Caller, Open(c)
    PROVE  IInv'
<1>1. PICK d \in FreeNumbers :
         /\ opened' = opened + 1
         /\ table' = [table EXCEPT ![d] = opened + 1]
         /\ call' = [call EXCEPT ![c].step = "done", ![c].fd = d, ![c].file = opened + 1,
                                 ![c].amiss = Astray(c)]
  BY DEF Open
<1> DEFINE amiss == Astray(c)
           x == [call[c] EXCEPT !.step = "done", !.fd = d, !.file = opened + 1, !.amiss = amiss]
<1>2. /\ call \in [Caller -> Call] /\ call[c] \in Call
      /\ d \in Descriptors /\ table[d] = 0
      /\ opened \in Nat /\ opened + 1 \in Files /\ opened' \in 0 .. MaxOpens
  BY <1>1 DEF IInv, TypeOK, FreeNumbers, Open, Files, ScriptAssumption
<1>3. /\ Runs(c, "open")
      /\ UNCHANGED <<lost, mover, handles, ended, buffers, cwd, synced, careless, overlapped>>
      /\ InHand' = InHand
  BY DEF Open, script, InHand
<1>4. /\ c \in Req => state[c] = "accepted"
      /\ call[c].row.op = "open" /\ call[c].step # "done"
  BY <1>3 DEF Runs
<1>5. /\ x \in Call
      /\ x.row = call[c].row /\ x.rest = call[c].rest /\ x.fd = d /\ x.file = opened + 1
      /\ x.step = "done" /\ x.amiss = amiss /\ x.function = call[c].function
  <2> DEFINE file == opened + 1
  <2>1. file \in Files /\ amiss \in SUBSET Matters
    BY <1>2, AstrayFacts DEF Matters
  <2> HIDE DEF file, amiss
  <2>2. x = [call[c] EXCEPT !.step = "done", !.fd = d, !.file = file, !.amiss = amiss]
    BY DEF file
  <2>3. /\ x \in Call
        /\ x.row = call[c].row /\ x.rest = call[c].rest /\ x.fd = d /\ x.file = file
        /\ x.step = "done" /\ x.amiss = amiss /\ x.function = call[c].function
    BY <1>2, <2>1, <2>2, ZenonT(30) DEF Call
  <2> QED BY <2>3 DEF file
<1>6. call' = [call EXCEPT ![c] = x]
  BY <1>1, <1>2
<1> HIDE DEF x, amiss
<1>7. /\ call' \in [Caller -> Call]
      /\ call'[c] = x
      /\ \A o \in Caller \ {c} : call'[o] = call[o]
  BY <1>2, <1>5, <1>6, CallChanges
<1>8. Advances(c, "completed")
  <2>1. CASE c = Script
    BY <2>1 DEF Open, Advances, ScriptAssumption, IInv, TypeOK, Pool!TypeOK
  <2>2. CASE c # Script
    BY <2>2 DEF Open, Advances, IInv, TypeOK, Pool!TypeOK, Pool!Complete, Pool!Move,
                Pool!States, Caller
  <2> QED BY <2>1, <2>2
<1>9. /\ table' \in [Descriptors -> Files \cup {0}]
      /\ table'[d] = opened + 1
      /\ \A e \in Descriptors \ {d} : table'[e] = table[e]
  BY <1>1, <1>2 DEF IInv, TypeOK
\* The number of the file is a new one.
<1>10. /\ opened + 1 \notin InHand /\ opened + 1 # 0
       /\ \A o \in Caller : call[o].file # opened + 1
  <2>1. ASSUME NEW h \in handles PROVE h[2] # opened + 1
    <3>1. h[2] \in Nat /\ h[2] <= opened
      BY DEF IInv, TypeOK, OriginInv, Files
    <3> QED BY <1>2, <3>1
  <2>2. ASSUME NEW o \in Caller PROVE call[o].file # opened + 1
    <3>1. call[o] \in Call
      BY <1>2
    <3>2. call[o].file \in Files \cup {0}
      BY <3>1, CallFacts
    <3>3. call[o].file # 0 => call[o].file <= opened
      BY DEF IInv, OriginInv
    <3> QED BY <1>2, <3>2, <3>3 DEF Files
  <2> QED BY <1>2, <2>1, <2>2 DEF InHand
<1>11. TypeOK'
  BY <1>2, <1>3, <1>7, <1>8, <1>9 DEF IInv, TypeOK, Pool!TypeOK, Advances
<1>12. OriginInv'
  <2>1. \A h \in handles' : h[2] <= opened'
    <3>1. \A h \in handles : h[2] <= opened /\ h[2] \in Files
      BY DEF IInv, OriginInv, TypeOK
    <3> QED BY <1>1, <1>2, <1>3, <3>1 DEF Files
  <2>2. ended' \subseteq InHand'
    BY <1>3 DEF IInv, OriginInv
  <2>3. ASSUME NEW o \in Caller, call'[o].file # 0
        PROVE  /\ call'[o].fd \in Descriptors
               /\ call'[o].file <= opened'
               /\ <<call'[o].fd, call'[o].file>> \in handles' \/ Private(o)'
               /\ call'[o].row.op = "open" \/ call'[o].rest # <<>> => Private(o)'
    <3>1. CASE o = c
      <4>1. Private(c)'
        BY <1>3, <1>5, <1>7, <1>10 DEF Private
      <4> QED BY <1>1, <1>2, <1>5, <1>7, <3>1, <4>1
    <3>2. CASE o # c
      <4>1. call'[o] = call[o] /\ call[o].file \in Files
        BY <1>7, <2>3, <3>2, CallFacts DEF IInv, TypeOK
      <4>2. Private(o) => Private(o)'
        BY <1>3, <1>5, <1>7, <1>10, <4>1 DEF Private
      <4>3. call'[o].file <= opened'
        <5>1. call[o].file # 0 /\ call[o].file <= opened
          BY <2>3, <4>1 DEF IInv, OriginInv
        <5> QED BY <1>1, <1>2, <4>1, <5>1 DEF Files
      <4> QED BY <1>3, <2>3, <4>1, <4>2, <4>3 DEF IInv, OriginInv
    <3> QED BY <3>1, <3>2
  <2> QED BY <2>1, <2>2, <2>3 DEF OriginInv
<1>13. StageInv'
  <2>1. ASSUME NEW r \in Req
        PROVE  /\ state'[r] = "idle" /\ r \notin lost' => call'[r] = Idle
               /\ state'[r] = "completed" => call'[r] = Idle \/ call'[r].step = "done"
               /\ call'[r].rest = <<>>
    <3>1. CASE r = c
      BY <1>5, <1>7, <1>8, <3>1 DEF IInv, StageInv, Advances, Caller
    <3>2. CASE r # c
      BY <1>3, <1>7, <1>8, <3>2 DEF IInv, StageInv, Advances, Caller
    <3> QED BY <3>1, <3>2
  <2>2. ASSUME NEW o \in Caller
        PROVE  /\ Uses(o)' /\ (o \in Req => state'[o] = "accepted") => call'[o].file # 0
               /\ call'[o].row.op = "open" /\ call'[o].step = "done" /\ ~call'[o].failed
                     => call'[o].file # 0
               /\ call'[o].step = "sought" => call'[o].row.op = "transfer" /\ call'[o].file # 0
               /\ call'[o].step # "done" => call'[o].amiss = {}
    <3>1. CASE o = c
      BY <1>5, <1>7, <1>10, <3>1
    <3>2. CASE o # c
      <4>1. call'[o] = call[o] /\ (o \in Req => state'[o] = state[o])
        BY <1>7, <1>8, <3>2 DEF Advances
      <4> QED BY <4>1 DEF IInv, StageInv, Uses
    <3> QED BY <3>1, <3>2
  <2>3. \/ call'[Script].rest = <<>>
        \/ call'[Script].rest = Tail(readFileUtf8) /\ call'[Script].row.op = "open"
        \/ call'[Script].rest = <<Plain("close")>> /\ call'[Script].row.op = "transfer"
    BY <1>5, <1>7 DEF IInv, StageInv, Caller
  <2> QED BY <2>1, <2>2, <2>3 DEF StageInv
<1>14. careless' \/ TableInv'
  <2>1. SUFFICES ASSUME ~careless PROVE TableInv'
    BY <1>3
  <2>2. ASSUME NEW h \in handles', h[2] \notin ended' PROVE table'[h[1]] = h[2]
    <3>1. h[1] \in Descriptors /\ h[2] \in Files /\ table[h[1]] = h[2]
      BY <1>3, <2>1, <2>2 DEF IInv, TypeOK, TableInv
    <3>2. h[1] # d
      BY <1>2, <3>1 DEF Files
    <3> QED BY <1>9, <3>1, <3>2
  <2>3. ASSUME NEW o \in Caller, call'[o].file # 0
        PROVE  /\ ~Closed(o)' => table'[call'[o].fd] = call'[o].file
               /\ call'[o].row.op = "close" =>
                     /\ call'[o].file \in ended' \/ call'[o].file \notin InHand'
                     /\ \A p \in Caller \ {o} : call'[p].file # call'[o].file
    <3>1. CASE o = c
      BY <1>4, <1>5, <1>7, <1>9, <3>1
    <3>2. CASE o # c
      <4>1. call'[o] = call[o] /\ call[o].fd \in Descriptors
        BY <1>7, <2>3, <3>2 DEF IInv, OriginInv
      <4>2. ~Closed(o)' => table'[call'[o].fd] = call'[o].file
        <5>1. ~Closed(o) => table[call[o].fd] = call[o].file
          BY <2>1, <2>3, <4>1 DEF IInv, TableInv
        <5> QED BY <1>2, <1>9, <2>3, <4>1, <5>1 DEF Closed
      <4>3. call[o].row.op = "close" => call'[c].file # call[o].file
        BY <1>5, <1>7, <1>10
      <4> QED BY <1>3, <1>7, <2>1, <2>3, <4>1, <4>2, <4>3 DEF IInv, TableInv
    <3> QED BY <3>1, <3>2
  <2> QED BY <2>2, <2>3 DEF TableInv
<1>15. PositionInv'
  <2>1. call'[c].row.op # "transfer" /\ call'[c].step # "sought"
    BY <1>4, <1>5, <1>7
  <2> QED BY <1>3, <1>7, <2>1 DEF IInv, PositionInv
<1>16. ActsOnWhatWasMeant' /\ PositionHonoured'
  <2>1. amiss \in SUBSET {"directory"} /\ ("directory" \in amiss => call[c].function \in Unresolving)
    BY <1>4, AstrayFacts DEF IInv, NamedInv, amiss
  <2> QED BY <1>3, <1>5, <1>7, <2>1 DEF IInv, ActsOnWhatWasMeant, PositionHonoured
<1>17. NamedInv'
  BY <1>5, <1>4, <1>7, <1>8 DEF IInv, NamedInv, Advances
<1> QED BY <1>11, <1>12, <1>13, <1>14, <1>15, <1>16, <1>17 DEF IInv

\* A position that is set over is one of two transfers at a time.
LEMMA SeekKeeps ==
    ASSUME ScriptAssumption, IInv, NEW c \in Caller, Seek(c)
    PROVE  IInv'
<1> DEFINE x == [call[c] EXCEPT !.step = "sought"]
<1>1. /\ Runs(c, "transfer") /\ call[c].step = "begin" /\ call[c].row.op = "transfer"
      /\ c \in Req => state[c] = "accepted"
      /\ Found(c) # 0
      /\ mover' = [mover EXCEPT ![Found(c)] = IF Fits(call[c].position) THEN c ELSE None]
  BY DEF Seek, Runs
<1>2. /\ UNCHANGED <<state, lost, table, opened, handles, ended, buffers, cwd, synced,
                     careless, overlapped>>
      /\ InHand' = InHand
  BY DEF Seek, pooled, script, InHand
<1>3. call \in [Caller -> Call] /\ call[c] \in Call
  BY DEF IInv, TypeOK
<1>4. /\ x \in Call
      /\ x.row = call[c].row /\ x.rest = call[c].rest /\ x.fd = call[c].fd
      /\ x.file = call[c].file /\ x.step = "sought" /\ x.amiss = call[c].amiss
      /\ x.failed = call[c].failed
      /\ x.function = call[c].function /\ x.position = call[c].position
  BY <1>3, SeekFields
<1>5. call' = [call EXCEPT ![c] = x]
  BY <1>3 DEF Seek
<1> HIDE DEF x
<1>6. /\ call' \in [Caller -> Call]
      /\ call'[c] = x
      /\ \A o \in Caller \ {c} : call'[o] = call[o]
  BY <1>3, <1>4, <1>5, CallChanges
<1>7. \A o \in Caller : /\ call'[o].row = call[o].row /\ call'[o].rest = call[o].rest
                        /\ call'[o].fd = call[o].fd /\ call'[o].file = call[o].file
                        /\ call'[o].amiss = call[o].amiss
                        /\ call'[o].function = call[o].function
                        /\ call'[o].position = call[o].position
  BY <1>4, <1>6
<1>8. /\ call[c].file \in Files /\ call[c].file # 0 /\ Found(c) \in Files
      /\ ~careless => Found(c) = call[c].file
  BY <1>1, FindsMeant DEF Files
<1>9. TypeOK'
  <2>1. mover' \in [Files -> Caller \cup {None}]
    BY <1>1 DEF IInv, TypeOK
  <2> QED BY <1>2, <1>6, <2>1 DEF IInv, TypeOK, Pool!TypeOK
<1>10. OriginInv'
  <2>1. \A o \in Caller : Private(o) => Private(o)'
    BY <1>2, <1>7 DEF Private
  <2> QED BY <1>2, <1>7, <2>1 DEF IInv, OriginInv
<1>11. StageInv'
  <2>1. ASSUME NEW r \in Req
        PROVE  /\ state'[r] = "idle" /\ r \notin lost' => call'[r] = Idle
               /\ state'[r] = "completed" => call'[r] = Idle \/ call'[r].step = "done"
               /\ call'[r].rest = <<>>
    <3>1. CASE r = c
      BY <1>1, <1>2, <1>7, <3>1 DEF IInv, StageInv, Caller
    <3>2. CASE r # c
      BY <1>2, <1>6, <3>2 DEF IInv, StageInv, Caller
    <3> QED BY <3>1, <3>2
  <2>2. ASSUME NEW o \in Caller
        PROVE  /\ Uses(o)' /\ (o \in Req => state'[o] = "accepted") => call'[o].file # 0
               /\ call'[o].row.op = "open" /\ call'[o].step = "done" /\ ~call'[o].failed
                     => call'[o].file # 0
               /\ call'[o].step = "sought" => call'[o].row.op = "transfer" /\ call'[o].file # 0
               /\ call'[o].step # "done" => call'[o].amiss = {}
    <3>1. CASE o = c
      BY <1>1, <1>4, <1>6, <1>8, <3>1 DEF IInv, StageInv
    <3>2. CASE o # c
      BY <1>2, <1>6, <3>2 DEF IInv, StageInv, Uses
    <3> QED BY <3>1, <3>2
  <2>3. \/ call'[Script].rest = <<>>
        \/ call'[Script].rest = Tail(readFileUtf8) /\ call'[Script].row.op = "open"
        \/ call'[Script].rest = <<Plain("close")>> /\ call'[Script].row.op = "transfer"
    BY <1>7 DEF IInv, StageInv, Caller
  <2> QED BY <2>1, <2>2, <2>3 DEF StageInv
<1>12. careless' \/ TableInv'
  <2>1. \A o \in Caller : Closed(o)' <=> Closed(o)
    BY <1>1, <1>4, <1>6 DEF Closed
  <2> QED BY <1>2, <1>7, <2>1 DEF IInv, TableInv
<1>13. PositionInv'
  <2>1. ASSUME ~careless', NEW o \in Caller, call'[o].step = "sought"
        PROVE  \/ mover'[call'[o].file] = o
               \/ call'[o].file \in overlapped'
               \/ ~Fits(call'[o].position)
    <3>1. CASE o = c
      <4>1. Fits(call[c].position) => mover'[Found(c)] = c
        BY <1>1, <1>8 DEF IInv, TypeOK
      <4> QED BY <1>2, <1>7, <1>8, <2>1, <3>1, <4>1
    <3>2. CASE o # c
      <4>1. /\ call[o].step = "sought" /\ call[o].row.op = "transfer" /\ call[o].file # 0
            /\ \/ mover[call[o].file] = o
               \/ call[o].file \in overlapped
               \/ ~Fits(call[o].position)
        BY <1>2, <1>6, <2>1, <3>2 DEF IInv, StageInv, PositionInv
      <4>2. CASE call[o].file = call[c].file
        BY <1>1, <1>2, <1>7, <3>2, <4>1, <4>2 DEF IInv, PositionInv
      <4>3. CASE call[o].file # call[c].file
        <5>1. call[o].file \in Files
          BY <4>1, CallFacts DEF IInv, TypeOK
        <5>2. mover'[call[o].file] = mover[call[o].file]
          BY <1>1, <1>2, <1>8, <2>1, <4>3, <5>1 DEF IInv, TypeOK
        <5> QED BY <1>2, <1>7, <4>1, <5>2
      <4> QED BY <4>2, <4>3
    <3> QED BY <3>1, <3>2
  <2> QED BY <1>2, <1>7, <2>1 DEF IInv, PositionInv
<1>14. NamedInv' /\ ActsOnWhatWasMeant' /\ PositionHonoured'
  BY <1>2, <1>7 DEF IInv, NamedInv, ActsOnWhatWasMeant, PositionHonoured
<1> QED BY <1>9, <1>10, <1>11, <1>12, <1>13, <1>14 DEF IInv

\* A call that has been answered, or never will be: what it has opened is in
\* the script's hands.
LEMMA AnswerKeeps ==
    ASSUME ScriptAssumption, IInv, NEW c \in Caller,
           call[c] = Idle \/ call[c].step = "done",
           NEW x \in Call, call' = [call EXCEPT ![c] = x],
           x.rest = <<>>, x.file = 0, x.step = "begin", x.amiss = {}, x.failed = FALSE,
           c = Script => x = Idle,
           NEW to \in {"delivered", "idle"}, to = "idle" => c \in lost',
           Advances(c, to),
           handles' = handles \cup Given(c),
           buffers' \subseteq Req, lost \subseteq lost', lost' \subseteq Req,
           UNCHANGED <<files, ended, cwd, synced, careless, overlapped>>
    PROVE  IInv'
<1>1. call \in [Caller -> Call] /\ call[c] \in Call
  BY DEF IInv, TypeOK
<1>2. /\ call' \in [Caller -> Call]
      /\ call'[c] = x
      /\ \A o \in Caller \ {c} : call'[o] = call[o]
  BY <1>1, CallChanges
<1>3. UNCHANGED <<table, mover, opened>>
  BY DEF files
\* Whatever is given has been known to the call alone.
<1>4. ASSUME NEW g \in Given(c)
      PROVE  /\ g = <<call[c].fd, call[c].file>>
             /\ call[c].fd \in Descriptors /\ call[c].file \in Files /\ call[c].file # 0
             /\ call[c].file <= opened
             /\ Private(c)
             /\ ~careless => table[call[c].fd] = call[c].file
  <2>1. g = <<call[c].fd, call[c].file>> /\ call[c].row.op = "open" /\ ~call[c].failed
    BY <1>4 DEF Given
  <2>2. call[c].step = "done"
    BY <2>1, IdleFacts
  <2>3. call[c].file # 0
    BY <2>1, <2>2 DEF IInv, StageInv
  <2>4. /\ call[c].fd \in Descriptors /\ call[c].file <= opened
        /\ Private(c)
    BY <2>1, <2>3 DEF IInv, OriginInv
  <2>5. call[c].file \in Files
    BY <1>1, <2>3, CallFacts
  <2>6. ~careless => table[call[c].fd] = call[c].file
    BY <2>1, <2>3 DEF IInv, TableInv, Closed
  <2> QED BY <2>1, <2>3, <2>4, <2>5, <2>6
<1>5. Given(c) = {} \/ Given(c) = {<<call[c].fd, call[c].file>>}
  BY DEF Given
<1>6. \A h \in handles' : h \in handles \/ h \in Given(c)
  OBVIOUS
<1>7. ASSUME NEW o \in Caller, call'[o].file # 0
      PROVE  /\ o # c /\ call'[o] = call[o]
             /\ call[o].file \notin InHand => call[o].file \notin InHand'
             /\ Private(o) => Private(o)'
  <2>1. o # c /\ call'[o] = call[o]
    BY <1>2, <1>7
  <2>2. \A g \in Given(c) : g[2] # call[o].file
    BY <1>4, <2>1 DEF Private
  <2>3. call[o].file \notin InHand => call[o].file \notin InHand'
    BY <1>6, <2>2 DEF InHand
  <2>4. Private(o) => Private(o)'
    BY <1>2, <1>7, <2>1, <2>3 DEF Private
  <2> QED BY <2>1, <2>3, <2>4
<1>8. TypeOK'
  <2>1. Given(c) \subseteq Descriptors \X Files
    BY <1>4, <1>5
  <2> QED BY <1>2, <1>3, <2>1 DEF IInv, TypeOK, Pool!TypeOK, Advances
<1>9. OriginInv'
  <2>1. \A h \in handles' : h[2] <= opened'
    BY <1>3, <1>4, <1>6 DEF IInv, OriginInv
  <2>2. ended' \subseteq InHand'
    BY DEF IInv, OriginInv, InHand
  <2>3. \A o \in Caller : call'[o].file # 0 =>
          /\ call'[o].fd \in Descriptors
          /\ call'[o].file <= opened'
          /\ <<call'[o].fd, call'[o].file>> \in handles' \/ Private(o)'
          /\ call'[o].row.op = "open" \/ call'[o].rest # <<>> => Private(o)'
    BY <1>3, <1>7 DEF IInv, OriginInv
  <2> QED BY <2>1, <2>2, <2>3 DEF OriginInv
<1>10. StageInv'
  <2>1. ASSUME NEW r \in Req
        PROVE  /\ state'[r] = "idle" /\ r \notin lost' => call'[r] = Idle
               /\ state'[r] = "completed" => call'[r] = Idle \/ call'[r].step = "done"
               /\ call'[r].rest = <<>>
    <3>1. CASE r = c
      BY <1>2, <3>1 DEF Advances
    <3>2. CASE r # c
      BY <1>2, <3>2 DEF IInv, StageInv, Advances, Caller
    <3> QED BY <3>1, <3>2
  <2>2. ASSUME NEW o \in Caller
        PROVE  /\ Uses(o)' /\ (o \in Req => state'[o] = "accepted") => call'[o].file # 0
               /\ call'[o].row.op = "open" /\ call'[o].step = "done" /\ ~call'[o].failed
                     => call'[o].file # 0
               /\ call'[o].step = "sought" => call'[o].row.op = "transfer" /\ call'[o].file # 0
               /\ call'[o].step # "done" => call'[o].amiss = {}
    <3>1. CASE o = c
      BY <1>2, <3>1, IdleFacts DEF Advances, Uses, Caller
    <3>2. CASE o # c
      <4>1. call'[o] = call[o] /\ (o \in Req => state'[o] = state[o])
        BY <1>2, <3>2 DEF Advances
      <4> QED BY <4>1 DEF IInv, StageInv, Uses
    <3> QED BY <3>1, <3>2
  <2>3. \/ call'[Script].rest = <<>>
        \/ call'[Script].rest = Tail(readFileUtf8) /\ call'[Script].row.op = "open"
        \/ call'[Script].rest = <<Plain("close")>> /\ call'[Script].row.op = "transfer"
    BY <1>2 DEF IInv, StageInv, Caller
  <2> QED BY <2>1, <2>2, <2>3 DEF StageInv
<1>11. careless' \/ TableInv'
  <2>1. SUFFICES ASSUME ~careless PROVE TableInv'
    OBVIOUS
  <2>2. \A h \in handles' : h[2] \notin ended' => table'[h[1]] = h[2]
    BY <1>3, <1>4, <1>6, <2>1 DEF IInv, TableInv
  <2>3. ASSUME NEW o \in Caller, call'[o].file # 0
        PROVE  /\ ~Closed(o)' => table'[call'[o].fd] = call'[o].file
               /\ call'[o].row.op = "close" =>
                     /\ call'[o].file \in ended' \/ call'[o].file \notin InHand'
                     /\ \A p \in Caller \ {o} : call'[p].file # call'[o].file
    BY <1>2, <1>3, <1>7, <2>1, <2>3 DEF IInv, TableInv, Closed
  <2> QED BY <2>2, <2>3 DEF TableInv
<1>12. PositionInv'
  BY <1>2, <1>3 DEF IInv, PositionInv
<1>13. ActsOnWhatWasMeant' /\ PositionHonoured'
  BY <1>2, <1>3 DEF IInv, ActsOnWhatWasMeant, PositionHonoured
<1>14. NamedInv'
  BY <1>2, IdleFacts DEF IInv, NamedInv, Advances, Caller
<1> QED BY <1>8, <1>9, <1>10, <1>11, <1>12, <1>13, <1>14 DEF IInv

\* An answer gives the script the file that its open has to itself.
LEMMA DeliverKeeps ==
    ASSUME ScriptAssumption, IInv, NEW r \in Req, Deliver(r)
    PROVE  IInv'
<1> DEFINE x == IF Throws(r) THEN [Idle EXCEPT !.row = call[r].row] ELSE Idle
<1>1. r \in Caller /\ r # Script /\ call[r] \in Call
  BY DEF Caller, ScriptAssumption, IInv, TypeOK
<1>2. call' = [call EXCEPT ![r] = x]
  BY DEF Deliver
<1>3. /\ x \in Call
      /\ x.rest = <<>> /\ x.file = 0 /\ x.step = "begin" /\ x.amiss = {} /\ x.failed = FALSE
  <2>1. CASE Throws(r)
    <3> DEFINE row == call[r].row
    <3>1. row \in CallRow
      BY <1>1, CallFacts
    <3>2. x = [Idle EXCEPT !.row = row]
      BY <2>1
    <3> HIDE DEF x, row
    <3> QED BY <3>1, <3>2, RowFields
  <2>2. CASE ~Throws(r)
    <3>1. x = Idle
      BY <2>2
    <3> HIDE DEF x
    <3> QED BY <3>1, IdleFacts
  <2> QED BY <2>1, <2>2
<1> HIDE DEF x
<1>4. Advances(r, "delivered")
  BY DEF Deliver, Pool!Deliver, Pool!Move, Pool!States, Advances, IInv, TypeOK, Pool!TypeOK
<1>5. call[r] = Idle \/ call[r].step = "done"
  BY DEF Deliver, Pool!Deliver, Pool!Move, IInv, StageInv
<1>6. /\ handles' = handles \cup Given(r)
      /\ buffers' \subseteq Req /\ lost \subseteq lost' /\ lost' \subseteq Req
      /\ UNCHANGED <<files, ended, cwd, synced, careless, overlapped>>
  BY DEF Deliver, IInv, TypeOK
<1> QED BY <1>1, <1>2, <1>3, <1>4, <1>5, <1>6, AnswerKeeps

\* So does the return of a call without a req.
LEMMA ReturnKeeps ==
    ASSUME ScriptAssumption, IInv, Return
    PROVE  IInv'
<1>1. /\ Script \in Caller /\ call[Script].step = "done"
      /\ call' = [call EXCEPT ![Script] = Idle]
      /\ handles' = handles \cup Given(Script)
      /\ UNCHANGED <<state, lost, buffers, files, ended, cwd, synced, careless, overlapped>>
  BY DEF Return, Caller, pooled
<1>2. Advances(Script, "delivered")
  BY <1>1 DEF Advances, ScriptAssumption, IInv, TypeOK, Pool!TypeOK
<1>3. buffers' \subseteq Req /\ lost \subseteq lost' /\ lost' \subseteq Req
  BY <1>1 DEF IInv, TypeOK
<1> QED BY <1>1, <1>2, <1>3, IdleFacts, AnswerKeeps

\* readFileUtf8 goes on with the file that it alone knows.
LEMMA GoOnKeeps ==
    ASSUME ScriptAssumption, IInv, GoOn
    PROVE  IInv'
<1> DEFINE k == call[Script]
           x == [Idle EXCEPT !.function = k.function, !.row = Head(k.rest), !.rest = Tail(k.rest),
                             !.fd = k.fd, !.file = k.file, !.position = 0]
<1>1. /\ k.step = "done" /\ k.rest # <<>> /\ ~(k.row.op = "open" /\ k.failed)
      /\ call' = [call EXCEPT ![Script] = x]
  BY DEF GoOn
<1>2. /\ UNCHANGED <<state, lost, table, mover, opened, handles, ended, buffers, cwd, synced,
                     careless, overlapped>>
      /\ InHand' = InHand
  BY DEF GoOn, pooled, files, script, InHand
<1>3. Script \in Caller /\ k \in Call /\ call \in [Caller -> Call]
  BY DEF Caller, IInv, TypeOK
\* It reads what it has opened, or closes what it has read.
<1>4. \/ k.rest = Tail(readFileUtf8) /\ k.row.op = "open"
      \/ k.rest = <<Plain("close")>> /\ k.row.op = "transfer"
  BY <1>1 DEF IInv, StageInv
<1>5. /\ Head(k.rest) \in CallRow /\ Tail(k.rest) \in CallRest
      /\ Head(k.rest).resolves
      /\ \/ Head(k.rest).op = "transfer" /\ Tail(k.rest) = <<Plain("close")>>
         \/ Head(k.rest).op = "close" /\ Tail(k.rest) = <<>>
  <2>1. CASE k.rest = Tail(readFileUtf8)
    <3>1. Head(k.rest) = Plain("transfer") /\ Tail(k.rest) = <<Plain("close")>>
      BY <2>1, ReadFile
    <3> QED BY <3>1, RowFacts, PlainFacts DEF CallRest
  <2>2. CASE k.rest = <<Plain("close")>>
    <3>1. Head(k.rest) = Plain("close") /\ Tail(k.rest) = <<>>
      BY <2>2, ReadFile
    <3> QED BY <3>1, RowFacts, PlainFacts DEF CallRest
  <2> QED BY <1>4, <2>1, <2>2
<1>6. /\ k.file \in Files /\ k.file # 0 /\ k.fd \in Descriptors /\ k.file <= opened
      /\ Private(Script)
      /\ ~careless => table[k.fd] = k.file
  <2>1. k.file # 0
    BY <1>1, <1>3, <1>4, ScriptAssumption DEF IInv, StageInv, Uses, ScriptAssumption
  <2>2. /\ k.fd \in Descriptors /\ k.file <= opened /\ Private(Script)
    BY <1>1, <1>3, <2>1 DEF IInv, OriginInv
  <2>3. k.file \in Files
    BY <1>3, <2>1, CallFacts
  <2>4. ~careless => table[k.fd] = k.file
    BY <1>3, <1>4, <2>1 DEF IInv, TableInv, Closed
  <2> QED BY <2>1, <2>2, <2>3, <2>4
<1> HIDE DEF k
<1>7. /\ x \in Call
      /\ x.row = Head(k.rest) /\ x.rest = Tail(k.rest) /\ x.fd = k.fd /\ x.file = k.file
      /\ x.step = "begin" /\ x.amiss = {} /\ x.failed = FALSE
  <2> DEFINE row == Head(k.rest)
             rest == Tail(k.rest)
  <2>1. row \in CallRow /\ rest \in CallRest /\ Home \in Directories
    BY <1>5 DEF ScriptAssumption
  <2>2. x = [Idle EXCEPT !.function = k.function, !.row = row, !.rest = rest,
                         !.fd = k.fd, !.file = k.file, !.position = 0]
    OBVIOUS
  <2>4. k.function \in Functions \cup {"readFileUtf8", None}
    BY <1>3, FunctionFacts DEF k
  <2> HIDE DEF row, rest, x
  <2>3. /\ x \in Call
        /\ x.row = row /\ x.rest = rest /\ x.fd = k.fd /\ x.file = k.file
        /\ x.step = "begin" /\ x.amiss = {} /\ x.failed = FALSE
    BY <1>6, <2>1, <2>2, <2>4, ReadFile DEF Idle, Call, CallRow, CallRest
  <2> QED BY <2>3 DEF row, rest
<1> HIDE DEF x
<1>8. /\ call' \in [Caller -> Call]
      /\ call'[Script] = x
      /\ \A o \in Caller \ {Script} : call'[o] = call[o]
  BY <1>1, <1>3, <1>7, CallChanges
<1>9. /\ \A o \in Caller : call'[o].file = call[o].file /\ call'[o].fd = call[o].fd
      /\ \A o \in Caller \ {Script} : call[o].file # k.file
      /\ k.file \notin InHand
  BY <1>6, <1>7, <1>8 DEF k, Private
<1>10. TypeOK'
  BY <1>2, <1>8 DEF IInv, TypeOK, Pool!TypeOK
<1>11. OriginInv'
  <2>1. \A o \in Caller : Private(o) => Private(o)'
    BY <1>2, <1>9 DEF Private
  <2>2. \A o \in Caller \ {Script} : call'[o].file # 0 =>
          /\ call'[o].fd \in Descriptors
          /\ call'[o].file <= opened'
          /\ <<call'[o].fd, call'[o].file>> \in handles' \/ Private(o)'
          /\ call'[o].row.op = "open" \/ call'[o].rest # <<>> => Private(o)'
    BY <1>2, <1>8, <2>1 DEF IInv, OriginInv
  <2>3. /\ call'[Script].fd \in Descriptors /\ call'[Script].file <= opened'
        /\ Private(Script)'
    BY <1>2, <1>3, <1>6, <1>7, <1>8, <2>1
  <2>4. (\A h \in handles' : h[2] <= opened') /\ ended' \subseteq InHand'
    BY <1>2 DEF IInv, OriginInv
  <2> QED BY <2>2, <2>3, <2>4 DEF OriginInv
<1>12. StageInv'
  <2>1. ASSUME NEW r \in Req
        PROVE  /\ state'[r] = "idle" /\ r \notin lost' => call'[r] = Idle
               /\ state'[r] = "completed" => call'[r] = Idle \/ call'[r].step = "done"
               /\ call'[r].rest = <<>>
    BY <1>2, <1>8 DEF IInv, StageInv, Caller, ScriptAssumption
  <2>2. ASSUME NEW o \in Caller
        PROVE  /\ Uses(o)' /\ (o \in Req => state'[o] = "accepted") => call'[o].file # 0
               /\ call'[o].row.op = "open" /\ call'[o].step = "done" /\ ~call'[o].failed
                     => call'[o].file # 0
               /\ call'[o].step = "sought" => call'[o].row.op = "transfer" /\ call'[o].file # 0
               /\ call'[o].step # "done" => call'[o].amiss = {}
    <3>1. CASE o = Script
      BY <1>6, <1>7, <1>8, <3>1
    <3>2. CASE o # Script
      BY <1>2, <1>8, <3>2 DEF IInv, StageInv, Uses
    <3> QED BY <3>1, <3>2
  <2>3. \/ call'[Script].rest = <<>>
        \/ call'[Script].rest = Tail(readFileUtf8) /\ call'[Script].row.op = "open"
        \/ call'[Script].rest = <<Plain("close")>> /\ call'[Script].row.op = "transfer"
    BY <1>5, <1>7, <1>8
  <2> QED BY <2>1, <2>2, <2>3 DEF StageInv
<1>13. careless' \/ TableInv'
  <2>1. SUFFICES ASSUME ~careless PROVE TableInv'
    BY <1>2
  <2>2. \A h \in handles' : h[2] \notin ended' => table'[h[1]] = h[2]
    BY <1>2, <2>1 DEF IInv, TableInv
  <2>3. ASSUME NEW o \in Caller, call'[o].file # 0
        PROVE  /\ ~Closed(o)' => table'[call'[o].fd] = call'[o].file
               /\ call'[o].row.op = "close" =>
                     /\ call'[o].file \in ended' \/ call'[o].file \notin InHand'
                     /\ \A p \in Caller \ {o} : call'[p].file # call'[o].file
    <3>1. CASE o = Script
      BY <1>2, <1>6, <1>7, <1>8, <1>9, <2>1, <3>1
    <3>2. CASE o # Script
      BY <1>2, <1>8, <1>9, <2>1, <2>3, <3>2 DEF IInv, TableInv, Closed
    <3> QED BY <3>1, <3>2
  <2> QED BY <2>2, <2>3 DEF TableInv
<1>14. PositionInv'
  <2>1. ASSUME NEW o \in Caller, NEW p \in Caller, o # p,
               call'[o].row.op = "transfer", call'[p].row.op = "transfer",
               call'[o].file # 0, call'[o].file = call'[p].file
        PROVE  call'[o].file \in overlapped'
    <3>1. o # Script /\ p # Script
      BY <1>7, <1>8, <1>9, <2>1
    <3> QED BY <1>2, <1>8, <2>1, <3>1 DEF IInv, PositionInv
  <2>2. ASSUME ~careless', NEW o \in Caller, call'[o].step = "sought"
        PROVE  \/ mover'[call'[o].file] = o
               \/ call'[o].file \in overlapped'
               \/ ~Fits(call'[o].position)
    BY <1>2, <1>7, <1>8, <2>2 DEF IInv, PositionInv
  <2> QED BY <2>1, <2>2 DEF PositionInv
<1>15. ActsOnWhatWasMeant' /\ PositionHonoured'
  BY <1>2, <1>7, <1>8 DEF IInv, ActsOnWhatWasMeant, PositionHonoured
<1>16. NamedInv'
  BY <1>2, <1>5, <1>7, <1>8 DEF IInv, NamedInv
<1> QED BY <1>10, <1>11, <1>12, <1>13, <1>14, <1>15, <1>16 DEF IInv

\* A call that nothing will answer has no file.
LEMMA AskNeverKeeps ==
    ASSUME ScriptAssumption, IInv, NEW r \in Req, NEW row \in Rows(Functions), AskNever(r, row)
    PROVE  IInv'
<1> DEFINE x == [Idle EXCEPT !.row = row]
<1>1. /\ r \in Caller /\ r # Script /\ row \in CallRow
      /\ r \notin lost /\ state[r] = "idle"
      /\ lost' = lost \cup {r}
      /\ UNCHANGED <<state, files, script>>
  BY RowFacts DEF AskNever, MayAsk, Caller, ScriptAssumption
<1>2. call[r] = Idle
  BY <1>1 DEF IInv, StageInv
<1>3. call' = [call EXCEPT ![r] = x]
  BY <1>1, <1>2 DEF AskNever, IInv, TypeOK
<1>4. /\ x \in Call
      /\ x.rest = <<>> /\ x.file = 0 /\ x.step = "begin" /\ x.amiss = {} /\ x.failed = FALSE
  BY <1>1, RowFields
<1> HIDE DEF x
<1>5. Advances(r, "idle")
  BY <1>1 DEF Advances, IInv, TypeOK, Pool!TypeOK
<1>6. Given(r) = {}
  BY <1>2, IdleFacts DEF Given
<1>7. /\ handles' = handles \cup Given(r)
      /\ buffers' \subseteq Req /\ lost \subseteq lost' /\ lost' \subseteq Req
      /\ UNCHANGED <<files, ended, cwd, synced, careless, overlapped>>
  BY <1>1, <1>6 DEF script, IInv, TypeOK
<1> QED BY <1>1, <1>2, <1>3, <1>4, <1>5, <1>7, AnswerKeeps

\* No call is made and none goes on.
LEMMA NoCallKeeps ==
    ASSUME IInv,
           UNCHANGED <<lost, call, files, handles, ended, synced, careless, overlapped>>,
           cwd' \in Directories, buffers' \subseteq Req,
           state' \in [Req -> Pool!States],
           \A r \in Req : state'[r] # state[r] =>
              /\ state[r] = "idle" /\ r \notin lost
              /\ state'[r] \in {"completed", "refused"}
    PROVE  IInv'
<1>1. UNCHANGED <<table, mover, opened>> /\ InHand' = InHand
  BY DEF files, InHand
<1>2. TypeOK'
  BY <1>1 DEF IInv, TypeOK, Pool!TypeOK
<1>3. OriginInv'
  BY <1>1 DEF IInv, OriginInv, Private
<1>4. StageInv'
  BY DEF IInv, StageInv, Uses
<1>5. careless' \/ TableInv'
  BY <1>1 DEF IInv, TableInv, Closed
<1>6. PositionInv'
  BY <1>1 DEF IInv, PositionInv
<1>7. NamedInv' /\ ActsOnWhatWasMeant' /\ PositionHonoured'
  BY DEF IInv, NamedInv, ActsOnWhatWasMeant, PositionHonoured
<1> QED BY <1>2, <1>3, <1>4, <1>5, <1>6, <1>7 DEF IInv

\* A call is made with a handle if it needs one.
LEMMA ArgumentsFacts ==
    ASSUME NEW op, NEW a \in Arguments(op)
    PROVE  /\ a[1] \in handles \cup {NoHandle} /\ a[2] \in Positions \cup {None}
           /\ NoHandle \notin handles =>
                 (op \in {"descriptor", "close", "transfer"} <=> a[1] \in handles)
  BY DEF Arguments

\* The script itself makes a call.
LEMMA SyncFacts ==
    ASSUME ScriptAssumption, IInv, Free, synced < MaxSync, synced' = synced + 1,
           UNCHANGED <<pooled, buffers>>
    PROVE  /\ Script \in Caller /\ call[Script] = Idle
           /\ Advances(Script, "accepted")
           /\ lost' = lost /\ buffers' \subseteq Req /\ synced' \in 0 .. MaxSync
  BY DEF Free, pooled, Caller, Advances, IInv, TypeOK, Pool!TypeOK, ScriptAssumption

\* readFileUtf8 begins with its open.
LEMMA AskReadFileKeeps ==
    ASSUME ScriptAssumption, IInv, AskReadFile
    PROVE  IInv'
<1>1. NoHandle \notin handles
  BY DEF IInv, TypeOK, NoHandle, Files
<1>2. /\ Ask(Script, "readFileUtf8", Head(readFileUtf8), Tail(readFileUtf8), NoHandle, None)
      /\ Free /\ synced < MaxSync /\ synced' = synced + 1 /\ UNCHANGED <<pooled, buffers>>
  BY DEF AskReadFile
<1>3. /\ Head(readFileUtf8) \in CallRow /\ Tail(readFileUtf8) \in CallRest
      /\ Head(readFileUtf8).op = "open"
      /\ "readFileUtf8" \in Unresolving
  BY ReadFile, RowFacts, PlainFacts DEF CallRest, Unresolving
<1> QED BY <1>1, <1>2, <1>3, SyncFacts, AskKeeps

\* Calls with a req and without one are asked for alike.
LEMMA AskingKeeps ==
    ASSUME ScriptAssumption, IInv, NEW f \in Functions, NEW row \in Shim[f],
           AskSync(f, row) \/ \E r \in Req : AskPool(r, f, row)
    PROVE  IInv'
<1>1. NoHandle \notin handles
  BY DEF IInv, TypeOK, NoHandle, Files
<1>2. /\ row \in CallRow /\ <<>> \in CallRest
      /\ row.resolves \/ f \in Unresolving
  <2>1. row \in Rows(Functions) /\ f \in DOMAIN Shim
    BY DEF Rows, ScriptAssumption
  <2>2. row.resolves \/ f \in Unresolving
    BY <2>1, ResolvingFunctions DEF Resolve
  <2> QED BY <2>1, <2>2, RowFacts DEF CallRest
<1>3. ASSUME NEW r \in Req, AskPool(r, f, row) PROVE IInv'
  <2>1. PICK a \in Arguments(row.op) : Ask(r, f, row, <<>>, a[1], a[2])
    BY <1>3 DEF AskPool
  <2>2. r \in Caller /\ call[r] = Idle
    BY <1>3 DEF AskPool, MayAsk, Pool!Accept, Pool!Move, IInv, StageInv, Caller
  <2>3. Advances(r, "accepted")
    BY <1>3 DEF AskPool, Pool!Accept, Pool!Move, Pool!States, Advances, IInv, TypeOK, Pool!TypeOK
  <2>4. lost' = lost /\ buffers' \subseteq Req /\ synced' \in 0 .. MaxSync
    BY <1>3 DEF AskPool, IInv, TypeOK
  <2> QED BY <1>1, <1>2, <2>1, <2>2, <2>3, <2>4, ArgumentsFacts, AskKeeps
<1>5. ASSUME AskSync(f, row) PROVE IInv'
  <2>1. PICK a \in Arguments(row.op) : Ask(Script, f, row, <<>>, a[1], a[2])
    BY <1>5 DEF AskSync
  <2>2. Free /\ synced < MaxSync /\ synced' = synced + 1 /\ UNCHANGED <<pooled, buffers>>
    BY <1>5 DEF AskSync
  <2> QED BY <1>1, <1>2, <2>1, <2>2, SyncFacts, ArgumentsFacts, AskKeeps
<1> QED BY <1>3, <1>5

\* The steps of operations, by a worker or without a req.
LEMMA WorkKeeps ==
    ASSUME ScriptAssumption, IInv, NEW c \in Caller, Work(c)
    PROVE  IInv'
  BY OnPathKeeps, OnDescriptorKeeps, OpenKeeps, OpenFailsKeeps, CloseKeeps, SeekKeeps,
     TransferFailsKeeps, TransferKeeps DEF Work

\* Every step keeps it.
LEMMA NextKeeps == ASSUME ScriptAssumption, IInv, [Next]_vars PROVE IInv'
<1>1. ASSUME NEW r \in Req, NEW f \in Functions, NEW row \in Shim[f],
             AskPool(r, f, row)
      PROVE IInv'
  BY <1>1, AskingKeeps
<1>2. ASSUME NEW r \in Req, NEW row \in Rows(Functions), AskLater(r, row) \/ AskThrows(r, row)
      PROVE  IInv'
  <2>1. /\ UNCHANGED <<lost, call, files, script>>
        /\ state[r] = "idle" /\ r \notin lost
        /\ \/ state' = [state EXCEPT ![r] = "completed"]
           \/ state' = [state EXCEPT ![r] = "refused"]
    BY <1>2 DEF AskLater, AskThrows, MayAsk, Pool!AcceptCompleted, Pool!Refuse, Pool!Move
  <2>2. /\ state' \in [Req -> Pool!States]
        /\ \A q \in Req : state'[q] # state[q] =>
              /\ state[q] = "idle" /\ q \notin lost
              /\ state'[q] \in {"completed", "refused"}
    BY <2>1 DEF IInv, TypeOK, Pool!TypeOK, Pool!States
  <2>3. cwd' \in Directories /\ buffers' \subseteq Req
        /\ UNCHANGED <<handles, ended, synced, careless, overlapped>>
    BY <2>1 DEF script, IInv, TypeOK
  <2> QED BY <2>1, <2>2, <2>3, NoCallKeeps
<1>3. ASSUME NEW r \in Req, NEW row \in Rows(Functions), AskNever(r, row) PROVE IInv'
  BY <1>3, AskNeverKeeps
<1>4. ASSUME NEW f \in Functions, NEW row \in Shim[f], AskSync(f, row) PROVE IInv'
  BY <1>4, AskingKeeps
<1>5. ASSUME AskReadFile PROVE IInv'
  BY <1>5, AskReadFileKeeps
<1>6. ASSUME NEW d \in Directories, Chdir(d) PROVE IInv'
  BY <1>6, NoCallKeeps DEF Chdir, pooled, IInv, TypeOK, Pool!TypeOK
<1>7. ASSUME NEW r \in Req, DropBuffer(r) PROVE IInv'
  BY <1>7, NoCallKeeps DEF DropBuffer, pooled, IInv, TypeOK, Pool!TypeOK
<1>8. ASSUME NEW c \in Caller, Work(c) PROVE IInv'
  BY <1>8, WorkKeeps
<1>9. ASSUME NEW r \in Req, Deliver(r) PROVE IInv'
  BY <1>9, DeliverKeeps
<1>10. ASSUME UNCHANGED vars PROVE IInv'
  <2>1. UNCHANGED <<pooled, call, files, script>>
    BY <1>10 DEF vars
  <2>2. UNCHANGED <<state, lost, handles, ended, buffers, cwd, synced, careless, overlapped>>
    BY <2>1 DEF pooled, script
  <2> QED BY <2>1, <2>2, NoCallKeeps DEF IInv, TypeOK, Pool!TypeOK
<1> QED
  <2>1. \A f \in Functions : Shim[f] \subseteq Rows(Functions)
    BY DEF Rows
  <2> QED
    BY <1>1, <1>2, <1>3, <1>4, <1>5, <1>6, <1>7, <1>8, <1>9, <1>10, <2>1, ReturnKeeps, GoOnKeeps
    DEF Next

-----------------------------------------------------------------------------
(* Theorems.                                                               *)

\* So it holds always.
LEMMA InvariantHolds == Spec => []IInv
<1>1. Init => IInv
  BY InitIInv, ScriptAssumption
<1>2. IInv /\ [Next]_vars => IInv'
  BY NextKeeps, ScriptAssumption
<1> QED BY <1>1, <1>2, PTL DEF Spec

\* Requests, calls, descriptors and files stay what they are.
THEOREM TypeCorrect == Spec => []TypeOK
<1>1. IInv => TypeOK
  BY DEF IInv
<1> QED BY <1>1, InvariantHolds, PTL

\* Whatever functions of def_fs.js a script uses, on however many descriptors
\* and with however many calls at a time: if it uses no descriptor that it has
\* asked to be closed and closes none that it has a call on, every call acts on
\* the file that was open when it was made, though descriptors are used again.
\* A path, that of an open included, is taken from where the script was when it
\* made the call, unless the function is one of the five of Unresolving.  And
\* no worker touches memory that has been given back.
THEOREM CallsActOnWhatWasMeant == Spec => []ActsOnWhatWasMeant
<1>1. IInv => ActsOnWhatWasMeant
  BY DEF IInv
<1> QED BY <1>1, InvariantHolds, PTL

\* Though sys_fsRead and sys_fsWrite set the position in a call of its own,
\* such a script has every transfer made at the position it gave, unless it had
\* two transfers on the file at a time or the position has no room in a long.
THEOREM TransfersWhereMeant == Spec => []PositionHonoured
<1>1. IInv => PositionHonoured
  BY DEF IInv
<1> QED BY <1>1, InvariantHolds, PTL
-----------------------------------------------------------------------------
(* The pool's promise.                                                     *)

\* An operation that is over completes the request it was run for, if any.
LEMMA WorkCompletes ==
    ASSUME NEW c \in Caller, Work(c)
    PROVE  UNCHANGED state \/ (c \in Req /\ Pool!Complete(c))
<1>1. ASSUME NEW failed, NEW amiss, Finish(c, failed, amiss)
      PROVE  UNCHANGED state \/ (c \in Req /\ Pool!Complete(c))
  BY <1>1 DEF Finish, Caller
<1>2. CASE OnPath(c)
  BY <1>1, <1>2 DEF OnPath
<1>3. CASE OnDescriptor(c)
  BY <1>1, <1>3 DEF OnDescriptor
<1>4. CASE Open(c)
  BY <1>4 DEF Open, Caller
<1>5. CASE OpenFails(c)
  BY <1>1, <1>5 DEF OpenFails
<1>6. CASE Close(c)
  BY <1>1, <1>6 DEF Close
<1>7. CASE Seek(c)
  BY <1>7 DEF Seek, pooled
<1>8. CASE TransferFails(c)
  BY <1>1, <1>8 DEF TransferFails
<1>9. CASE Transfer(c)
  BY <1>1, <1>9 DEF Transfer
<1> QED BY <1>2, <1>3, <1>4, <1>5, <1>6, <1>7, <1>8, <1>9 DEF Work

\* Whatever the script asks for, one way or the other, and whatever its calls
\* run into, a req goes the way of an AsyncRequest: it is refused on the spot,
\* or its operation ends once and its callback is called once after that.  A
\* call that nothing answers, or one without a req, is none of its steps.
THEOREM ReqsKeepThePromise == Spec => Pool!Spec
<1>1. Init => Pool!Init
  BY DEF Init
<1>2. ASSUME [Next]_vars PROVE [Pool!Next]_state
  <2>1. ASSUME NEW r \in Req, NEW f \in Functions, NEW row \in Shim[f],
             AskPool(r, f, row)
      PROVE Pool!Accept(r)
    BY <2>1 DEF AskPool
  <2>2. ASSUME NEW r \in Req, NEW row \in Rows(Functions), AskLater(r, row)
        PROVE  Pool!AcceptCompleted(r)
    BY <2>2 DEF AskLater
  <2>3. ASSUME NEW r \in Req, NEW row \in Rows(Functions), AskThrows(r, row)
        PROVE  Pool!Refuse(r)
    BY <2>3 DEF AskThrows
  <2>4. ASSUME NEW r \in Req, NEW row \in Rows(Functions), AskNever(r, row)
        PROVE  UNCHANGED state
    BY <2>4 DEF AskNever
  <2>5. ASSUME NEW f \in Functions, NEW row \in Shim[f], AskSync(f, row) PROVE UNCHANGED state
    BY <2>5 DEF AskSync, pooled
  <2>6. ASSUME NEW d \in Directories, Chdir(d) PROVE UNCHANGED state
    BY <2>6 DEF Chdir, pooled
  <2>7. ASSUME NEW r \in Req, DropBuffer(r) PROVE UNCHANGED state
    BY <2>7 DEF DropBuffer, pooled
  <2>8. ASSUME NEW r \in Req, Deliver(r) PROVE Pool!Deliver(r)
    BY <2>8 DEF Deliver
  <2>9. ASSUME AskReadFile \/ Return \/ GoOn \/ UNCHANGED vars PROVE UNCHANGED state
    BY <2>9 DEF AskReadFile, Return, GoOn, vars, pooled
  <2>10. \A f \in Functions : Shim[f] \subseteq Rows(Functions)
    BY DEF Rows
  <2> QED
    BY <1>2, <2>1, <2>2, <2>3, <2>4, <2>5, <2>6, <2>7, <2>8, <2>9, <2>10, WorkCompletes
    DEF Next, Pool!Next
<1> QED BY <1>1, <1>2, PTL DEF Spec, Pool!Spec
=============================================================================
