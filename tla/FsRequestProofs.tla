-------------------------- MODULE FsRequestProofs --------------------------
(***************************************************************************)
(* Theorems about FsRequest: what a request holds at each of its stages,   *)
(* and which descriptors stay open, for any number of requests and any     *)
(* number of descriptors.                                                  *)
(***************************************************************************)
EXTENDS FsRequest, FiniteSetTheorems, TLAPS

-----------------------------------------------------------------------------
(* What the operations of fs.inc have in common. *)

\* Endings that leave descriptors as they were and return memory only on success.
Plain == {e \in Ending : e.descriptor = "as before" /\ (e.value \in Fresh => ~e.fails)}

Sound(op) ==
    /\ op \in [BOOLEAN -> SUBSET Ending]
    /\ \A got \in BOOLEAN : \A e \in op[got] :
          /\ e.value \in Fresh => ~e.fails
          /\ e.descriptor = "left open" => op \in {fs_open, fs_lstat} /\ got
          /\ e.descriptor = "closed" => ~TakesDescriptor(op)

\* An error or a success without memory is a plain ending.
LEMMA PlainEndings ==
    /\ \A v \in Values : Does(v) \in Plain
    /\ \A v \in Values \ Fresh : Fails(v) \in Plain
  BY DEF Plain, Ending, Values, Fresh, Descriptor, Does, Fails

\* An operation with plain endings only is sound.
LEMMA PlainSound ==
    ASSUME NEW op \in [BOOLEAN -> SUBSET Plain] PROVE Sound(op)
  <1>1. \A got \in BOOLEAN : \A e \in op[got] : e \in Plain
    OBVIOUS
  <1>2. Plain \subseteq Ending
    BY DEF Plain
  <1>3. op \in [BOOLEAN -> SUBSET Ending]
    BY <1>2
  <1> QED
    BY <1>1, <1>3 DEF Plain, Sound

\* Both ways of writing an operation down are functions of the truth values.
LEMMA PlainOperations ==
    /\ \A O \in SUBSET Plain : Always(O) \in [BOOLEAN -> SUBSET Plain]
    /\ \A O, P \in SUBSET Plain : OnDescriptor(O, P) \in [BOOLEAN -> SUBSET Plain]
  BY DEF Always, OnDescriptor

\* Every operation of fs.inc is sound.
LEMMA Operations ==
    /\ Sound(fs_access) /\ Sound(fs_rename) /\ Sound(fs_ftruncate) /\ Sound(fs_rmdir)
    /\ Sound(fs_fsync) /\ Sound(fs_fdatasync) /\ Sound(fs_mkdir) /\ Sound(fs_link)
    /\ Sound(fs_unlink) /\ Sound(fs_chmod) /\ Sound(fs_futimes) /\ Sound(fs_chown)
    /\ Sound(fs_lchown) /\ Sound(fs_fchown) /\ Sound(fs_exists) /\ Sound(fs_read)
    /\ Sound(fs_write_buffer) /\ Sound(fs_open) /\ Sound(fs_close) /\ Sound(fs_utimes)
    /\ Sound(fs_lutimes) /\ Sound(fs_fstat) /\ Sound(fs_stat) /\ Sound(fs_lstat)
    /\ Sound(fs_statfs) /\ Sound(fs_readlink) /\ Sound(fs_readdir)
  <1>1. /\ Does("none") \in Plain /\ Does("number") \in Plain /\ Does("owned") \in Plain
        /\ Does("null") \in Plain /\ Does("junk") \in Plain /\ Does("unset") \in Plain
        /\ Fails("none") \in Plain /\ Fails("number") \in Plain /\ Fails("null") \in Plain /\ Fails("junk") \in Plain
        /\ Fails("dangling") \in Plain
    BY PlainEndings DEF Values, Fresh
  <1>2. Sound(fs_access) /\ Sound(fs_rename) /\ Sound(fs_ftruncate) /\ Sound(fs_rmdir)
    BY <1>1, PlainOperations, PlainSound DEF fs_access, fs_rename, fs_ftruncate, fs_rmdir
  <1>3. Sound(fs_fsync) /\ Sound(fs_fdatasync) /\ Sound(fs_mkdir) /\ Sound(fs_link)
    BY <1>1, PlainOperations, PlainSound DEF fs_fsync, fs_fdatasync, fs_mkdir, fs_link
  <1>4. Sound(fs_unlink) /\ Sound(fs_chmod) /\ Sound(fs_futimes)
    BY <1>1, PlainOperations, PlainSound DEF fs_unlink, fs_chmod, fs_futimes
  <1>5. Sound(fs_chown) /\ Sound(fs_lchown) /\ Sound(fs_fchown)
    BY <1>1, PlainOperations, PlainSound DEF fs_chown, fs_lchown, fs_fchown
  <1>6. Sound(fs_exists) /\ Sound(fs_read) /\ Sound(fs_write_buffer)
    BY <1>1, PlainOperations, PlainSound DEF fs_exists, fs_read, fs_write_buffer
  <1>7. Sound(fs_statfs) /\ Sound(fs_readlink) /\ Sound(fs_readdir) /\ Sound(fs_fstat)
    BY <1>1, PlainOperations, PlainSound DEF fs_statfs, fs_readlink, fs_readdir, fs_fstat
  <1>8. fs_futimes[TRUE] \in SUBSET Plain /\ fs_fstat[TRUE] \in SUBSET Plain
    BY <1>1 DEF fs_futimes, fs_fstat, Always
  <1>9. Sound(fs_utimes) /\ Sound(fs_lutimes) /\ Sound(fs_stat)
    BY <1>1, <1>8, PlainOperations, PlainSound DEF fs_utimes, fs_lutimes, fs_stat
  <1>10. ASSUME NEW O \in SUBSET Plain, NEW e \in LeavesOpen(O)
         PROVE  e \in Ending /\ e.descriptor = "left open" /\ (e.value \in Fresh => ~e.fails)
    BY <1>10 DEF LeavesOpen, Plain, Ending, Descriptor
  <1>11. ASSUME NEW op, op \in {fs_open, fs_lstat},
                NEW O \in SUBSET Plain, NEW P \in SUBSET Plain,
                op = OnDescriptor(LeavesOpen(O), P)
         PROVE  Sound(op)
    <2>1. op[TRUE] = LeavesOpen(O) /\ op[FALSE] = P
      BY <1>11 DEF OnDescriptor
    <2>2. op[TRUE] \in SUBSET Ending /\ op[FALSE] \in SUBSET Ending
      BY <2>1, <1>10 DEF Plain
    <2>3. op \in [BOOLEAN -> SUBSET Ending]
      BY <1>11, <2>1, <2>2 DEF OnDescriptor
    <2>4. \A e \in op[TRUE] : e.descriptor = "left open" /\ (e.value \in Fresh => ~e.fails)
      BY <2>1, <1>10
    <2>5. \A e \in op[FALSE] : e.descriptor = "as before" /\ (e.value \in Fresh => ~e.fails)
      BY <2>1 DEF Plain
    <2> QED
      BY <1>11, <2>3, <2>4, <2>5 DEF Sound
  <1>12. Sound(fs_open)
    BY <1>1, <1>11 DEF fs_open
  <1>13. Sound(fs_lstat)
    BY <1>1, <1>8, <1>11 DEF fs_lstat
  <1>14. Sound(fs_close)
    <2>1. fs_close \in [BOOLEAN -> SUBSET Ending]
      BY DEF fs_close, Always, Closes, Fails, Ending, Values, Descriptor
    <2>2. \A got \in BOOLEAN : fs_close[got] = {Closes, Fails("none")}
      BY DEF fs_close, Always
    <2>3. Closes.value \notin Fresh /\ Closes.descriptor = "closed"
      BY DEF Closes, Fresh
    <2>4. Fails("none").value \notin Fresh /\ Fails("none").descriptor = "as before"
      BY DEF Fails, Fresh
    <2>5. ~TakesDescriptor(fs_close)
      BY <2>2 DEF TakesDescriptor
    <2> QED
      BY <2>1, <2>2, <2>3, <2>4, <2>5 DEF Sound
  <1> QED
    BY <1>2, <1>3, <1>4, <1>5, <1>6, <1>7, <1>9, <1>12, <1>13, <1>14

\* Values that hold what nobody has set, or what has been freed.
NoResult == Junk \cup {"unset"}

\* Without an error the result of an operation is one, with five exceptions.
Honest(op) ==
    /\ op \notin FailsUnnoticed =>
          \A got \in BOOLEAN : \A e \in op[got] : e.value \in Junk => e.fails
    /\ op \notin Unsettled =>
          \A got \in BOOLEAN : \A e \in op[got] : e.value \in NoResult => e.fails

\* Endings whose result is one unless they are errors.
Truthful == {e \in Ending : e.value \in NoResult => e.fails}

\* All ways of writing an ending are truthful, but success with junk.
LEMMA TruthfulEndings ==
    /\ \A v \in Values \ NoResult : Does(v) \in Truthful
    /\ \A v \in Values : Fails(v) \in Truthful
    /\ Closes \in Truthful
    /\ \A O \in SUBSET Truthful : LeavesOpen(O) \in SUBSET Truthful
  <1>1. \A v \in Values \ NoResult : Does(v) \in Truthful
    BY DEF Truthful, Ending, Descriptor, Does
  <1>2. \A v \in Values : Fails(v) \in Truthful
    BY DEF Truthful, Ending, Descriptor, Fails
  <1>3. Closes \in Truthful
    BY DEF Truthful, Ending, Descriptor, Closes, Values, NoResult, Junk
  <1>4. ASSUME NEW O \in SUBSET Truthful, NEW e \in LeavesOpen(O) PROVE e \in Truthful
    BY <1>4 DEF LeavesOpen, Truthful, Ending, Descriptor
  <1> QED
    BY <1>1, <1>2, <1>3, <1>4

\* An operation with truthful endings is honest.
LEMMA TruthfulHonest ==
    /\ \A O \in SUBSET Truthful : Honest(Always(O))
    /\ \A O, P \in SUBSET Truthful : Honest(OnDescriptor(O, P))
  <1>1. ASSUME NEW O \in SUBSET Truthful, NEW got \in BOOLEAN, NEW e \in Always(O)[got]
        PROVE  e.value \in NoResult => e.fails
    BY <1>1 DEF Always, Truthful
  <1>2. ASSUME NEW O \in SUBSET Truthful, NEW P \in SUBSET Truthful,
               NEW got \in BOOLEAN, NEW e \in OnDescriptor(O, P)[got]
        PROVE  e.value \in NoResult => e.fails
    BY <1>2 DEF OnDescriptor, Truthful
  <1> QED
    BY <1>1, <1>2 DEF Honest, NoResult

\* Every operation of fs.inc is honest, those excepted that Honest names.
LEMMA HonestOperations ==
    /\ Honest(fs_access) /\ Honest(fs_rename) /\ Honest(fs_ftruncate) /\ Honest(fs_rmdir)
    /\ Honest(fs_fsync) /\ Honest(fs_fdatasync) /\ Honest(fs_mkdir) /\ Honest(fs_link)
    /\ Honest(fs_unlink) /\ Honest(fs_chmod) /\ Honest(fs_futimes) /\ Honest(fs_chown)
    /\ Honest(fs_lchown) /\ Honest(fs_fchown) /\ Honest(fs_exists) /\ Honest(fs_read)
    /\ Honest(fs_write_buffer) /\ Honest(fs_open) /\ Honest(fs_close) /\ Honest(fs_utimes)
    /\ Honest(fs_lutimes) /\ Honest(fs_fstat) /\ Honest(fs_stat) /\ Honest(fs_lstat)
    /\ Honest(fs_statfs) /\ Honest(fs_readlink) /\ Honest(fs_readdir)
  <1>1. /\ Does("none") \in Truthful /\ Does("number") \in Truthful /\ Does("owned") \in Truthful
        /\ Does("null") \in Truthful /\ Closes \in Truthful /\ Fails("none") \in Truthful
        /\ Fails("number") \in Truthful /\ Fails("null") \in Truthful /\ Fails("junk") \in Truthful
    BY TruthfulEndings DEF Values, NoResult, Junk
  <1>2. Honest(fs_access) /\ Honest(fs_rename) /\ Honest(fs_ftruncate) /\ Honest(fs_rmdir)
    BY <1>1, TruthfulHonest DEF fs_access, fs_rename, fs_ftruncate, fs_rmdir
  <1>3. Honest(fs_fsync) /\ Honest(fs_fdatasync) /\ Honest(fs_mkdir) /\ Honest(fs_link)
    BY <1>1, TruthfulHonest DEF fs_fsync, fs_fdatasync, fs_mkdir, fs_link
  <1>4. Honest(fs_unlink) /\ Honest(fs_chmod) /\ Honest(fs_futimes) /\ Honest(fs_close)
    BY <1>1, TruthfulHonest DEF fs_unlink, fs_chmod, fs_futimes, fs_close
  <1>5. Honest(fs_chown) /\ Honest(fs_lchown) /\ Honest(fs_fchown)
    BY <1>1, TruthfulHonest DEF fs_chown, fs_lchown, fs_fchown
  <1>6. Honest(fs_exists) /\ Honest(fs_read) /\ Honest(fs_write_buffer)
    BY <1>1, TruthfulHonest DEF fs_exists, fs_read, fs_write_buffer
  <1>7. Honest(fs_statfs)
    BY <1>1, TruthfulHonest DEF fs_statfs
  <1>8. fs_futimes[TRUE] \in SUBSET Truthful
    BY <1>1 DEF fs_futimes, Always
  <1>9. Honest(fs_utimes) /\ Honest(fs_lutimes)
    BY <1>1, <1>8, TruthfulHonest DEF fs_utimes, fs_lutimes
  <1>10. Honest(fs_open)
    BY <1>1, TruthfulEndings, TruthfulHonest DEF fs_open
  <1>11. Honest(fs_fstat) /\ Honest(fs_stat) /\ Honest(fs_lstat) /\ Honest(fs_readdir)
    BY DEF Honest, FailsUnnoticed, Unsettled
  <1>12. Honest(fs_readlink)
    <2>1. \A got \in BOOLEAN : \A e \in fs_readlink[got] : e.value \notin Junk
      <3>1. \A v \in Values : Does(v).value = v /\ Fails(v).value = v
        BY DEF Does, Fails
      <3>2. ASSUME NEW got \in BOOLEAN
            PROVE  fs_readlink[got] = {Does("owned"), Does("unset"), Does("null"), Fails("null")}
        BY <3>2 DEF fs_readlink, Always
      <3>3. ASSUME NEW got \in BOOLEAN, NEW e \in fs_readlink[got]
            PROVE  e.value \in {"owned", "unset", "null"}
        BY <3>1, <3>2, <3>3 DEF Values
      <3> QED
        BY <3>3 DEF Junk
    <2> QED
      BY <2>1 DEF Honest, Unsettled
  <1> QED
    BY <1>2, <1>3, <1>4, <1>5, <1>6, <1>7, <1>9, <1>10, <1>11, <1>12

-----------------------------------------------------------------------------
(* The bindings. *)

\* What the next lemma says of a binding.
Calls(b) == b.async \in BOOLEAN /\ Sound(b.op) /\ Honest(b.op)

\* Every binding of fs.c calls a sound and honest operation.
LEMMA Bindings == \A b \in bindings_funcs : Calls(b)
  <1>1. ASSUME NEW params, NEW return, NEW op, Sound(op), Honest(op)
        PROVE  Calls(Sync(params, return, op)) /\ Calls(Async(params, return, op))
    BY <1>1 DEF Calls, Sync, Async
  <1>2. /\ Calls(fs_access_wrapper)
        /\ Calls(fs_accessSync_wrapper)
        /\ Calls(fs_existsSync_wrapper)
        /\ Calls(fs_open_wrapper)
        /\ Calls(fs_openSync_wrapper)
        /\ Calls(fs_close_wrapper)
        /\ Calls(fs_closeSync_wrapper)
        /\ Calls(fs_read_wrapper)
        /\ Calls(fs_readSync_wrapper)
    BY <1>1, Operations, HonestOperations DEF fs_access_wrapper, fs_accessSync_wrapper, fs_existsSync_wrapper,
        fs_open_wrapper, fs_openSync_wrapper, fs_close_wrapper,
        fs_closeSync_wrapper, fs_read_wrapper, fs_readSync_wrapper
  <1>3. /\ Calls(fs_writeBuffer_wrapper)
        /\ Calls(fs_writeBufferSync_wrapper)
        /\ Calls(fs_rename_wrapper)
        /\ Calls(fs_renameSync_wrapper)
        /\ Calls(fs_ftruncate_wrapper)
        /\ Calls(fs_ftruncateSync_wrapper)
        /\ Calls(fs_rmdir_wrapper)
        /\ Calls(fs_rmdirSync_wrapper)
        /\ Calls(fs_fsync_wrapper)
    BY <1>1, Operations, HonestOperations DEF fs_writeBuffer_wrapper, fs_writeBufferSync_wrapper, fs_rename_wrapper,
        fs_renameSync_wrapper, fs_ftruncate_wrapper, fs_ftruncateSync_wrapper,
        fs_rmdir_wrapper, fs_rmdirSync_wrapper, fs_fsync_wrapper
  <1>4. /\ Calls(fs_fsyncSync_wrapper)
        /\ Calls(fs_fdatasync_wrapper)
        /\ Calls(fs_fdatasyncSync_wrapper)
        /\ Calls(fs_mkdir_wrapper)
        /\ Calls(fs_mkdirSync_wrapper)
        /\ Calls(fs_readdir_wrapper)
        /\ Calls(fs_readdirSync_wrapper)
        /\ Calls(fs_fstat_wrapper)
        /\ Calls(fs_fstatSync_wrapper)
    BY <1>1, Operations, HonestOperations DEF fs_fsyncSync_wrapper, fs_fdatasync_wrapper, fs_fdatasyncSync_wrapper,
        fs_mkdir_wrapper, fs_mkdirSync_wrapper, fs_readdir_wrapper,
        fs_readdirSync_wrapper, fs_fstat_wrapper, fs_fstatSync_wrapper
  <1>5. /\ Calls(fs_lstat_wrapper)
        /\ Calls(fs_lstatSync_wrapper)
        /\ Calls(fs_stat_wrapper)
        /\ Calls(fs_statSync_wrapper)
        /\ Calls(fs_statfs_wrapper)
        /\ Calls(fs_statfsSync_wrapper)
        /\ Calls(fs_readlink_wrapper)
        /\ Calls(fs_readlinkSync_wrapper)
        /\ Calls(fs_link_wrapper)
    BY <1>1, Operations, HonestOperations DEF fs_lstat_wrapper, fs_lstatSync_wrapper, fs_stat_wrapper,
        fs_statSync_wrapper, fs_statfs_wrapper, fs_statfsSync_wrapper,
        fs_readlink_wrapper, fs_readlinkSync_wrapper, fs_link_wrapper
  <1>6. /\ Calls(fs_linkSync_wrapper)
        /\ Calls(fs_unlink_wrapper)
        /\ Calls(fs_unlinkSync_wrapper)
        /\ Calls(fs_chmod_wrapper)
        /\ Calls(fs_chmodSync_wrapper)
        /\ Calls(fs_lchown_wrapper)
        /\ Calls(fs_lchownSync_wrapper)
        /\ Calls(fs_fchown_wrapper)
        /\ Calls(fs_fchownSync_wrapper)
    BY <1>1, Operations, HonestOperations DEF fs_linkSync_wrapper, fs_unlink_wrapper, fs_unlinkSync_wrapper,
        fs_chmod_wrapper, fs_chmodSync_wrapper, fs_lchown_wrapper,
        fs_lchownSync_wrapper, fs_fchown_wrapper, fs_fchownSync_wrapper
  <1>7. /\ Calls(fs_chown_wrapper)
        /\ Calls(fs_futimes_wrapper)
        /\ Calls(fs_futimesSync_wrapper)
        /\ Calls(fs_utimes_wrapper)
        /\ Calls(fs_utimesSync_wrapper)
        /\ Calls(fs_lutimes_wrapper)
        /\ Calls(fs_lutimesSync_wrapper)
    BY <1>1, Operations, HonestOperations DEF fs_chown_wrapper, fs_futimes_wrapper, fs_futimesSync_wrapper,
        fs_utimes_wrapper, fs_utimesSync_wrapper, fs_lutimes_wrapper,
        fs_lutimesSync_wrapper
  <1> QED
    BY <1>2, <1>3, <1>4, <1>5, <1>6, <1>7 DEF bindings_funcs

-----------------------------------------------------------------------------
(* The inductive invariant. *)

\* The ending of a request that its worker has finished.
Ended(r) == ending[r] \in Ending /\ (ending[r].value \in Fresh => ~ending[r].fails)

Error(e) == IF e.fails THEN {"error"} ELSE {}

\* How far a request has come says what it holds.
Stage(r) ==
    /\ binding[r] = NoBinding => state[r] = "idle"
    /\ state[r] = "idle" => live[r] = {}
    /\ state[r] \in {"accepted", "refused"} => live[r] = Payload(binding[r])
    /\ state[r] = "completed" =>
          Ended(r) /\ live[r] = Payload(binding[r]) \cup Result(ending[r])
    /\ state[r] = "delivered" =>
          /\ Ended(r)
          /\ live[r] = (IF running = r
                        THEN Payload(binding[r]) \cup Result(ending[r])
                        ELSE {})
                       \cup Value(binding[r], ending[r]) \cup Error(ending[r])
    /\ r \in working => state[r] = "accepted"
    /\ running = r => state[r] = "delivered"

\* Whose descriptor is open.
Holds(r) ==
    /\ binding[r] # NoBinding
    /\ \/ r \in working /\ TakesDescriptor(binding[r].op)
       \/ /\ r \notin working
          /\ state[r] # "accepted"
          /\ binding[r].op \in {fs_open, fs_lstat}

IInv ==
    /\ TypeOK
    /\ IsFiniteSet(open)
    /\ \A r \in Request : Stage(r)
    /\ \A r \in open : Holds(r)

\* What becomes of the set of open descriptors when an operation of r ends.
LEMMA OpenAfterEnding ==
    ASSUME NEW r \in Request, NEW b \in bindings_funcs, NEW got \in BOOLEAN,
           NEW e \in b.op[got], NEW after \in OpenAfter(r, e, open)
    PROVE  /\ e \in Ending /\ (e.value \in Fresh => ~e.fails)
           /\ after \subseteq open \cup {r}
           /\ r \in after => \/ b.op \in {fs_open, fs_lstat} /\ got
                             \/ r \in open /\ ~TakesDescriptor(b.op)
  <1>1. Sound(b.op)
    BY Bindings DEF Calls
  <1>2. e \in Ending /\ (e.value \in Fresh => ~e.fails)
    BY <1>1 DEF Sound
  <1>3. e.descriptor \in Descriptor
    BY <1>2 DEF Ending
  <1>4. CASE e.descriptor = "left open"
    <2>1. b.op \in {fs_open, fs_lstat} /\ got
      BY <1>1, <1>4 DEF Sound
    <2>2. after = open \cup {r}
      BY <1>4 DEF OpenAfter
    <2> QED
      BY <1>2, <2>1, <2>2
  <1>5. CASE e.descriptor = "as before"
    BY <1>2, <1>5 DEF OpenAfter
  <1>6. CASE e.descriptor = "closed"
    BY <1>1, <1>2, <1>6 DEF Sound, OpenAfter
  <1> QED
    BY <1>3, <1>4, <1>5, <1>6 DEF Descriptor

\* A descriptor is given out only while there is one.
LEMMA OneMore ==
    ASSUME IsFiniteSet(open), Cardinality(open) <= MaxDescriptors,
           NEW r \in Request, NEW after \in SUBSET (open \cup {r}),
           r \in after => r \in open \/ Cardinality(open) < MaxDescriptors
    PROVE  IsFiniteSet(after) /\ Cardinality(after) <= MaxDescriptors
  <1>1. IsFiniteSet(open \cup {r}) /\ Cardinality(open) \in Nat
        /\ Cardinality(open \cup {r}) = IF r \in open THEN Cardinality(open)
                                                    ELSE Cardinality(open) + 1
    BY FS_AddElement, FS_CardinalityType
  <1>2. CASE r \in after
    <2>1. IsFiniteSet(after) /\ Cardinality(after) <= Cardinality(open \cup {r})
      BY <1>1, FS_Subset
    <2>2. Cardinality(open \cup {r}) <= MaxDescriptors
      BY <1>1, <1>2, DescriptorAssumption
    <2> QED
      BY <1>1, <2>1, <2>2, FS_CardinalityType, DescriptorAssumption
  <1>3. CASE r \notin after
    <2>1. after \subseteq open
      BY <1>3
    <2>2. IsFiniteSet(after) /\ Cardinality(after) <= Cardinality(open)
      BY <2>1, FS_Subset
    <2> QED
      BY <1>1, <2>2, FS_CardinalityType, DescriptorAssumption
  <1> QED
    BY <1>2, <1>3

\* It holds before any call.
LEMMA Initially == Init => IInv
  <1> SUFFICES ASSUME Init PROVE IInv
    OBVIOUS
  <1>1. IsFiniteSet(open) /\ Cardinality(open) <= MaxDescriptors
    BY FS_EmptySet, DescriptorAssumption DEF Init
  <1>2. TypeOK
    BY <1>1 DEF Init, TypeOK, Queue!Init, Queue!TypeOK, Queue!States
  <1>3. \A r \in Request : Stage(r)
    BY RequestAssumption DEF Init, Queue!Init, Stage
  <1> QED
    BY <1>1, <1>2, <1>3 DEF IInv, Init

\* The descriptor a worker or a synchronous call asks for is there.
LEMMA GetsBound ==
    ASSUME NEW op, TRUE \in Gets(op)
    PROVE  TakesDescriptor(op) /\ Cardinality(open) < MaxDescriptors
  BY DEF Gets

\* Every step of a wrapper, a worker or an event keeps it.
LEMMA Inductive == IInv /\ [Next]_vars => IInv'
  <1> SUFFICES ASSUME IInv, [Next]_vars PROVE IInv'
    OBVIOUS
  <1> USE DEF IInv
  <1>1. ASSUME NEW r \in Request, NEW b \in bindings_funcs, SyncCall(r, b) PROVE IInv'
    <2>1. PICK got \in Gets(b.op) : \E e \in b.op[got] :
            /\ ending' = [ending EXCEPT ![r] = e]
            /\ open' \in OpenAfter(r, e, open)
            /\ live' = [live EXCEPT ![r] = IF e.fails THEN Result(e) ELSE {}]
            /\ misread' = IF ReadsJunk(b, e) /\ ~e.fails THEN misread \cup {r} ELSE misread
            /\ misfreed' = IF FreesJunk(b, e) /\ ~e.fails THEN misfreed \cup {r} ELSE misfreed
      BY <1>1 DEF SyncCall
    <2>2. PICK e \in b.op[got] :
            /\ ending' = [ending EXCEPT ![r] = e]
            /\ open' \in OpenAfter(r, e, open)
            /\ live' = [live EXCEPT ![r] = IF e.fails THEN Result(e) ELSE {}]
            /\ misread' = IF ReadsJunk(b, e) /\ ~e.fails THEN misread \cup {r} ELSE misread
            /\ misfreed' = IF FreesJunk(b, e) /\ ~e.fails THEN misfreed \cup {r} ELSE misfreed
      BY <2>1
    <2>3. /\ binding[r] = NoBinding /\ ~b.async
          /\ binding' = [binding EXCEPT ![r] = b]
          /\ UNCHANGED <<state, working, running>>
      BY <1>1 DEF SyncCall
    <2>4. got \in BOOLEAN /\ (got => Cardinality(open) < MaxDescriptors)
      BY GetsBound DEF Gets
    <2>5. r \notin open
      BY <2>3 DEF Holds
    <2>6. /\ e \in Ending /\ (e.value \in Fresh => ~e.fails)
          /\ open' \subseteq open \cup {r}
          /\ r \in open' => b.op \in {fs_open, fs_lstat} /\ got
      BY <2>2, <2>4, <2>5, OpenAfterEnding
    <2>7. IsFiniteSet(open') /\ Cardinality(open') <= MaxDescriptors
      BY <2>4, <2>5, <2>6, OneMore DEF TypeOK
    <2>8. state[r] = "idle" /\ r \notin working /\ running # r
      BY <2>3 DEF Stage
    <2>9. live' = [live EXCEPT ![r] = {}]
      BY <2>2, <2>6 DEF Result
    <2>10. TypeOK'
      BY <2>2, <2>3, <2>6, <2>7, <2>9 DEF TypeOK, Queue!TypeOK, Memory
    <2>11. ASSUME NEW q \in Request PROVE Stage(q)'
      <3>1. CASE q = r
        BY <2>3, <2>8, <2>9, <3>1, BindingAssumption DEF Stage, TypeOK
      <3>2. CASE q # r
        BY <2>2, <2>3, <2>9, <3>2 DEF Stage, TypeOK, Ended
      <3> QED
        BY <3>1, <3>2
    <2>12. ASSUME NEW q \in open' PROVE Holds(q)'
      <3>1. CASE q = r
        BY <2>3, <2>6, <2>8, <2>12, <3>1, BindingAssumption DEF Holds, TypeOK
      <3>2. CASE q # r
        BY <2>3, <2>6, <2>12, <3>2 DEF Holds, TypeOK
      <3> QED
        BY <3>1, <3>2
    <2> QED
      BY <2>7, <2>10, <2>11, <2>12
  <1>2. ASSUME NEW r \in Request, NEW b \in bindings_funcs, AsyncCall(r, b) PROVE IInv'
    <2>1. /\ binding[r] = NoBinding
          /\ binding' = [binding EXCEPT ![r] = b]
          /\ live' = [live EXCEPT ![r] = Payload(b)]
          /\ UNCHANGED <<working, running, ending, open, misread, misfreed>>
      BY <1>2 DEF AsyncCall
    <2>2. PICK to \in {"accepted", "refused"} :
            state[r] = "idle" /\ state' = [state EXCEPT ![r] = to]
      BY <1>2 DEF AsyncCall, Queue!Accept, Queue!Refuse, Queue!Move
    <2>3. Payload(b) \in SUBSET Memory
      BY DEF Payload, Strings, Memory
    <2>4. TypeOK'
      BY <2>1, <2>2, <2>3 DEF TypeOK, Queue!TypeOK, Queue!States
    <2>5. ASSUME NEW q \in Request PROVE Stage(q)'
      <3>1. CASE q = r
        BY <2>1, <2>2, <3>1, BindingAssumption DEF Stage, TypeOK, Queue!TypeOK
      <3>2. CASE q # r
        BY <2>1, <2>2, <3>2 DEF Stage, TypeOK, Queue!TypeOK, Ended
      <3> QED
        BY <3>1, <3>2
    <2>6. ASSUME NEW q \in open' PROVE Holds(q)'
      <3>1. q # r
        BY <2>1, <2>6 DEF Holds
      <3> QED
        BY <2>1, <2>2, <2>6, <3>1 DEF Holds, TypeOK, Queue!TypeOK
    <2> QED
      BY <2>1, <2>4, <2>5, <2>6
  <1>3. ASSUME NEW r \in Request, WorkerStart(r) PROVE IInv'
    <2>1. /\ state[r] = "accepted" /\ r \notin working
          /\ working' = working \cup {r}
          /\ UNCHANGED <<state, binding, running, ending, live, misread, misfreed>>
      BY <1>3 DEF WorkerStart
    <2>2. PICK got \in Gets(binding[r].op) : open' = IF got THEN open \cup {r} ELSE open
      BY <1>3 DEF WorkerStart
    <2>3. got \in BOOLEAN
          /\ (got => TakesDescriptor(binding[r].op) /\ Cardinality(open) < MaxDescriptors)
      BY GetsBound DEF Gets
    <2>4. r \notin open
      BY <2>1 DEF Holds
    <2>5. open' \subseteq open \cup {r} /\ (r \in open' => got)
      BY <2>2, <2>3, <2>4
    <2>6. IsFiniteSet(open') /\ Cardinality(open') <= MaxDescriptors
      BY <2>3, <2>5, OneMore DEF TypeOK
    <2>7. TypeOK'
      BY <2>1, <2>5, <2>6 DEF TypeOK, Queue!TypeOK
    <2>8. ASSUME NEW q \in Request PROVE Stage(q)'
      BY <2>1 DEF Stage, Ended
    <2>9. ASSUME NEW q \in open' PROVE Holds(q)'
      <3>1. CASE q = r
        BY <2>1, <2>3, <2>5, <2>9, <3>1 DEF Holds, Stage
      <3>2. CASE q # r
        BY <2>1, <2>5, <2>9, <3>2 DEF Holds
      <3> QED
        BY <3>1, <3>2
    <2> QED
      BY <2>6, <2>7, <2>8, <2>9
  <1>4. ASSUME NEW r \in Request, WorkerReturn(r) PROVE IInv'
    <2>1. /\ r \in working /\ working' = working \ {r}
          /\ state[r] = "accepted" /\ state' = [state EXCEPT ![r] = "completed"]
          /\ UNCHANGED <<binding, running, misread, misfreed>>
      BY <1>4 DEF WorkerReturn, Queue!Complete, Queue!Move
    <2>2. PICK e \in binding[r].op[(r \in open)] :
            /\ ending' = [ending EXCEPT ![r] = e]
            /\ open' \in OpenAfter(r, e, open)
            /\ live' = [live EXCEPT ![r] = @ \cup Result(e)]
      BY <1>4 DEF WorkerReturn
    <2>3. binding[r] \in bindings_funcs
      BY <2>1 DEF TypeOK, Stage
    <2>4. r \in open => TakesDescriptor(binding[r].op)
      BY <2>1 DEF Holds
    <2>5. /\ e \in Ending /\ (e.value \in Fresh => ~e.fails)
          /\ open' \subseteq open \cup {r}
          /\ r \in open' => binding[r].op \in {fs_open, fs_lstat} /\ r \in open
      <3>1. (r \in open) = TRUE \/ (r \in open) = FALSE
        OBVIOUS
      <3>2. PICK got \in BOOLEAN : e \in binding[r].op[got] /\ (got <=> r \in open)
        BY <2>2, <3>1
      <3>3. /\ e \in Ending /\ (e.value \in Fresh => ~e.fails)
            /\ open' \subseteq open \cup {r}
            /\ r \in open' => \/ binding[r].op \in {fs_open, fs_lstat} /\ got
                              \/ r \in open /\ ~TakesDescriptor(binding[r].op)
        BY <2>2, <2>3, <3>2, OpenAfterEnding
      <3> QED
        BY <2>4, <3>2, <3>3
    <2>6. IsFiniteSet(open') /\ Cardinality(open') <= MaxDescriptors
      BY <2>5, OneMore DEF TypeOK
    <2>7. live[r] = Payload(binding[r]) /\ Result(e) \in SUBSET Memory
      BY <2>1 DEF Stage, Result, Memory
    <2>8. TypeOK'
      BY <2>1, <2>2, <2>5, <2>6, <2>7 DEF TypeOK, Queue!TypeOK, Queue!States
    <2>9. ASSUME NEW q \in Request PROVE Stage(q)'
      <3>1. CASE q = r
        BY <2>1, <2>2, <2>3, <2>5, <2>7, <3>1, BindingAssumption
           DEF Stage, TypeOK, Queue!TypeOK, Ended
      <3>2. CASE q # r
        BY <2>1, <2>2, <3>2 DEF Stage, TypeOK, Queue!TypeOK, Ended
      <3> QED
        BY <3>1, <3>2
    <2>10. ASSUME NEW q \in open' PROVE Holds(q)'
      <3>1. CASE q = r
        BY <2>1, <2>3, <2>5, <2>10, <3>1, BindingAssumption
           DEF Holds, TypeOK, Queue!TypeOK
      <3>2. CASE q # r
        BY <2>1, <2>5, <2>10, <3>2 DEF Holds, TypeOK, Queue!TypeOK
      <3> QED
        BY <3>1, <3>2
    <2> QED
      BY <2>6, <2>8, <2>9, <2>10
  <1>5. ASSUME NEW r \in Request, EventCall(r) PROVE IInv'
    <2>1. /\ running = NoRequest /\ running' = r
          /\ state[r] = "completed" /\ state' = [state EXCEPT ![r] = "delivered"]
          /\ live' = [live EXCEPT ![r] = @ \cup Value(binding[r], ending[r])
                                           \cup Error(ending[r])]
          /\ UNCHANGED <<binding, working, ending, open, misfreed>>
          /\ misread' \in {misread \cup {r}, misread}
      BY <1>5 DEF EventCall, Error, Queue!Deliver, Queue!Move
    <2>2. Value(binding[r], ending[r]) \cup Error(ending[r]) \in SUBSET Memory
      BY DEF Value, Error, Memory
    <2>3. TypeOK'
      BY <2>1, <2>2 DEF TypeOK, Queue!TypeOK, Queue!States
    <2>4. ASSUME NEW q \in Request PROVE Stage(q)'
      <3>1. CASE q = r
        BY <2>1, <3>1 DEF Stage, TypeOK, Queue!TypeOK, Ended
      <3>2. CASE q # r
        BY <2>1, <3>2, RequestAssumption DEF Stage, TypeOK, Queue!TypeOK, Ended
      <3> QED
        BY <3>1, <3>2
    <2>5. ASSUME NEW q \in open' PROVE Holds(q)'
      BY <2>1, <2>5 DEF Holds, TypeOK, Queue!TypeOK
    <2> QED
      BY <2>1, <2>3, <2>4, <2>5
  <1>6. ASSUME NEW r \in Request, EventReturn(r) PROVE IInv'
    <2>1. /\ running = r /\ running' = NoRequest
          /\ live' = [live EXCEPT ![r] = @ \ Freed(ending[r])]
          /\ UNCHANGED <<state, binding, working, ending, open, misread>>
          /\ misfreed' \in {misfreed \cup {r}, misfreed}
      BY <1>6 DEF EventReturn
    <2>2. TypeOK'
      BY <2>1 DEF TypeOK, Queue!TypeOK
    <2>3. ASSUME NEW q \in Request PROVE Stage(q)'
      <3>1. CASE q = r
        <4>1. /\ state[r] = "delivered" /\ Ended(r) /\ r \notin working
              /\ live[r] = Payload(binding[r]) \cup Result(ending[r])
                             \cup Value(binding[r], ending[r]) \cup Error(ending[r])
          BY <2>1 DEF Stage
        <4>2. Payload(binding[r]) \cup Result(ending[r]) \subseteq Freed(ending[r])
          BY <4>1 DEF Ended, Payload, Strings, Result, Freed, FreesResult, FreesArguments
        <4>3. (Value(binding[r], ending[r]) \cup Error(ending[r])) \cap Freed(ending[r]) = {}
          BY DEF Value, Error, Freed
        <4>4. live'[r] = Value(binding[r], ending[r]) \cup Error(ending[r])
          BY <2>1, <4>1, <4>2, <4>3 DEF TypeOK
        <4> QED
          BY <2>1, <3>1, <4>1, <4>4, RequestAssumption DEF Stage, Ended
      <3>2. CASE q # r
        BY <2>1, <3>2, RequestAssumption DEF Stage, TypeOK, Queue!TypeOK, Ended
      <3> QED
        BY <3>1, <3>2
    <2>4. ASSUME NEW q \in open' PROVE Holds(q)'
      BY <2>1, <2>4 DEF Holds
    <2> QED
      BY <2>1, <2>2, <2>3, <2>4
  <1>7. ASSUME UNCHANGED vars PROVE IInv'
    BY <1>7 DEF vars, TypeOK, Queue!TypeOK, Stage, Ended, Holds
  <1> QED
    BY <1>1, <1>2, <1>3, <1>4, <1>5, <1>6, <1>7 DEF Next

-----------------------------------------------------------------------------
(* What the invariant says of the properties that the runs check. *)

\* So it holds always.
LEMMA Invariance == Spec => []IInv
  BY Initially, Inductive, PTL DEF Spec

\* Every variable stays in its domain, and no more descriptors are open than
\* the C runtime has.
THEOREM TypeCorrect == Spec => []TypeOK
  <1>1. IInv => TypeOK
    BY DEF IInv
  <1> QED
    BY <1>1, Invariance, PTL

\* What worker and event of a request use is not freed before they are done.
THEOREM ArgumentsAreThere == Spec => []PayloadOutlivesRequest
  <1>1. IInv => PayloadOutlivesRequest
    BY DEF IInv, Stage, PayloadOutlivesRequest, Payload
  <1> QED
    BY <1>1, Invariance, PTL

\* The exact remains of every call that is over.
THEOREM RemainsAreKnown == Spec => []MemoryAccounted
  <1>1. ASSUME IInv PROVE MemoryAccounted
    <2> SUFFICES ASSUME NEW r \in Request
                 PROVE  /\ binding[r] # NoBinding /\ state[r] = "idle" => live[r] = {}
                        /\ Over(r) => live[r] = IF ending[r].fails
                                                 THEN {"error"}
                                                 ELSE Value(binding[r], ending[r])
                        /\ Refused(r) => live[r] = Strings(binding[r])
                                                    \cup {"payload", "callback"}
      BY DEF MemoryAccounted
    <2>1. Stage(r)
      BY <1>1 DEF IInv
    <2>2. Over(r) => live[r] = Value(binding[r], ending[r]) \cup Error(ending[r]) /\ Ended(r)
      BY <2>1 DEF Stage, Over
    <2>3. Ended(r) /\ ending[r].fails => Value(binding[r], ending[r]) = {}
      BY DEF Ended, Value
    <2> QED
      BY <2>1, <2>2, <2>3 DEF Stage, Refused, Payload, Error
  <1> QED
    BY <1>1, Invariance, PTL

\* Only open and lstat leave a descriptor open when they are done.
THEOREM DescriptorsReturn == Spec => []DescriptorsComeBack
  <1>1. IInv => DescriptorsComeBack
    BY DEF IInv, Holds, DescriptorsComeBack
  <1> QED
    BY <1>1, Invariance, PTL

-----------------------------------------------------------------------------
(* What was taken for a result. *)

\* A result without an error is one, or the operation is an exception.
Explained(b, e) ==
    ~e.fails => /\ e.value \in Junk => b.op \in FailsUnnoticed
                /\ e.value \in NoResult => b.op \in Unsettled

\* JunkOnlyWhereKnown, with what the worker has left for the event, and with
\* what says that binding and ending of a request concerned are final.
JunkInv ==
    /\ \A r \in Request :
          /\ state[r] # "idle" => binding[r].async
          /\ state[r] \in {"completed", "delivered"} => Explained(binding[r], ending[r])
    /\ \A r \in misread \cup misfreed :
          binding[r] # NoBinding /\ state[r] \in {"idle", "delivered"}
    /\ JunkOnlyWhereKnown

\* An ending of the operation of a binding is explained.
LEMMA EndingExplained ==
    ASSUME NEW b \in bindings_funcs, NEW got \in BOOLEAN, NEW e \in b.op[got]
    PROVE  Explained(b, e)
  <1>1. Honest(b.op)
    BY Bindings DEF Calls
  <1> QED
    BY <1>1 DEF Honest, Explained

\* What has been misread or misfreed stays explained.
LEMMA JunkInductive == IInv /\ JunkInv /\ [Next]_vars => JunkInv'
  <1> SUFFICES ASSUME IInv, JunkInv, [Next]_vars PROVE JunkInv'
    OBVIOUS
  <1> USE DEF IInv
  <1>1. /\ state \in [Request -> Queue!States] /\ ending \in [Request -> Ending \cup {NoEnding}]
        /\ binding \in [Request -> bindings_funcs \cup {NoBinding}]
        /\ misread \subseteq Request /\ misfreed \subseteq Request
    BY DEF TypeOK, Queue!TypeOK
  <1>2. ASSUME NEW r \in Request, NEW b \in bindings_funcs, SyncCall(r, b) PROVE JunkInv'
    <2>1. PICK got \in Gets(b.op) : \E e \in b.op[got] :
            /\ ending' = [ending EXCEPT ![r] = e]
            /\ misread' = IF ReadsJunk(b, e) /\ ~e.fails THEN misread \cup {r} ELSE misread
            /\ misfreed' = IF FreesJunk(b, e) /\ ~e.fails THEN misfreed \cup {r} ELSE misfreed
      BY <1>2 DEF SyncCall
    <2>2. PICK e \in b.op[got] :
            /\ ending' = [ending EXCEPT ![r] = e]
            /\ misread' = IF ReadsJunk(b, e) /\ ~e.fails THEN misread \cup {r} ELSE misread
            /\ misfreed' = IF FreesJunk(b, e) /\ ~e.fails THEN misfreed \cup {r} ELSE misfreed
      BY <2>1
    <2>3. /\ binding[r] = NoBinding /\ binding' = [binding EXCEPT ![r] = b]
          /\ state' = state /\ state[r] = "idle" /\ b # NoBinding
      BY <1>2, BindingAssumption DEF SyncCall, Stage
    <2>4. ~e.fails => /\ ReadsJunk(b, e) => b.op \in Unsettled
                      /\ FreesJunk(b, e) => b.op \in FailsUnnoticed
      <3>1. got \in BOOLEAN
        BY DEF Gets
      <3> QED
        BY <3>1, EndingExplained DEF Explained, ReadsJunk, FreesJunk, NoResult
    <2>5. r \notin misread \cup misfreed
      BY <2>3 DEF JunkInv
    <2> QED
      BY <1>1, <2>2, <2>3, <2>4, <2>5 DEF JunkInv, JunkOnlyWhereKnown
  <1>3. ASSUME NEW r \in Request, NEW b \in bindings_funcs, AsyncCall(r, b) PROVE JunkInv'
    <2>1. /\ binding[r] = NoBinding /\ binding' = [binding EXCEPT ![r] = b] /\ b.async
          /\ \E to \in {"accepted", "refused"} : state' = [state EXCEPT ![r] = to]
          /\ UNCHANGED <<ending, misread, misfreed>>
      BY <1>3 DEF AsyncCall, Queue!Accept, Queue!Refuse, Queue!Move
    <2>2. r \notin misread \cup misfreed
      BY <2>1 DEF JunkInv
    <2> QED
      BY <1>1, <2>1, <2>2 DEF JunkInv, JunkOnlyWhereKnown
  <1>4. ASSUME NEW r \in Request, WorkerStart(r) PROVE JunkInv'
    BY <1>4 DEF WorkerStart, JunkInv, JunkOnlyWhereKnown
  <1>5. ASSUME NEW r \in Request, WorkerReturn(r) PROVE JunkInv'
    <2>1. /\ state[r] = "accepted" /\ state' = [state EXCEPT ![r] = "completed"]
          /\ UNCHANGED <<binding, misread, misfreed>>
      BY <1>5 DEF WorkerReturn, Queue!Complete, Queue!Move
    <2>2. PICK e \in binding[r].op[(r \in open)] : ending' = [ending EXCEPT ![r] = e]
      BY <1>5 DEF WorkerReturn
    <2>3. binding[r] \in bindings_funcs
      BY <1>1, <2>1 DEF Stage
    <2>4. Explained(binding[r], e)
      <3>1. (r \in open) = TRUE \/ (r \in open) = FALSE
        OBVIOUS
      <3>2. \E got \in BOOLEAN : e \in binding[r].op[got]
        BY <2>2, <3>1
      <3> QED
        BY <2>3, <3>2, EndingExplained
    <2>5. r \notin misread \cup misfreed
      BY <2>1 DEF JunkInv
    <2> QED
      BY <1>1, <2>1, <2>2, <2>4, <2>5 DEF JunkInv, JunkOnlyWhereKnown
  <1>6. ASSUME NEW r \in Request, EventCall(r) PROVE JunkInv'
    <2>1. /\ state[r] = "completed" /\ state' = [state EXCEPT ![r] = "delivered"]
          /\ misread' = IF ReadsJunk(binding[r], ending[r]) THEN misread \cup {r} ELSE misread
          /\ UNCHANGED <<binding, ending, misfreed>>
      BY <1>6 DEF EventCall, Queue!Deliver, Queue!Move
    <2>2. /\ binding[r] # NoBinding /\ binding[r].async /\ Explained(binding[r], ending[r])
      BY <2>1 DEF JunkInv, Stage
    <2>3. ReadsJunk(binding[r], ending[r]) =>
             ending[r].fails \/ binding[r].op \in Unsettled
      BY <2>2 DEF Explained, ReadsJunk, NoResult
    <2> QED
      BY <1>1, <2>1, <2>2, <2>3 DEF JunkInv, JunkOnlyWhereKnown
  <1>7. ASSUME NEW r \in Request, EventReturn(r) PROVE JunkInv'
    <2>1. /\ running = r
          /\ misfreed' = IF FreesJunk(binding[r], ending[r]) /\ ~ending[r].fails
                         THEN misfreed \cup {r} ELSE misfreed
          /\ UNCHANGED <<state, binding, ending, misread>>
      BY <1>7 DEF EventReturn, FreesResult
    <2>2. state[r] = "delivered" /\ binding[r] # NoBinding
      BY <2>1 DEF Stage
    <2>3. FreesJunk(binding[r], ending[r]) /\ ~ending[r].fails =>
             binding[r].op \in FailsUnnoticed
      BY <2>2 DEF JunkInv, Explained, FreesJunk
    <2> QED
      BY <1>1, <2>1, <2>2, <2>3 DEF JunkInv, JunkOnlyWhereKnown
  <1>8. ASSUME UNCHANGED vars PROVE JunkInv'
    BY <1>8 DEF vars, JunkInv, JunkOnlyWhereKnown
  <1> QED
    BY <1>2, <1>3, <1>4, <1>5, <1>6, <1>7, <1>8 DEF Next

\* What no operation has set or has freed again is freed only after an fstat,
\* stat, lstat or readdir that has failed without saying so, and read only
\* after these, after a readlink, or by the event of an asynchronous wrapper
\* whose operation has failed.
THEOREM JunkWhereKnown == Spec => []JunkOnlyWhereKnown
  <1>1. Init => JunkInv
    BY DEF Init, Queue!Init, JunkInv, JunkOnlyWhereKnown
  <1>2. JunkInv => JunkOnlyWhereKnown
    BY DEF JunkInv
  <1> QED
    BY <1>1, <1>2, Invariance, JunkInductive, PTL DEF Spec
-----------------------------------------------------------------------------
(* The queue's promise.                                                    *)

\* A wrapper, the worker of its operation and the event of its result move a
\* request as the queue does, each at the step that the queue takes, and never
\* in another order: with all that the generated code does around it, the
\* binding is still an AsyncRequest.  A synchronous call is none of its steps.
THEOREM RequestsKeepThePromise == Spec => Queue!Spec
  <1>1. Init => Queue!Init
    BY DEF Init
  <1>2. ASSUME [Next]_vars PROVE [Queue!Next]_state
    <2>1. ASSUME NEW r \in Request, NEW b \in bindings_funcs, SyncCall(r, b)
          PROVE  UNCHANGED state
      BY <2>1 DEF SyncCall
    <2>2. ASSUME NEW r \in Request, NEW b \in bindings_funcs, AsyncCall(r, b)
          PROVE  Queue!Accept(r) \/ Queue!Refuse(r)
      BY <2>2 DEF AsyncCall
    <2>3. ASSUME NEW r \in Request, WorkerReturn(r) PROVE Queue!Complete(r)
      BY <2>3 DEF WorkerReturn
    <2>4. ASSUME NEW r \in Request, EventCall(r) PROVE Queue!Deliver(r)
      BY <2>4 DEF EventCall
    <2>5. ASSUME NEW r \in Request, WorkerStart(r) \/ EventReturn(r) PROVE UNCHANGED state
      BY <2>5 DEF WorkerStart, EventReturn
    <2>6. CASE UNCHANGED vars
      BY <2>6 DEF vars
    <2> QED
      BY <1>2, <2>1, <2>2, <2>3, <2>4, <2>5, <2>6 DEF Next, Queue!Next
  <1> QED
    BY <1>1, <1>2, PTL DEF Spec, Queue!Spec
=============================================================================
