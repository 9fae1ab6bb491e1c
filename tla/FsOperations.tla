---------------------------- MODULE FsOperations ----------------------------
(***************************************************************************)
(* The file operations of fs.inc, as far as their callers can tell the     *)
(* ways apart in which they end: whether errno is set, what the result is  *)
(* good for, and what becomes of a descriptor of the C runtime.            *)
(*                                                                         *)
(* An operation maps "it has got the descriptor it asks the C runtime for" *)
(* to the set of its possible endings.  One that asks for none maps both   *)
(* truth values to the same set.                                           *)
(***************************************************************************)

\* What a result can be.  "number" stands for all that is returned by value;
\* "owned" and "null" are a pointer to fresh memory and no pointer; "unset" is
\* fresh memory too, made from a buffer that nobody has set; "junk" are the
\* fields of a struct nobody has set, "dangling" those of one whose memory has
\* been freed again.
Values == {"none", "number", "owned", "unset", "null", "junk", "dangling"}

\* The results that point to memory of their own, and those whose pointer is
\* not one.
Fresh == {"owned", "unset"}
Junk  == {"junk", "dangling"}

\* What an operation does about descriptors: nothing that lasts, leave open
\* the one it got, or close one that the script has.
Descriptor == {"as before", "left open", "closed"}

Ending == [fails : BOOLEAN, value : Values, descriptor : Descriptor]

Does(value)  == [fails |-> FALSE, value |-> value, descriptor |-> "as before"]
Fails(value) == [fails |-> TRUE,  value |-> value, descriptor |-> "as before"]
Closes       == [fails |-> FALSE, value |-> "none", descriptor |-> "closed"]

LeavesOpen(endings) == {[e EXCEPT !.descriptor = "left open"] : e \in endings}

Always(endings) == [got \in BOOLEAN |-> endings]

OnDescriptor(with, without) == [got \in BOOLEAN |-> IF got THEN with ELSE without]

TakesDescriptor(op) == op[TRUE] # op[FALSE]

-----------------------------------------------------------------------------
\* One call of the C runtime or of Windows on a path or a descriptor, nothing
\* to return.

fs_access    == Always({Does("none"), Fails("none")})
fs_rename    == Always({Does("none"), Fails("none")})
fs_ftruncate == Always({Does("none"), Fails("none")})
fs_rmdir     == Always({Does("none"), Fails("none")})
fs_fsync     == Always({Does("none"), Fails("none")})
fs_fdatasync == fs_fsync
fs_mkdir     == Always({Does("none"), Fails("none")})
fs_link      == Always({Does("none"), Fails("none")})
fs_unlink    == Always({Does("none"), Fails("none")})
fs_chmod     == Always({Does("none"), Fails("none")})
fs_futimes   == Always({Does("none"), Fails("none")})

\* Nothing to do on Windows.
fs_chown  == Always({Does("none")})
fs_lchown == Always({Does("none")})
fs_fchown == Always({Does("none")})

\* A missing file is an answer, only a path that cannot be converted an error.
fs_exists == Always({Does("number"), Fails("number")})

fs_read         == Always({Does("number"), Fails("number")})
fs_write_buffer == Always({Does("number"), Fails("number")})

-----------------------------------------------------------------------------
\* Descriptors.

fs_open  == OnDescriptor(LeavesOpen({Does("number")}), {Fails("number")})
fs_close == Always({Closes, Fails("none")})

\* Open the file, set its times, close it.
fs_utimes == OnDescriptor(fs_futimes[TRUE], {Fails("none")})

\* The same through a handle, which the descriptor owns as soon as there is
\* one.  errno is made from the last error of Windows, which is still 0 when
\* only the descriptor was refused.
fs_lutimes == OnDescriptor(fs_futimes[TRUE], {Fails("none"), Does("none")})

-----------------------------------------------------------------------------
\* Structs and strings.

\* The struct is filled in at the very end.  When the descriptor is closed by
\* another thread after the first look at it, errno is made from the last error
\* of Windows, which may still be 0.  A final path that is too long is not
\* noticed, which can do no more than make the call fail, or return another
\* block size.  Without memory for the fields the process ends: no ending.
fs_fstat == Always({Does("owned"), Fails("junk"), Does("junk")})

\* A mutation: the descriptor is left open.
fs_stat_leaky == OnDescriptor(LeavesOpen(fs_fstat[TRUE]), {Fails("junk")})

\* Opens, asks, closes.
fs_stat == OnDescriptor(fs_fstat[TRUE], {Fails("junk")})

\* Closes the handle and not the descriptor around it.  Without a descriptor
\* as in fs_lutimes, except that there is a struct to return.
fs_lstat == OnDescriptor(LeavesOpen(fs_fstat[TRUE]), {Fails("junk"), Does("junk")})

\* The struct is set up before its memory is, which may be missing.
fs_statfs == Always({Does("owned"), Fails("junk"), Fails("null")})

\* A final path that is too long is not noticed: what is converted then is a
\* buffer nobody has set.  What is not valid Unicode is no path and no error.
fs_readlink == Always({Does("owned"), Does("unset"), Does("null"), Fails("null")})

\* Without memory for the array there is no pointer in the struct, without
\* memory for an entry (or after an error of readdir) what it points to has
\* been freed.  A path too long for _wopendir makes it return NULL with errno
\* as it was.
fs_readdir == Always({Does("owned"), Fails("junk"), Fails("null"),
                      Fails("dangling"), Does("junk")})
=============================================================================
