----------------------------- MODULE FsBindings -----------------------------
(***************************************************************************)
(* The functions fs.c exports to JavaScript, one per function, as fs.json  *)
(* has them generated: whether the function is asynchronous, the types of  *)
(* its arguments and of its result, and the operation it calls.  What the  *)
(* generated code does with them is the same for all: module FsRequest.    *)
(***************************************************************************)
EXTENDS FsOperations, Sequences, Functions

Sync(params, return, op) ==
    [async |-> FALSE, params |-> params, return |-> return, op |-> op]

Async(params, return, op) ==
    [async |-> TRUE, params |-> params, return |-> return, op |-> op]

fs_access_wrapper          == Async(<<"string", "int32">>, "void", fs_access)
fs_accessSync_wrapper      == Sync(<<"string", "int32">>, "void", fs_access)
fs_existsSync_wrapper      == Sync(<<"string">>, "boolean", fs_exists)
fs_open_wrapper            == Async(<<"string", "int32", "int32">>, "int32", fs_open)
fs_openSync_wrapper        == Sync(<<"string", "int32", "int32">>, "int32", fs_open)
fs_close_wrapper           == Async(<<"int32">>, "void", fs_close)
fs_closeSync_wrapper       == Sync(<<"int32">>, "void", fs_close)
fs_read_wrapper            == Async(<<"int32", "arraybuffer", "int64", "int64", "int64">>, "int64", fs_read)
fs_readSync_wrapper        == Sync(<<"int32", "arraybuffer", "int64", "int64", "int64">>, "int64", fs_read)
fs_writeBuffer_wrapper     == Async(<<"int32", "arraybuffer", "int64", "int64", "int64">>, "int64", fs_write_buffer)
fs_writeBufferSync_wrapper == Sync(<<"int32", "arraybuffer", "int64", "int64", "int64">>, "int64", fs_write_buffer)
fs_rename_wrapper          == Async(<<"string", "string">>, "void", fs_rename)
fs_renameSync_wrapper      == Sync(<<"string", "string">>, "void", fs_rename)
fs_ftruncate_wrapper       == Async(<<"int32", "int64">>, "void", fs_ftruncate)
fs_ftruncateSync_wrapper   == Sync(<<"int32", "int64">>, "void", fs_ftruncate)
fs_rmdir_wrapper           == Async(<<"string">>, "void", fs_rmdir)
fs_rmdirSync_wrapper       == Sync(<<"string">>, "void", fs_rmdir)
fs_fsync_wrapper           == Async(<<"int32">>, "void", fs_fsync)
fs_fsyncSync_wrapper       == Sync(<<"int32">>, "void", fs_fsync)
fs_fdatasync_wrapper       == Async(<<"int32">>, "void", fs_fdatasync)
fs_fdatasyncSync_wrapper   == Sync(<<"int32">>, "void", fs_fdatasync)
fs_mkdir_wrapper           == Async(<<"string", "int32">>, "void", fs_mkdir)
fs_mkdirSync_wrapper       == Sync(<<"string", "int32">>, "void", fs_mkdir)
fs_readdir_wrapper         == Async(<<"string">>, "stringarray", fs_readdir)
fs_readdirSync_wrapper     == Sync(<<"string">>, "stringarray", fs_readdir)
fs_fstat_wrapper           == Async(<<"int32">>, "int64array", fs_fstat)
fs_fstatSync_wrapper       == Sync(<<"int32">>, "int64array", fs_fstat)
fs_lstat_wrapper           == Async(<<"string">>, "int64array", fs_lstat)
fs_lstatSync_wrapper       == Sync(<<"string">>, "int64array", fs_lstat)
fs_stat_wrapper            == Async(<<"string">>, "int64array", fs_stat)
fs_statSync_wrapper        == Sync(<<"string">>, "int64array", fs_stat)
fs_statfs_wrapper          == Async(<<"string">>, "int64array", fs_statfs)
fs_statfsSync_wrapper      == Sync(<<"string">>, "int64array", fs_statfs)
fs_readlink_wrapper        == Async(<<"string">>, "string", fs_readlink)
fs_readlinkSync_wrapper    == Sync(<<"string">>, "string", fs_readlink)
fs_link_wrapper            == Async(<<"string", "string">>, "void", fs_link)
fs_linkSync_wrapper        == Sync(<<"string", "string">>, "void", fs_link)
fs_unlink_wrapper          == Async(<<"string">>, "void", fs_unlink)
fs_unlinkSync_wrapper      == Sync(<<"string">>, "void", fs_unlink)
fs_chmod_wrapper           == Async(<<"string", "int32">>, "void", fs_chmod)
fs_chmodSync_wrapper       == Sync(<<"string", "int32">>, "void", fs_chmod)
fs_lchown_wrapper          == Async(<<"string", "int32", "int32">>, "void", fs_lchown)
fs_lchownSync_wrapper      == Sync(<<"string", "int32", "int32">>, "void", fs_lchown)
fs_fchown_wrapper          == Async(<<"int32", "int32", "int32">>, "void", fs_fchown)
fs_fchownSync_wrapper      == Sync(<<"int32", "int32", "int32">>, "void", fs_fchown)
fs_chown_wrapper           == Async(<<"string", "int32", "int32">>, "void", fs_chown)
fs_futimes_wrapper         == Async(<<"int32", "int64", "int64">>, "void", fs_futimes)
fs_futimesSync_wrapper     == Sync(<<"int32", "int64", "int64">>, "void", fs_futimes)
fs_utimes_wrapper          == Async(<<"string", "int64", "int64">>, "void", fs_utimes)
fs_utimesSync_wrapper      == Sync(<<"string", "int64", "int64">>, "void", fs_utimes)
fs_lutimes_wrapper         == Async(<<"string", "int64", "int64">>, "void", fs_lutimes)
fs_lutimesSync_wrapper     == Sync(<<"string", "int64", "int64">>, "void", fs_lutimes)

-----------------------------------------------------------------------------
bindings_funcs == {
    fs_access_wrapper, fs_accessSync_wrapper, fs_existsSync_wrapper,
    fs_open_wrapper, fs_openSync_wrapper, fs_close_wrapper,
    fs_closeSync_wrapper, fs_read_wrapper, fs_readSync_wrapper,
    fs_writeBuffer_wrapper, fs_writeBufferSync_wrapper, fs_rename_wrapper,
    fs_renameSync_wrapper, fs_ftruncate_wrapper, fs_ftruncateSync_wrapper,
    fs_rmdir_wrapper, fs_rmdirSync_wrapper, fs_fsync_wrapper,
    fs_fsyncSync_wrapper, fs_fdatasync_wrapper, fs_fdatasyncSync_wrapper,
    fs_mkdir_wrapper, fs_mkdirSync_wrapper, fs_readdir_wrapper,
    fs_readdirSync_wrapper, fs_fstat_wrapper, fs_fstatSync_wrapper,
    fs_lstat_wrapper, fs_lstatSync_wrapper, fs_stat_wrapper,
    fs_statSync_wrapper, fs_statfs_wrapper, fs_statfsSync_wrapper,
    fs_readlink_wrapper, fs_readlinkSync_wrapper, fs_link_wrapper,
    fs_linkSync_wrapper, fs_unlink_wrapper, fs_unlinkSync_wrapper,
    fs_chmod_wrapper, fs_chmodSync_wrapper, fs_lchown_wrapper,
    fs_lchownSync_wrapper, fs_fchown_wrapper, fs_fchownSync_wrapper,
    fs_chown_wrapper, fs_futimes_wrapper, fs_futimesSync_wrapper,
    fs_utimes_wrapper, fs_utimesSync_wrapper, fs_lutimes_wrapper,
    fs_lutimesSync_wrapper}

\* An argument whose conversion allocates, and a result that is converted to
\* a JavaScript object or string.
HasString(b)     == "string" \in Range(b.params)
ReturnsMemory(b) == b.return \in {"string", "int64array", "stringarray"}
=============================================================================
