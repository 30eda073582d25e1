---------------------------- MODULE ReloaderBase -----------------------------
(***************************************************************************)
(* What the two reloaders (fileutil/reloader and rest/tlsconfig) have in   *)
(* common: clients that call Reload, callers of Close, and k.lock, a       *)
(* sync.RWMutex.  A writer that has announced itself keeps new readers out *)
(* and enters when the readers inside have left.                           *)
(***************************************************************************)

CONSTANTS
    Clients,    \* goroutines that call Reload
    Closers,    \* goroutines that call Close
    None,       \* nobody holds or awaits the write lock
    MaxReloads  \* bound: clients call Reload only up to this count

VARIABLES
    closer,   \* where each caller of Close is
    closed,   \* k.closed
    writer,   \* who has announced or holds the write lock
    readers   \* who holds the read lock

lockVars == <<writer, readers>>
=============================================================================
