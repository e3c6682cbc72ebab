----------------------------- MODULE MediaStore -----------------------------
(***************************************************************************)
(* The media store (pkg/media/store.go): references to files on disk, and  *)
(* a cleaner that removes what is older than MaxAge.  Store looks at the   *)
(* disk before it takes the lock, and the cleaner deletes files after it   *)
(* gave the lock back; a reader resolves a reference and opens the file    *)
(* later.  A downloaded attachment is stored once; a file of the workspace *)
(* that the AI mentions is stored each time it is mentioned.               *)
(***************************************************************************)
CONSTANTS
  Refs,    \* the references Store can draw; each is drawn at most once
  Paths    \* local paths

VARIABLES
  files,    \* the paths that exist on disk
  fresh,    \* the files that were written and not stored since
  entry,    \* refs: the path each reference was drawn for
  storing,  \* references whose Store call is between os.Stat and the lock
  live,     \* references in the store's maps
  expired,  \* references older than MaxAge
  doomed,   \* paths the cleaner collected and has yet to delete
  cleaner,  \* the cleaner's goroutine: "off", "on" or "stopped"
  reading,  \* references a reader resolved and whose file it has yet to open
  missed,   \* references whose file was gone when a reader opened it
  shared,   \* paths that were stored while another reference to them was in use
  kept      \* paths whose removal failed

mediaVars == <<files, fresh, entry, storing, live, expired, doomed, cleaner,
               reading, missed, shared, kept>>

Drawn == DOMAIN entry
PathsOf(refs) == {entry[r] : r \in refs}

MediaTypeOK ==
  /\ fresh \subseteq files /\ files \subseteq Paths
  /\ Drawn \subseteq Refs /\ entry \in [Drawn -> Paths]
  /\ storing \cup live \cup expired \cup reading \cup missed \subseteq Drawn
  /\ storing \cap live = {}
  /\ doomed \cup shared \cup kept \subseteq Paths
  /\ cleaner \in {"off", "on", "stopped"}

MediaInit ==
  /\ files = {} /\ fresh = {} /\ entry = [r \in {} |-> r]
  /\ storing = {} /\ live = {} /\ expired = {}
  /\ doomed = {} /\ cleaner = "off"
  /\ reading = {} /\ missed = {} /\ shared = {} /\ kept = {}

\* An adapter downloads a file, or the AI writes one.
WriteFile(p) ==
  /\ p \notin files
  /\ files' = files \cup {p} /\ fresh' = fresh \cup {p}
  /\ UNCHANGED <<entry, storing, live, expired, doomed, cleaner, reading, missed, shared, kept>>

\* Store, before the lock: the file must exist; the reference is drawn.
StoreStat(p, r) ==
  /\ p \in files /\ r \notin Drawn
  /\ entry' = [x \in Drawn \cup {r} |-> IF x = r THEN p ELSE entry[x]]
  /\ storing' = storing \cup {r}
  /\ shared' = IF p \in PathsOf(live \cup storing) \cup doomed THEN shared \cup {p} ELSE shared
  /\ UNCHANGED <<files, fresh, live, expired, doomed, cleaner, reading, missed, kept>>

\* Store, under the lock: the entry is made whatever became of the file.
StoreInsert(r) ==
  /\ r \in storing
  /\ storing' = storing \ {r} /\ live' = live \cup {r}
  /\ fresh' = fresh \ {entry[r]}
  /\ UNCHANGED <<files, entry, expired, doomed, cleaner, reading, missed, shared, kept>>

\* The entry grows older than MaxAge.
Expire(r) ==
  /\ r \in live \ expired
  /\ expired' = expired \cup {r}
  /\ UNCHANGED <<files, fresh, entry, storing, live, doomed, cleaner, reading, missed, shared, kept>>

-----------------------------------------------------------------------------
(* The cleaner *)

\* startOnce and the configuration let at most one cleaner start.
StartCleaner ==
  /\ cleaner = "off" /\ cleaner' = "on"
  /\ UNCHANGED <<files, fresh, entry, storing, live, expired, doomed, reading, missed, shared, kept>>

\* Faulty variant: the entries stay until their files are gone.
CleanCollectOnly ==
  /\ cleaner = "on" /\ doomed = {} /\ live \cap expired # {}
  /\ doomed' = PathsOf(live \cap expired)
  /\ UNCHANGED <<files, fresh, entry, storing, live, expired, cleaner, reading, missed, shared, kept>>

\* CleanExpired, phase 1: the entries leave the maps under the lock.
CleanCollect ==
  /\ cleaner = "on" /\ doomed = {} /\ live \cap expired # {}
  /\ doomed' = PathsOf(live \cap expired)
  /\ live' = live \ expired
  /\ UNCHANGED <<files, fresh, entry, storing, expired, cleaner, reading, missed, shared, kept>>

\* Phase 2, without the lock: the file is removed; a failure is only logged.
CleanDelete(p) ==
  /\ p \in doomed /\ doomed' = doomed \ {p}
  /\ \/ files' = files \ {p} /\ fresh' = fresh \ {p} /\ UNCHANGED kept
     \/ p \in files /\ kept' = kept \cup {p} /\ UNCHANGED <<files, fresh>>
  /\ UNCHANGED <<entry, storing, live, expired, cleaner, reading, missed, shared>>

\* Stop takes effect between two passes.
StopCleaner ==
  /\ cleaner = "on" /\ doomed = {} /\ cleaner' = "stopped"
  /\ UNCHANGED <<files, fresh, entry, storing, live, expired, doomed, reading, missed, shared, kept>>

-----------------------------------------------------------------------------
(* Readers: the bridge copying an attachment, an adapter sending a file *)

Resolve(r) ==
  /\ r \in live \ reading
  /\ reading' = reading \cup {r}
  /\ UNCHANGED <<files, fresh, entry, storing, live, expired, doomed, cleaner, missed, shared, kept>>

\* persistInboundFile hands on the path of a file it could not open.
PersistInboundFile(r) ==
  /\ r \in reading /\ reading' = reading \ {r}
  /\ missed' = IF entry[r] \in files THEN missed ELSE missed \cup {r}
  /\ UNCHANGED <<files, fresh, entry, storing, live, expired, doomed, cleaner, shared, kept>>

MediaNext ==
  \/ \E p \in Paths : WriteFile(p) \/ CleanDelete(p) \/ \E r \in Refs : StoreStat(p, r)
  \/ \E r \in Refs : StoreInsert(r) \/ Expire(r) \/ Resolve(r) \/ PersistInboundFile(r)
  \/ StartCleaner \/ CleanCollect \/ StopCleaner

MediaSpec == MediaInit /\ [][MediaNext]_mediaVars

-----------------------------------------------------------------------------
(* Properties *)

\* The files and the references keep each other although neither Store nor the
\* cleaner holds the lock while it touches the disk.  A reference in use has its
\* file, and a reader misses a file only through a reference that expired,
\* unless its path was stored twice: then the first reference to expire takes
\* the file from the other one.  And no stored file stays on the disk for good:
\* it has a reference or is about to be deleted, unless removing it failed.
FilesMatchReferences ==
  /\ PathsOf(live \cup storing) \ files \subseteq shared
  /\ \A r \in missed : r \in expired \/ entry[r] \in shared
  /\ files \subseteq fresh \cup PathsOf(live \cup storing) \cup doomed \cup kept
=============================================================================
