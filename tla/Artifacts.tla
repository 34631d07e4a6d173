------------------------------ MODULE Artifacts ------------------------------
(***************************************************************************)
(* The versioned files an agent saves, as three services keep them: lists  *)
(* in memory, directories of versions on disk, objects of a bucket.        *)
(*                                                                         *)
(* A name is [user, file]: names of the user namespace ('user:...') are    *)
(* shared by the user's sessions.  A part is "empty" (no content at all),  *)
(* "noUri" (file data that names no file) or any other value.  A save      *)
(* returns the store and the version, or Failed.                           *)
(***************************************************************************)
EXTENDS Naturals, Sequences, FiniteSetsExt, Functions, TLC

CONSTANTS Failed, Latest, Nothing, UserScope

\* artifactPath, getArtifactDir, getFileName; a disk or bucket store is keyed
\* by the same pair.
Path(session, name) == <<IF name.user THEN UserScope ELSE session, name.file>>
NameOf(path) == [user |-> path[1] = UserScope, file |-> path[2]]

Result(store, version) == [store |-> store, version |-> version]
At(store, path, none) == IF path \in DOMAIN store THEN store[path] ELSE none
With(store, path, value) == (path :> value) @@ store
Keys(store, session) ==
  {NameOf(path) : path \in {p \in DOMAIN store : p[1] \in {session, UserScope}}}

---------------------------------------------------------------------------
(* In memory: a sequence of parts, whose indices are the versions          *)

MemorySave(store, path, part) ==
  LET versions == At(store, path, << >>)
  IN IF part = "empty" THEN Result(store, Failed)
     ELSE Result(With(store, path, Append(versions, part)), Len(versions))

\* version Latest: the latest.
MemoryLoad(store, path, version) ==
  LET versions == At(store, path, << >>)
      at == IF version = Latest THEN Len(versions) ELSE version + 1
  IN IF at \in DOMAIN versions THEN versions[at] ELSE Nothing

MemoryVersions(store, path) == {i - 1 : i \in DOMAIN At(store, path, << >>)}
MemoryDelete(store, path) == Restrict(store, DOMAIN store \ {path})

---------------------------------------------------------------------------
(* Disk and bucket: a map of versions                                      *)

VersionsOf(store, path) == DOMAIN At(store, path, << >>)
NextVersion(store, path) ==
  LET versions == VersionsOf(store, path)
  IN IF versions = {} THEN 0 ELSE Max(versions) + 1
Put(store, path, version, part) ==
  With(store, path, (version :> part) @@ At(store, path, << >>))

Delete(store, path) == Restrict(store, DOMAIN store \ {path})

\* On disk a version is a directory, then a content file, then its metadata:
\* a version whose save stopped before the metadata is torn.
Torn == "torn"
FileBegin(store, path) == Put(store, path, NextVersion(store, path), Torn)

FileSave(store, path, part) ==
  LET version == NextVersion(store, path)
  IN CASE part = "empty" -> Result(store, Failed)
       [] part = "noUri" -> Result(FileBegin(store, path), Failed)
       [] OTHER -> Result(Put(FileBegin(store, path), path, version, part), version)

FileLoad(store, path, version) ==
  LET versions == VersionsOf(store, path)
      at == IF version = Latest THEN Max(versions) ELSE version
  IN IF versions = {} \/ (version # Latest /\ version \notin versions) THEN Nothing
     ELSE IF store[path][at] = Torn THEN Nothing ELSE store[path][at]

\* An object of the bucket is written whole.
GcsSave(store, path, part) ==
  LET version == NextVersion(store, path)
  IN IF part \in {"empty", "noUri"} THEN Result(store, Failed)
     ELSE Result(Put(store, path, version, part), version)

GcsLoad(store, path, version) ==
  LET versions == VersionsOf(store, path)
      at == IF version = Latest THEN Max(versions \cup {0}) ELSE version
  IN IF at \in versions THEN store[path][at] ELSE Nothing
=============================================================================
