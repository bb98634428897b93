-------------------------------- MODULE Cas --------------------------------
(***************************************************************************)
(* The content-addressed store of the snapshot engine, with several        *)
(* writers, which its public interface allows.  (The CLI gives every       *)
(* checkpoint a store of its own.)  An object is named by the hash of its  *)
(* bytes.  A writer that is killed leaves what it has written.             *)
(*                                                                         *)
(* Names and files are apart: a rename moves the name and leaves the       *)
(* descriptor of a process that has the file open where it is.             *)
(***************************************************************************)
EXTENDS Naturals, Sequences

CONSTANTS
  Writers,    \* processes or threads that put objects
  Hashes,     \* the hashes of the bytes they put
  NoFile,     \* a name that does not exist
  MaxFiles    \* bound: files created

VARIABLES
  files,      \* the contents of every file created: truncated or whole
  object,     \* per hash, the file under its final name
  tmp,        \* per hash, the file under .tmp-<hash>
  writer      \* per process, the put in progress

casVars == <<files, object, tmp, writer>>

Idle == [at |-> "idle"]

CasInit ==
  /\ files = <<>>
  /\ object = [h \in Hashes |-> NoFile]
  /\ tmp = [h \in Hashes |-> NoFile]
  /\ writer = [w \in Writers |-> Idle]

\* An object that exists already is not written again.
put(w, h) ==
  /\ writer[w] = Idle
  /\ object[h] = NoFile
  /\ writer' = [writer EXCEPT ![w] = [at |-> "open", hash |-> h]]
  /\ UNCHANGED <<files, object, tmp>>

\* fs::write creates the file, or truncates the one that is there,
Open(w) ==
  /\ writer[w].at = "open"
  /\ LET h == writer[w].hash
         new == Len(files) + 1
     IN IF tmp[h] = NoFile
        THEN /\ new <= MaxFiles
             /\ files' = Append(files, "truncated")
             /\ tmp' = [tmp EXCEPT ![h] = new]
             /\ writer' = [writer EXCEPT ![w] = [at |-> "write", hash |-> h, file |-> new]]
        ELSE /\ files' = [files EXCEPT ![tmp[h]] = "truncated"]
             /\ writer' = [writer EXCEPT ![w] = [at |-> "write", hash |-> h, file |-> tmp[h]]]
             /\ UNCHANGED tmp
  /\ UNCHANGED object

\* and writes the bytes to the file it has open.
Write(w) ==
  /\ writer[w].at = "write"
  /\ files' = [files EXCEPT ![writer[w].file] = "whole"]
  /\ writer' = [writer EXCEPT ![w].at = "rename"]
  /\ UNCHANGED <<object, tmp>>

\* fs::rename moves whatever has the temporary name; without one put fails.
Rename(w) ==
  /\ writer[w].at = "rename"
  /\ LET h == writer[w].hash IN
     IF tmp[h] = NoFile THEN UNCHANGED <<object, tmp>>
     ELSE object' = [object EXCEPT ![h] = tmp[h]] /\ tmp' = [tmp EXCEPT ![h] = NoFile]
  /\ writer' = [writer EXCEPT ![w] = Idle]
  /\ UNCHANGED files

\* The process is killed.
Crash(w) ==
  /\ writer[w] # Idle
  /\ writer' = [writer EXCEPT ![w] = Idle]
  /\ UNCHANGED <<files, object, tmp>>

CasNext ==
  \E w \in Writers :
    (\E h \in Hashes : put(w, h)) \/ Open(w) \/ Write(w) \/ Rename(w) \/ Crash(w)

CasSpec == CasInit /\ [][CasNext]_casVars

\* The bytes of an object are hashed again when it is read.
get(h) ==
  IF object[h] = NoFile THEN "ObjectNotFound"
  ELSE IF files[object[h]] = "whole" THEN "bytes" ELSE "CorruptObject"

-----------------------------------------------------------------------------
\* "A reader never sees a half-written object and two writers of the same
\* bytes cannot corrupt each other": whatever is under a final name can be
\* read, by read_all and by the restore of any later checkpoint.
ReadersSeeWholeObjects == \A h \in Hashes : get(h) # "CorruptObject"
=============================================================================
