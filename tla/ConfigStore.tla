----------------------------- MODULE ConfigStore -----------------------------
(***************************************************************************)
(* The config store: POSTs write files, GETs read them, DELETEs unlink     *)
(* them, all at the same time and without a lock. os.WriteFile opens the   *)
(* file, which truncates it, and writes it in a second step. A GET reads   *)
(* whatever the file holds and answers null when that is not JSON.         *)
(*                                                                         *)
(* Fiber takes the first route that matches: POST /api/configs/commit is a *)
(* POST of the function "commit" here, and GET /api/configs/instances a    *)
(* GET of the function "instances".                                        *)
(***************************************************************************)
EXTENDS Naturals, Maps

CONSTANTS
  Files,      \* functions/<id>.json and instances/<id>.json
  Instances,  \* those of instances/
  Documents,  \* JSON documents that clients send, other than null
  Null,       \* the document null
  Garbage,    \* a body that is not JSON
  Posts,      \* POST handlers
  Inodes,     \* the file system's, reused when nobody refers to them
  NoInode,
  Empty,      \* what an opened file holds
  Mixed       \* the start of one document and the end of another

ASSUME ConfigStoreAssumption ==
  /\ Instances \subseteq Files
  /\ Null \notin Documents /\ Garbage \notin Documents \cup {Null}
  /\ {Empty, Mixed} \cap (Documents \cup {Null, Garbage}) = {}
  /\ NoInode \notin Inodes

VARIABLES
  directory,  \* file -> inode
  content,    \* inode -> what it holds
  post,       \* handler -> the file it writes and the body it was sent
  saved,      \* history: file -> the body of the last POST that was answered with "saved"
  unsure      \* history: files of which a write overlapped another, failed or was cut off

storeVars == <<directory, content, post, saved, unsure>>

-----------------------------------------------------------------------------
Bodies == Documents \cup {Null, Garbage}
Contents == Documents \cup {Null, Empty, Mixed}
IdlePost == [inode |-> NoInode]
Writing(p) == post[p] # IdlePost
Writers(i) == {p \in Posts : Writing(p) /\ post[p].inode = i}
Linked(i) == \E f \in DOMAIN directory : directory[f] = i

\* A function is answered with "saved" only for a body that is JSON, be it null.
StoreTypeOK ==
  /\ DOMAIN directory \subseteq Files
  /\ \A f \in DOMAIN directory : directory[f] \in Inodes
  /\ \A f, g \in DOMAIN directory : directory[f] = directory[g] => f = g
  /\ content \in [Inodes -> Contents]
  /\ DOMAIN post = Posts
  /\ \A p \in Posts : Writing(p) => /\ post[p].inode \in Inodes /\ post[p].file \in Files
                                    /\ post[p].body \in Bodies
                                    /\ post[p].body = Garbage => post[p].file \in Instances
  /\ DOMAIN saved \subseteq Files /\ unsure \subseteq Files
  /\ \A f \in DOMAIN saved : saved[f] \in Bodies /\ (saved[f] = Garbage => f \in Instances)

StoreInit ==
  /\ directory = EmptyMap
  /\ content = [i \in Inodes |-> Empty]
  /\ post = [p \in Posts |-> IdlePost]
  /\ saved = EmptyMap
  /\ unsure = {}

-----------------------------------------------------------------------------
\* Mutant of Accepted: no body is checked.
AcceptedUnchecked(f, body) == TRUE

\* json.Unmarshal's error is answered with 400 for a function and ignored for
\* an instance, for which nil is written, as for the body null.
Accepted(f, body) == f \in Instances \/ body # Garbage
Marshalled(body) == IF body = Garbage THEN Null ELSE body

Opened(p, f, body, i) ==
  /\ ~ Writing(p)
  /\ Accepted(f, body)
  /\ IF f \in DOMAIN directory THEN i = directory[f] ELSE ~ Linked(i) /\ Writers(i) = {}
  /\ directory' = Put(directory, f, i)
  /\ post' = [post EXCEPT ![p] = [inode |-> i, file |-> f, body |-> body]]
  /\ unsure' = IF \E q \in Posts : Writing(q) /\ post[q].file = f
               THEN unsure \cup {f} ELSE unsure \ {f}
  /\ UNCHANGED saved

\* Mutant of OpenFile: the file is not truncated.
OpenKeepsContent(p, f, body, i) == Opened(p, f, body, i) /\ UNCHANGED content

\* POST /api/configs/:id and /api/configs/instances/:id, up to the open.
OpenFile(p, f, body, i) ==
  /\ Opened(p, f, body, i)
  /\ content' = [content EXCEPT ![i] = Empty]

\* The write, from the file's start: of another document that was written since
\* the open, the end may stay. The answer is "saved", linked or not.
WriteFile(p) ==
  LET i == post[p].inode
      data == Marshalled(post[p].body) IN
  /\ Writing(p)
  /\ \E c \in IF content[i] \in {Empty, data} THEN {data} ELSE {data, Mixed} :
       content' = [content EXCEPT ![i] = c]
  /\ saved' = Put(saved, post[p].file, post[p].body)
  /\ post' = [post EXCEPT ![p] = IdlePost]
  /\ UNCHANGED <<directory, unsure>>

\* The write fails, with 500, or the process dies: the file stays truncated.
WriteCutOff(p) ==
  /\ Writing(p)
  /\ post' = [post EXCEPT ![p] = IdlePost]
  /\ unsure' = unsure \cup {post[p].file}
  /\ UNCHANGED <<directory, content, saved>>

\* DELETE /api/configs/:id, of functions only. A handler that has the file open
\* writes on, to a file that nobody can open any more.
DeleteFile(f) ==
  /\ f \in DOMAIN directory \ Instances
  /\ directory' = Drop(directory, f)
  /\ UNCHANGED <<content, post, saved, unsure>>

StoreNext ==
  \/ \E p \in Posts, f \in Files, body \in Bodies, i \in Inodes :
       OpenFile(p, f, body, i)
  \/ \E p \in Posts : WriteFile(p) \/ WriteCutOff(p)
  \/ \E f \in Files : DeleteFile(f)

StoreSpec == StoreInit /\ [][StoreNext]_storeVars

-----------------------------------------------------------------------------
(* Properties *)

\* A file that nobody writes holds what the last POST answered with "saved"
\* has sent, whole, whatever was deleted and written anew before; unless two
\* POSTs of the file overlapped, or a write was cut off.
SettledFileIsLast ==
  \A f \in DOMAIN directory \ unsure :
    Writers(directory[f]) = {} => /\ f \in DOMAIN saved
                                  /\ content[directory[f]] = Marshalled(saved[f])
=============================================================================
