---------------------------- MODULE FilesWorkspace ----------------------------
(***************************************************************************)
(* The files of the assistant (files/workspace.ts, files/backend.ts).      *)
(* They live in the storage of the browser, and in a folder of the user    *)
(* when one is connected; a path may exist in both.  For every file of the *)
(* storage the workspace remembers the workbook it was written for, its    *)
(* tag, in memory and in the settings.                                     *)
(*                                                                         *)
(* Every method is a chain of awaits, and nothing makes one wait for       *)
(* another: the tools of every tab, the files dialog and the injector of   *)
(* the context (which lists the files) interleave.  A write to the         *)
(* settings takes effect when it is issued, a read sees them then.         *)
(***************************************************************************)
EXTENDS Naturals, FiniteSets

CONSTANTS
  Paths, Scratch,  \* paths; those under scratch/
  Requests,        \* calls, each made at most once
  NoFile, Expired, \* no file; one left more than a day ago
  NoCall

ASSUME FilesAssumption ==
  /\ Scratch \subseteq Paths
  /\ NoFile # Expired /\ {NoFile, Expired} \cap Requests = {}
  /\ Requests \cap {"workspace", "native"} = {}

VARIABLES
  files,     \* per place and path: the call that wrote the content
  connected, \* the active backend is a folder of the user
  cleaned,   \* the places cleanupExpiredScratchFiles was started for
  tags, tagsLoaded, stored, \* metadataByPath, metadataLoaded, the settings
  call,      \* per process: its arguments and what it has read
  stage,     \* per process: the await it stands at
  disturbed, \* paths that calls which were under way together were about
  bare,      \* paths whose last call failed before it came to the tag
  tagsUnsaved \* the last write to the settings failed

fileVars == <<files, connected, cleaned>>
tagVars == <<tags, tagsLoaded, stored, tagsUnsaved>>
workVars == <<call, stage>>
filesVars == <<fileVars, tagVars, workVars, disturbed, bare>>

Places == {"workspace", "native"}

\* The calls, and the cleaning of a place.
Callers == Requests \cup Places
Contents == Requests \cup {Expired, NoFile}
FileOps == {"write", "import", "delete", "rename", "list"} \* a clean-up is a "clean"
FileStages == {"new", "done", "resolve", "probe", "probeNative", "act", "copy", "remove", "tag", "load", "stamp"}

\* What a call knows: its operation, the location the caller names (or "any"),
\* its paths, whether it has seen a folder, the backend it acts on, the content
\* it copies, the paths or tags it has read, and the tag it moves.
Call(op, place, path, to) ==
  [op |-> op, place |-> place, path |-> path, to |-> to, folder |-> FALSE, here |-> FALSE,
   target |-> "workspace", content |-> NoFile, paths |-> {}, read |-> {}]

FileCalls ==
  [op : FileOps \cup {"clean"}, place : Places \cup {"any"}, path : Paths, to : Paths,
   folder : BOOLEAN, here : BOOLEAN, target : Places, content : Contents,
   paths : SUBSET Paths, read : SUBSET Paths]

ASSUME NoCallAssumption == NoCall \notin FileCalls

FilesInit ==
  /\ files \in [Places -> [Paths -> {NoFile, Expired}]]
  /\ connected = FALSE
  /\ cleaned = {}
  /\ stored = {p \in Paths : files["workspace"][p] # NoFile}
  /\ tagsLoaded \in BOOLEAN /\ tagsUnsaved = FALSE
  /\ tags = IF tagsLoaded THEN stored ELSE {}
  /\ call = [r \in Callers |-> NoCall] /\ stage = [r \in Callers |-> "new"]
  /\ disturbed = {} /\ bare = {}

Busy(r) == stage[r] \notin {"new", "done"}
Await(r, s) == stage' = [stage EXCEPT ![r] = s]
Note(r, field, value) == call' = [call EXCEPT ![r][field] = value]

\* The call returns or throws.
Return(r) == Await(r, "done") /\ call' = [call EXCEPT ![r] = NoCall]

PathsOf(c) == CASE c.op = "list" -> Paths [] c.op = "clean" -> c.paths [] OTHER -> {c.path, c.to}
DisturbedBy(r, c) ==
  disturbed' = disturbed \cup UNION {PathsOf(c) \cap PathsOf(call[q]) : q \in {q \in Callers \ {r} : Busy(q)}}

-----------------------------------------------------------------------------
(* The tags. *)

\* persistMetadata: what is in memory now; a failure is ignored.
SaveTags(t) ==
  /\ tags' = t
  /\ \/ stored' = t /\ tagsUnsaved' = FALSE
     \/ UNCHANGED stored /\ tagsUnsaved' = TRUE

\* What the call does once the tags are loaded, as the set t.  A list drops the
\* tags of the paths it has not found, a delete the tag of its path, a clean-up
\* those of the paths it has removed, whatever the place; a write and a rename
\* ask for the workbook first.
WithTags(r, t) ==
  LET c == call[r] IN
  CASE c.op = "list" ->
         /\ IF t \subseteq c.paths THEN tags' = t /\ UNCHANGED <<stored, tagsUnsaved>> ELSE SaveTags(t \cap c.paths)
         /\ Return(r) /\ UNCHANGED bare
    [] c.op = "delete" ->
         /\ IF c.path \notin t THEN tags' = t /\ UNCHANGED <<stored, tagsUnsaved>> ELSE SaveTags(t \ {c.path})
         /\ Return(r) /\ bare' = bare \ {c.path}
    [] c.op = "clean" ->
         /\ IF t \cap c.paths = {} THEN tags' = t /\ UNCHANGED <<stored, tagsUnsaved>> ELSE SaveTags(t \ c.paths)
         /\ Return(r) /\ bare' = IF r = "native" THEN bare \cup c.paths ELSE bare \ c.paths
    [] c.op = "rename" ->
         /\ tags' = t \ {c.path}
         /\ Await(r, "stamp") /\ Note(r, "paths", t \cap {c.path})
         /\ bare' = bare \ ({c.path} \ {c.to}) /\ UNCHANGED <<stored, tagsUnsaved>>
    [] OTHER ->
         /\ tags' = t
         /\ Await(r, "stamp") /\ UNCHANGED <<call, bare, stored, tagsUnsaved>>

\* ensureMetadataLoaded, and what follows.  Two calls may load at once: the tags
\* set between their answers go.
Tags(r) ==
  /\ stage[r] = "tag"
  /\ \/ tagsLoaded /\ WithTags(r, tags) /\ UNCHANGED <<tagsLoaded, disturbed>>
     \/ /\ ~tagsLoaded
        /\ Note(r, "read", stored) /\ Await(r, "load")
        /\ disturbed' = IF \E q \in Callers : stage[q] = "load" THEN Paths ELSE disturbed
        /\ UNCHANGED <<tagVars, bare>>
  /\ UNCHANGED fileVars

TagsLoaded(r) ==
  /\ stage[r] = "load"
  /\ tagsLoaded' = TRUE /\ WithTags(r, call[r].read)
  /\ UNCHANGED <<fileVars, disturbed>>

TagsFail(r) ==
  /\ stage[r] = "load"
  /\ bare' = IF call[r].op = "list" THEN bare ELSE bare \cup PathsOf(call[r])
  /\ Return(r)
  /\ UNCHANGED <<fileVars, tagVars, disturbed>>

\* Variant: the tag a rename moves stays where it was.
StampInPlace(r) ==
  /\ stage[r] = "stamp"
  /\ SaveTags(tags \cup {call[r].path}) /\ bare' = bare \ {call[r].to}
  /\ Return(r)
  /\ UNCHANGED <<fileVars, tagsLoaded, disturbed>>

\* setWorkbookTagForPath after resolveActiveWorkbookTag.  Without a workbook a
\* write leaves the tags alone, and a rename falls back on the tag it moves.
Stamp(r) ==
  /\ stage[r] = "stamp"
  /\ LET c == call[r] IN
     \E known \in BOOLEAN :
       IF known \/ c.paths # {} THEN SaveTags(tags \cup {c.to}) /\ bare' = IF c.path = c.to /\ c.op = "rename" THEN bare ELSE bare \ {c.to}
       ELSE /\ bare' = bare \cup {c.to}
            /\ IF c.op = "rename" THEN SaveTags(tags) ELSE UNCHANGED <<tags, stored, tagsUnsaved>>
  /\ Return(r)
  /\ UNCHANGED <<fileVars, tagsLoaded, disturbed>>

-----------------------------------------------------------------------------
(* The backends. *)

\* connectNativeDirectory and disconnectNativeDirectory, at replaceBackend: a
\* folder that is connected is yet to be cleaned.  (Bound: one that has been is
\* not connected again.)
Connect ==
  /\ ~connected /\ "native" \notin cleaned
  /\ connected' = TRUE
  /\ UNCHANGED <<files, cleaned, tagVars, workVars, disturbed, bare>>

Disconnect ==
  /\ connected /\ connected' = FALSE
  /\ UNCHANGED <<files, cleaned, tagVars, workVars, disturbed, bare>>

\* cleanupExpiredScratchFiles, on the first use of a backend: every call waits
\* for it.  Files that cannot be removed stay.
Clean(l) ==
  /\ l \notin cleaned /\ (l = "native" => connected)
  /\ cleaned' = cleaned \cup {l}
  /\ \E S \in SUBSET {p \in Scratch : files[l][p] = Expired} :
       IF S = {} THEN UNCHANGED <<files, workVars, disturbed>>
       ELSE LET c == [Call("clean", l, CHOOSE p \in S : TRUE, CHOOSE p \in S : TRUE) EXCEPT !.paths = S] IN
            /\ files' = [files EXCEPT ![l] = [p \in Paths |-> IF p \in S THEN NoFile ELSE @[p]]]
            /\ call' = [call EXCEPT ![l] = c] /\ Await(l, "tag")
            /\ DisturbedBy(l, c)
  /\ UNCHANGED <<connected, tagVars, bare>>

\* ensureScratchCleanupAttempted for the backends in use.
Ready == \A l \in Places : (l = "native" => connected) => l \in cleaned /\ ~Busy(l)

-----------------------------------------------------------------------------
(* The calls. *)

Begin(r) ==
  /\ stage[r] = "new"
  /\ \E op \in FileOps, place \in Places \cup {"any"}, path \in Paths, to \in Paths :
       LET c == Call(op, place, path, to) IN
       /\ op # "rename" => to = path
       /\ op = "import" => place = "any" \* with a location it is a write
       /\ op = "list" => place = "any" /\ path = CHOOSE p \in Paths : TRUE
       /\ call' = [call EXCEPT ![r] = c]
       /\ DisturbedBy(r, c)
  /\ Await(r, "resolve")
  /\ UNCHANGED <<fileVars, tagVars, bare>>

\* resolveSourceBackends, and what follows from the location the caller names.
\* An import without one goes to the storage; a list reads the storage.
Resolve(r) ==
  /\ stage[r] = "resolve" /\ Ready
  /\ LET c == call[r] IN
     CASE c.op = "list" ->
            Await(r, "tag") /\ Note(r, "paths", {p \in Paths : files["workspace"][p] # NoFile})
       [] c.op # "list" /\ c.place = "native" /\ ~connected -> Return(r)
       [] c.op # "list" /\ c.place \in Places /\ ~(c.place = "native" /\ ~connected) ->
            Await(r, "act") /\ Note(r, "target", c.place)
       [] c.op = "import" /\ c.place = "any" -> Await(r, "act") /\ UNCHANGED call
       [] OTHER -> Await(r, "probe") /\ Note(r, "folder", connected)
  /\ UNCHANGED <<fileVars, tagVars, disturbed, bare>>

\* Variant: a path in both places is taken from the storage.
ChoosePreferring(r, here, there) ==
  /\ Await(r, "act")
  /\ call' = [call EXCEPT ![r].here = FALSE, ![r].target = IF here \/ ~call[r].folder THEN "workspace" ELSE "native"]

\* The location a path is found at; a path in both is refused, a new one goes to
\* the active backend.
Choose(r, here, there) ==
  IF here /\ there THEN Return(r)
  ELSE /\ Await(r, "act")
       /\ call' = [call EXCEPT ![r].here = FALSE, ![r].target = IF here \/ ~call[r].folder THEN "workspace" ELSE "native"]

\* workspacePathExists, in the storage and then in the folder.  Other failures
\* than a missing file end the call.
Probe(r) ==
  /\ stage[r] = "probe"
  /\ LET here == files["workspace"][call[r].path] # NoFile IN
     \/ call[r].folder /\ Await(r, "probeNative") /\ Note(r, "here", here)
     \/ ~call[r].folder /\ Choose(r, here, FALSE)
     \/ Return(r)
  /\ UNCHANGED <<fileVars, tagVars, disturbed, bare>>

ProbeNative(r) ==
  /\ stage[r] = "probeNative"
  /\ Choose(r, call[r].here, files["native"][call[r].path] # NoFile) \/ Return(r)
  /\ UNCHANGED <<fileVars, tagVars, disturbed, bare>>

\* Only files of the storage have tags.
Done(r) ==
  IF call[r].target = "workspace" THEN Await(r, "tag") /\ UNCHANGED call ELSE Return(r)

Put(l, p, content) == files' = [files EXCEPT ![l][p] = content]

\* The backend throws before it has changed anything.  A file a rename has
\* copied but not removed is left without a tag.
ActFails(r) ==
  /\ stage[r] \in {"act", "copy", "remove"}
  /\ bare' = IF stage[r] = "remove" /\ call[r].target = "workspace" THEN bare \cup {call[r].to} ELSE bare
  /\ Return(r)
  /\ UNCHANGED <<fileVars, tagVars, disturbed>>

\* writeBytes: the file is replaced when the stream is closed.
WriteFile(r) ==
  /\ stage[r] = "act" /\ call[r].op \in {"write", "import"}
  /\ Put(call[r].target, call[r].path, r)
  /\ Done(r)
  /\ UNCHANGED <<connected, cleaned, tagVars, disturbed, bare>>

\* A missing file is no error in memory; elsewhere it is (ActFails).
DeleteFile(r) ==
  /\ stage[r] = "act" /\ call[r].op = "delete"
  /\ Put(call[r].target, call[r].path, NoFile)
  /\ Done(r)
  /\ UNCHANGED <<connected, cleaned, tagVars, disturbed, bare>>

\* renameFile reads the old file, writes the new one over whatever is there,
\* and deletes the old one as it is then.  To rename a file to its own name does
\* nothing, even if there is none: it gets its tag all the same.
RenameReads(r) ==
  /\ stage[r] = "act" /\ call[r].op = "rename"
  /\ LET c == call[r]  content == files[c.target][c.path] IN
     \/ /\ c.path = c.to
        /\ bare' = IF c.target = "workspace" /\ content = NoFile THEN bare \cup {c.path} ELSE bare
        /\ Done(r)
     \/ /\ c.path # c.to /\ content # NoFile
        /\ Await(r, "copy") /\ Note(r, "content", content)
        /\ UNCHANGED bare
  /\ UNCHANGED <<fileVars, tagVars, disturbed>>

RenameCopies(r) ==
  /\ stage[r] = "copy"
  /\ Put(call[r].target, call[r].to, call[r].content)
  /\ Await(r, "remove") /\ UNCHANGED call
  /\ UNCHANGED <<connected, cleaned, tagVars, disturbed, bare>>

RenameRemoves(r) ==
  /\ stage[r] = "remove"
  /\ Put(call[r].target, call[r].path, NoFile)
  /\ Done(r)
  /\ UNCHANGED <<connected, cleaned, tagVars, disturbed, bare>>

FilesNext ==
  \/ \E r \in Requests :
       \/ Begin(r) \/ Resolve(r) \/ Probe(r) \/ ProbeNative(r) \/ ActFails(r)
       \/ WriteFile(r) \/ DeleteFile(r) \/ RenameReads(r) \/ RenameCopies(r) \/ RenameRemoves(r)
       \/ Stamp(r)
  \/ \E r \in Callers : Tags(r) \/ TagsLoaded(r) \/ TagsFail(r)
  \/ Connect \/ Disconnect
  \/ \E l \in Places : Clean(l)

FilesSpec == FilesInit /\ [][FilesNext]_filesVars

-----------------------------------------------------------------------------
(* Properties. *)

\* Every variable keeps its type.
FilesTypeOK ==
  /\ files \in [Places -> [Paths -> Contents]] /\ connected \in BOOLEAN
  /\ cleaned \subseteq Places
  /\ \A S \in {tags, stored, disturbed, bare} : S \subseteq Paths
  /\ tagsLoaded \in BOOLEAN /\ tagsUnsaved \in BOOLEAN
  /\ stage \in [Callers -> FileStages]
  /\ call \in [Callers -> FileCalls \cup {NoCall}]
  /\ \A r \in Callers : Busy(r) <=> call[r] # NoCall

\* Between calls the tags in memory are the tags in the settings, and the files
\* that have one are the files there are.  This is so for every path that no two
\* calls were about at the same time, while no two of them loaded the tags, unless
\* its last call failed on the way to the tag.
TagsFollowFiles ==
  tagsLoaded /\ (\A r \in Callers : ~Busy(r)) =>
    \A p \in Paths \ disturbed :
      /\ ~tagsUnsaved => (p \in tags <=> p \in stored)
      /\ p \notin bare => (p \in tags <=> files["workspace"][p] # NoFile)

\* What a rename deletes is at its new path by then, and a call that names no
\* location and has seen the folder acts where its path is, unless another call
\* was about the path at the same time.
FilesKept ==
  [][\A r \in Requests :
       LET c == call[r]  other == CHOOSE l \in Places : l # c.target IN
       Busy(r) /\ {c.path, c.to} \cap disturbed = {} =>
         /\ stage[r] = "remove" /\ stage'[r] # "remove" /\ files' # files
            => files[c.target][c.path] = files'[c.target][c.to]
         /\ stage[r] = "act" /\ c.place = "any" /\ c.folder /\ files' # files /\ stage'[r] # "act"
            => files[other][c.path] = NoFile]_filesVars

===============================================================================
