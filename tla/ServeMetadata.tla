---------------------------- MODULE ServeMetadata ----------------------------
(***************************************************************************)
(* The routes /list/files and /metadata (route_handler.go, repository.go)  *)
(* on the legacy folder store, while the folders they serve are being      *)
(* deleted (FolderTree has the deletion in full).                          *)
(*                                                                         *)
(* A reply is a stream of counts, names, sizes and file data that only the *)
(* counts and sizes before them delimit.  Every read of a bucket and every *)
(* call on the disk is a step; the writes that follow one another are one. *)
(* A field of the reply is a record of its type and value; file data is    *)
(* one field per buffer.  A client reads along.                            *)
(***************************************************************************)
EXTENDS Naturals, Sequences, FiniteSets

CONSTANTS
    NumFolders,     \* bound: children of the folder that is asked for
    FileSizes,      \* the sizes of a folder's metadata files, in units
    Buffer,         \* the buffer of writeFile, in units
    MaxFaults       \* bound: broken connections and failed reads

Folders == 1..NumFolders
Files == 1..Len(FileSizes)

ASSUME ServeAssumption ==
    /\ NumFolders \in Nat /\ MaxFaults \in Nat /\ Buffer \in Nat \ {0}
    /\ FileSizes \in Seq(Nat)

VARIABLES
    listed,     \* the folders in their parent's entry of bucket Tree
    entry,      \* the folders with an entry of their own in it
    named,      \* the folders with a name
    dir,        \* the folders with a directory
    meta,       \* folder -> its files in metadatafiles
    doomed,     \* folder -> how it is being deleted: "no", "top" or "sub"
    req,        \* the request: what the handler holds
    out,        \* the reply so far
    client,     \* what the client knows after reading it (external)
    lost,       \* history: an announced file could not be sent
    faults      \* how many there were so far

diskVars == <<listed, entry, named, dir, meta, doomed>>
vars == <<diskVars, req, out, client, lost, faults>>

NoRequest == [pc |-> "idle", kind |-> "none", list |-> <<>>, i |-> 1, name |-> FALSE,
              children |-> <<>>, files |-> <<>>, size |-> 0]

(* A set in the order of its elements. *)
Listings(S) == {s \in [1..Cardinality(S) -> S] : \A i, j \in 1..Cardinality(S) : i < j => s[i] < s[j]}

Field(type, v) == [type |-> type, v |-> v]
Data(m, n) == [type |-> "data", v |-> n, file |-> m]

-----------------------------------------------------------------------------
(* The client: it knows only what the fields it has read tell it. *)

Client(state, children, files, units) ==
    [state |-> state, children |-> children, files |-> files, units |-> units]
Reader == Client("start", 0, 0, 0)

(* After a file, or a number of files: the next file, child or the end. *)
Then(children, files) ==
    Client(IF files > 0 THEN "name" ELSE IF children > 0 THEN "id" ELSE "end", children, files, 0)

(* A client's state is the type of the field it awaits; at the start it does *)
(* not know which route answers.                                             *)
Fits(c, x) ==
    /\ x.type = c.state \/ (c.state = "start" /\ x.type \in {"count", "size"})
    /\ x.type = "data" => x.v <= c.units

Accept(c, x) ==
    CASE x.type = "count" -> Then(x.v, 0)
      [] x.type = "id" -> Client("hasChildren", c.children - 1, 0, 0)
      [] x.type = "hasChildren" -> Client("size", c.children, 0, 0)
      [] x.type = "size" -> Client("files", c.children, 0, 0)
      [] x.type = "files" -> Then(c.children, x.v)
      [] x.type = "name" -> Client("length", c.children, c.files - 1, 0)
      [] x.type = "length" -> IF x.v = 0 THEN Then(c.children, c.files)
                              ELSE Client("data", c.children, c.files, x.v)
      [] x.type = "data" -> IF x.v = c.units THEN Then(c.children, c.files)
                            ELSE Client("data", c.children, c.files, c.units - x.v)

Read(c, x) == IF Fits(c, x) THEN Accept(c, x) ELSE Client("confused", 0, 0, 0)

(* The next fields, of which no step writes more than four. *)
Follow(c, fields) ==
    LET ReadNth(k, d) == IF k <= Len(fields) THEN Read(d, fields[k]) ELSE d
    IN  ReadNth(4, ReadNth(3, ReadNth(2, ReadNth(1, c))))

-----------------------------------------------------------------------------
(* A write reaches the client. *)
Emit(fields) == out' = out \o fields /\ client' = Follow(client, fields)

(* The request moves on; the disk stays as it is. *)
Moves(r) == req' = r /\ UNCHANGED diskVars

ServeInit ==
    /\ listed = Folders /\ entry = Folders /\ named = Folders /\ dir = Folders
    /\ meta = [f \in Folders |-> Files]
    /\ doomed = [f \in Folders |-> "no"]
    /\ req = NoRequest /\ out = <<>> /\ client = Reader /\ lost = FALSE /\ faults = 0

Fields ==
    [type : {"count", "id", "hasChildren", "size", "files", "name", "length", "error"}, v : Nat]
    \cup [type : {"data"}, v : Nat, file : Files]

ServeTypeOK ==
    /\ listed \cup entry \cup named \cup dir \subseteq Folders
    /\ meta \in [Folders -> SUBSET Files]
    /\ req.list \in Seq(Folders) /\ req.files \in Seq(Files)
    /\ \A i \in 1..Len(req.children) : req.children[i].id \in Folders
    /\ out \in Seq(Fields)
    /\ faults \in 0..MaxFaults

-----------------------------------------------------------------------------
(* Deletion: DeleteFolder of a child ("top": its directory goes first), or   *)
(* DeleteNodeSubtree of its parent ("sub": its directory goes last).         *)

Doom(f, how) ==
    /\ doomed[f] = "no"
    /\ doomed' = [doomed EXCEPT ![f] = how]
    /\ listed' = IF how = "top" THEN listed \ {f} ELSE listed
    /\ UNCHANGED <<entry, named, dir, meta, req, out, client, lost, faults>>

(* os.RemoveAll: the files in some order, then the directory. *)
RemoveAll(f) ==
    /\ doomed[f] = "top" \/ (doomed[f] = "sub" /\ f \notin named)
    /\ f \in dir
    /\ \/ \E m \in meta[f] : meta' = [meta EXCEPT ![f] = @ \ {m}] /\ UNCHANGED dir
       \/ meta[f] = {} /\ dir' = dir \ {f} /\ UNCHANGED meta
    /\ UNCHANGED <<listed, entry, named, doomed, req, out, client, lost, faults>>

DropEntry(f) ==
    /\ (doomed[f] = "top" /\ f \notin dir) \/ doomed[f] = "sub"
    /\ f \in entry
    /\ entry' = entry \ {f}
    /\ UNCHANGED <<listed, named, dir, meta, doomed, req, out, client, lost, faults>>

DropName(f) ==
    /\ doomed[f] # "no" /\ f \notin entry /\ f \in named
    /\ named' = named \ {f}
    /\ UNCHANGED <<listed, entry, dir, meta, doomed, req, out, client, lost, faults>>

-----------------------------------------------------------------------------
(* What is served: GetChildrenInfo with getChildrenParser, getFolderInfo.    *)

(* serveMetadata: getNodeForPath and GetChildrenForNode of the parent. *)
ServeMetadata ==
    /\ req.pc = "idle"
    /\ \E children \in Listings(listed) :
         Moves([NoRequest EXCEPT !.pc = "name", !.kind = "list", !.list = children])
    /\ UNCHANGED <<out, client, lost, faults>>

(* serveSingleMetadata: the folder size, which is always 0, is sent before   *)
(* the folder is looked for.                                                 *)
ServeSingleMetadata(f) ==
    /\ req.pc = "idle"
    /\ Emit(<<Field("size", 0)>>)
    /\ Moves([NoRequest EXCEPT !.pc = "lookup", !.kind = "single", !.list = <<f>>])
    /\ UNCHANGED <<lost, faults>>

(* getFolderInfo resolves the path, lists the files and asks IsLeaf last. *)
GetFolderInfo ==
    /\ req.pc = "lookup"
    /\ Moves([req EXCEPT !.name = TRUE,
                         !.pc = IF req.list[1] \in listed \cap named THEN "readdir" ELSE "error"])
    /\ UNCHANGED <<out, client, lost, faults>>

(* errorResponse: too late for the status, its text ends up in the stream.   *)
ErrorResponse ==
    /\ req.pc = "error"
    /\ Emit(<<Field("error", 0)>>)
    /\ Moves([req EXCEPT !.pc = "done"])
    /\ UNCHANGED <<lost, faults>>

Child == req.list[req.i]
NextInfo(r) == [r EXCEPT !.i = @ + 1, !.pc = "name"]

(* GetFolderNameForNode: an error is overwritten by the next call's. *)
GetFolderName ==
    /\ req.pc = "name" /\ req.i <= Len(req.list)
    /\ Moves([req EXCEPT !.name = (Child \in named), !.pc = "stat"])
    /\ UNCHANGED <<out, client, lost, faults>>

(* Mutant: an error of IsLeaf does not keep the child out. *)
AfterIsLeafAlways(ok) ==
    IF req.kind = "single" THEN NextInfo(req)
    ELSE [req EXCEPT !.pc = IF req.pc = "stat" /\ ok THEN "leaf" ELSE "readdir"]

(* IsLeaf has looked at the directory, or at the entry.  getChildrenParser   *)
(* calls it first and leaves a child out if it fails; getFolderInfo calls it *)
(* last.                                                                     *)
AfterIsLeaf(ok) ==
    CASE ok /\ req.pc = "stat" -> [req EXCEPT !.pc = "leaf"]
      [] ok /\ req.pc = "leaf" /\ req.kind = "list" -> [req EXCEPT !.pc = "readdir"]
      [] ~ok /\ req.kind = "single" -> [req EXCEPT !.pc = "error"]
      [] OTHER -> NextInfo(req)

IsLeaf ==
    /\ \/ req.pc = "stat" /\ Moves(AfterIsLeaf(Child \in dir))
       \/ req.pc = "leaf" /\ Moves(AfterIsLeaf(Child \in entry))
    /\ UNCHANGED <<out, client, lost, faults>>

(* Mutant: directories are listed with the files. *)
ReadDirAll ==
    /\ req.pc = "readdir"
    /\ \E names \in Listings(meta[Child] \cup {0}) :
         Moves([NextInfo(req) EXCEPT !.children = Append(@,
                  [id |-> Child, named |-> req.name, files |-> names])])
    /\ UNCHANGED <<out, client, lost, faults>>

(* getMetdataFileParser: ReadDir lists by name, an error lists nothing. *)
ReadDir ==
    /\ req.pc = "readdir"
    /\ \E names \in Listings(meta[Child]) :
         LET child == [id |-> Child, named |-> req.name, files |-> names]
             r == [req EXCEPT !.children = Append(@, child)]
         IN  Moves(IF req.kind = "list" THEN NextInfo(r) ELSE [r EXCEPT !.pc = "stat"])
    /\ UNCHANGED <<out, client, lost, faults>>

-----------------------------------------------------------------------------
(* The reply. *)

(* All children are known: their number comes first. *)
WriteCount ==
    /\ req.pc = "name" /\ req.i > Len(req.list)
    /\ Emit(IF req.kind = "list" THEN <<Field("count", Len(req.children))>> ELSE <<>>)
    /\ Moves([req EXCEPT !.pc = "child", !.i = 1])
    /\ UNCHANGED <<lost, faults>>

NextChild(r) == [r EXCEPT !.pc = "child", !.i = @ + 1, !.files = <<>>]

(* The head of a child, and the number of its files. *)
WriteChild ==
    LET c == req.children[req.i]
        number == Field("files", Len(c.files))
    IN  /\ req.pc = "child" /\ req.i <= Len(req.children)
        /\ Emit(IF req.kind = "list"
                THEN <<Field("id", c.id), Field("hasChildren", 0), Field("size", 0), number>>
                ELSE <<number>>)
        /\ Moves([req EXCEPT !.pc = "file", !.files = c.files])
        /\ UNCHANGED <<lost, faults>>

WriteDone ==
    /\ req.pc = "child" /\ req.i > Len(req.children)
    /\ Moves([req EXCEPT !.pc = "done"])
    /\ UNCHANGED <<out, client, lost, faults>>

FilesDone ==
    /\ req.pc = "file" /\ req.files = <<>>
    /\ Moves(NextChild(req))
    /\ UNCHANGED <<out, client, lost, faults>>

There == Head(req.files) \in meta[req.children[req.i].id]

(* Mutant: a file that is gone ends the reply. *)
WriteFileHeadReturns ==
    LET m == Head(req.files)
    IN  /\ req.pc = "file" /\ req.files # <<>>
        /\ Emit(IF There THEN <<Field("name", m), Field("length", FileSizes[m])>>
                ELSE <<Field("name", m)>>)
        /\ Moves([req EXCEPT !.pc = IF There THEN "open" ELSE "done"])
        /\ lost' = (lost \/ ~There)
        /\ UNCHANGED faults

(* The name, then os.Stat, then the length; without the file the handler     *)
(* goes on with the next child.                                              *)
WriteFileHead ==
    LET m == Head(req.files)
    IN  /\ req.pc = "file" /\ req.files # <<>>
        /\ \/ /\ There
              /\ Emit(<<Field("name", m), Field("length", FileSizes[m])>>)
              /\ Moves([req EXCEPT !.pc = "open"])
              /\ UNCHANGED lost
           \/ /\ ~There
              /\ Emit(<<Field("name", m)>>)
              /\ Moves(NextChild(req))
              /\ lost' = TRUE
        /\ UNCHANGED faults

OpenFile ==
    /\ req.pc = "open"
    /\ Moves(IF There THEN [req EXCEPT !.pc = "data", !.size = FileSizes[Head(req.files)]]
             ELSE NextChild(req))
    /\ lost' = (lost \/ ~There)
    /\ UNCHANGED <<out, client, faults>>

NextFile(r) == [r EXCEPT !.pc = "file", !.files = Tail(@), !.size = 0]

(* Mutant: the loop stops when less than a buffer is left. *)
WriteFileWholeBuffers ==
    /\ req.pc = "data"
    /\ \/ /\ req.size >= Buffer
          /\ Emit(<<Data(Head(req.files), Buffer)>>)
          /\ Moves([req EXCEPT !.size = @ - Buffer])
       \/ /\ req.size < Buffer
          /\ Moves(NextFile(req))
          /\ UNCHANGED <<out, client>>
    /\ UNCHANGED <<lost, faults>>

(* One turn of the loop of writeFile.  An open file can be read to its end   *)
(* even if it is removed meanwhile.                                          *)
WriteFile ==
    LET n == IF req.size < Buffer THEN req.size ELSE Buffer
    IN  /\ req.pc = "data"
        /\ \/ /\ req.size > 0
              /\ Emit(<<Data(Head(req.files), n)>>)
              /\ Moves([req EXCEPT !.size = @ - n])
           \/ /\ req.size = 0
              /\ Moves(NextFile(req))
              /\ UNCHANGED <<out, client>>
        /\ UNCHANGED <<lost, faults>>

(* A read fails: what writeFile returns is only printed. *)
ReadFails ==
    /\ req.pc = "data" /\ req.size > 0
    /\ faults < MaxFaults
    /\ faults' = faults + 1
    /\ lost' = TRUE
    /\ Moves(NextFile(req))
    /\ UNCHANGED <<out, client>>

(* The connection breaks: every further write fails and nothing is sent. *)
Disconnect ==
    /\ req.pc \notin {"idle", "done"}
    /\ faults < MaxFaults
    /\ faults' = faults + 1
    /\ lost' = TRUE
    /\ Moves([req EXCEPT !.pc = "done"])
    /\ UNCHANGED <<out, client>>

-----------------------------------------------------------------------------
Handler ==
    \/ GetFolderInfo \/ ErrorResponse \/ GetFolderName \/ IsLeaf \/ ReadDir \/ WriteCount
    \/ WriteChild \/ WriteDone \/ FilesDone \/ WriteFileHead \/ OpenFile \/ WriteFile

ServeNext ==
    \/ ServeMetadata
    \/ \E f \in Folders : \/ ServeSingleMetadata(f)
                          \/ \E how \in {"top", "sub"} : Doom(f, how)
                          \/ RemoveAll(f) \/ DropEntry(f) \/ DropName(f)
    \/ Handler
    \/ ReadFails \/ Disconnect

ServeSpec == ServeInit /\ [][ServeNext]_vars

-----------------------------------------------------------------------------
(* As long as no announced file was lost, a client can follow the reply, and *)
(* when the handler has returned the client has read it to its end, neither  *)
(* waiting nor with data to spare: the lengths of route_handler.go:222-333   *)
(* are right whatever is deleted before it is listed or after it is opened.  *)
(* The error text of /metadata is the only other thing that confuses it.     *)
ReplyDelimited ==
    (~lost /\ \A i \in 1..Len(out) : out[i].type # "error") =>
        /\ client.state # "confused"
        /\ req.pc = "done" => client.state = "end"

(* A child is never served without its name, although GetFolderNameForNode's *)
(* error is dropped (filesys.go:525): the deletion removes the directory or  *)
(* the entry before the name, and IsLeaf looks at both after the name was    *)
(* read.                                                                     *)
ServedNamed ==
    \A i \in 1..Len(req.children) : req.children[i].named

(* Buffer j of a file of that size: what is left of it, at most a buffer. *)
Chunk(size, j) ==
    LET left == size - (j - 1) * Buffer
    IN  IF left < Buffer THEN left ELSE Buffer

(* In reply o, file m begins at p: its name, its length, and its size in k   *)
(* buffers, all of them full except the last.                                *)
FileAt(o, m, p, k) ==
    /\ p + 1 + k <= Len(o)
    /\ o[p] = Field("name", m) /\ o[p + 1] = Field("length", FileSizes[m])
    /\ FileSizes[m] <= k * Buffer
    /\ \A j \in 1..k : /\ (j - 1) * Buffer < FileSizes[m]
                       /\ o[p + 1 + j] = Data(m, Chunk(FileSizes[m], j))

(* In reply o, child f begins at i. *)
HeadAt(o, f, i) ==
    /\ i + 3 <= Len(o)
    /\ o[i] = Field("id", f) /\ o[i + 1] = Field("hasChildren", 0)
    /\ o[i + 2] = Field("size", 0) /\ o[i + 3] = Field("files", Len(FileSizes))

(* A child as it should be sent: its head and then, without a gap, all its   *)
(* files in their order.                                                     *)
FrameAt(o, f, i) ==
    /\ HeadAt(o, f, i)
    /\ \E start \in [Files -> {p \in 1..Len(o) : o[p].type = "name"}] :
         \A m \in Files :
            /\ m = 1 => start[m] = i + 4
            /\ \E k \in 0..Len(o) : /\ FileAt(o, m, start[m], k)
                                    /\ m + 1 \in Files => start[m + 1] = start[m] + 2 + k

(* A child that no deletion has touched is in the reply with all its files,  *)
(* whatever happened to its siblings, unless the connection broke or a read  *)
(* failed: the handler goes on after a child that was cut short              *)
(* (route_handler.go:148).                                                   *)
SurvivorsServed ==
    (req.pc = "done" /\ req.kind = "list" /\ faults = 0) =>
        \A f \in Folders : doomed[f] = "no" =>
            \E i \in 1..Len(out) : FrameAt(out, f, i)
=============================================================================
