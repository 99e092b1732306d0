------------------------- MODULE ServeMetadataProofs -------------------------
(***************************************************************************)
(* Proofs about ServeMetadata for any number of folders, any files and any *)
(* buffer.  The deletion drops a folder's name only after its entry, so a  *)
(* handler that found no name finds no entry either when it asks IsLeaf.   *)
(***************************************************************************)
EXTENDS ServeMetadata, FiniteSetTheorems, TLAPS

Children == [id : Folders, named : BOOLEAN, files : Seq(Files)]
Steps == {"idle", "lookup", "name", "stat", "leaf", "readdir", "error", "child", "file", "open",
          "data", "done"}
Slots == {"pc", "kind", "list", "i", "name", "children", "files", "size"}

(* What each part of the request holds. *)
RequestInv ==
    /\ DOMAIN req = Slots
    /\ req.pc \in Steps /\ req.kind \in {"none", "list", "single"}
    /\ req.list \in Seq(Folders) /\ req.i \in Nat \ {0} /\ req.name \in BOOLEAN
    /\ req.children \in Seq(Children) /\ req.files \in Seq(Files) /\ req.size \in Nat

(* The store holds nothing but the folders and files it started with. *)
DiskInv ==
    /\ listed \subseteq Folders /\ entry \subseteq Folders /\ named \subseteq Folders /\ dir \subseteq Folders
    /\ meta \in [Folders -> SUBSET Files]
    /\ faults \in 0..MaxFaults

(* The handler is where its indices are valid. *)
HandlerInv ==
    /\ RequestInv
    /\ req.pc \in {"stat", "leaf", "readdir"} => req.i <= Len(req.list)
    /\ req.pc = "lookup" => req.i = 1 /\ Len(req.list) = 1
    /\ req.pc \in {"file", "open", "data"} => req.i <= Len(req.children)
    /\ req.pc \in {"open", "data"} => req.files # <<>>

(* A missing name means a missing entry, now and where the handler stands. *)
NameInv ==
    /\ entry \subseteq named
    /\ req.pc \in {"stat", "leaf"} /\ ~req.name => Child \notin entry
    /\ req.pc = "readdir" => req.name
    /\ ServedNamed

(* /metadata describes one folder. *)
SingleInv ==
    /\ req.kind \in {"none", "list", "single"}
    /\ req.pc = "idle" <=> req.kind = "none"
    /\ req.kind = "single" =>
         /\ Len(req.list) = 1
         /\ req.pc \in {"lookup", "readdir"} => req.i = 1 /\ req.children = <<>>
         /\ req.pc \in {"stat", "leaf"} => req.i = 1 /\ Len(req.children) = 1
         /\ req.pc = "name" => req.i = 2 /\ Len(req.children) = 1
         /\ req.pc \in {"child", "file", "open", "data"} => Len(req.children) = 1

(* Nothing went wrong so far that a client could notice. *)
Clear == ~lost /\ \A i \in 1..Len(out) : out[i].type # "error"

(* What a client must await for what a handler r will still write to fit.    *)
Rest(r) == IF r.kind = "list" THEN Len(r.children) - r.i ELSE 0
AwaitsData(r, units) ==
    IF units = 0 THEN Then(Rest(r), Len(r.files) - 1)
    ELSE Client("data", Rest(r), Len(r.files) - 1, units)
Awaited(r) ==
    CASE r.pc = "child" -> IF r.i > Len(r.children) THEN Client("end", 0, 0, 0)
                           ELSE IF r.kind = "list" THEN Client("id", Rest(r) + 1, 0, 0)
                           ELSE Client("files", 0, 0, 0)
      [] r.pc = "file" -> Then(Rest(r), Len(r.files))
      [] r.pc = "open" -> AwaitsData(r, FileSizes[Head(r.files)])
      [] r.pc = "data" -> AwaitsData(r, r.size)
      [] r.pc = "done" -> Client("end", 0, 0, 0)
      [] r.pc \notin {"child", "file", "open", "data", "done"} ->
           IF r.kind = "single" THEN Client("files", 0, 0, 0) ELSE Reader

ClientInv == SingleInv /\ (Clear => client = Awaited(req))

IInv == DiskInv /\ HandlerInv /\ out \in Seq(Fields) /\ NameInv /\ ClientInv

-----------------------------------------------------------------------------
(* What a listing of a set of numbers is: a sequence of them. *)
LEMMA ListingSeq ==
    ASSUME NEW n \in Nat, NEW S, S \subseteq 1..n, NEW s \in Listings(S)
    PROVE  s \in Seq(1..n)
<1>1. IsFiniteSet(1..n)
  BY FS_Interval
<1>2. IsFiniteSet(S)
  BY <1>1, FS_Subset
<1>3. PICK k \in Nat : k = Cardinality(S)
  BY <1>2, FS_CardinalityType
<1>4. s \in [1..k -> 1..n]
  BY <1>3 DEF Listings
<1> QED
  BY <1>4

(* Every step of the handler leaves its indices valid; the deletion does not *)
(* touch them.                                                               *)
LEMMA HandlerNext == ASSUME IInv, [ServeNext]_vars PROVE HandlerInv'
<1>0. DiskInv /\ HandlerInv
  BY DEF IInv
<1>1. CASE ServeMetadata
  <2>1. PICK children \in Listings(listed) :
          req' = [NoRequest EXCEPT !.pc = "name", !.kind = "list", !.list = children]
    BY <1>1 DEF ServeMetadata, Moves
  <2>2. children \in Seq(Folders)
    BY <1>0, ListingSeq, ServeAssumption DEF DiskInv, Folders
  <2> QED
    BY <2>1, <2>2 DEF HandlerInv, RequestInv, Slots, Steps, NoRequest
<1>2. CASE GetFolderInfo
  BY <1>0, <1>2 DEF GetFolderInfo, NoRequest, Moves, HandlerInv, RequestInv, Slots, Steps
<1>3. CASE ErrorResponse
  BY <1>0, <1>3 DEF ErrorResponse, NoRequest, Moves, HandlerInv, RequestInv, Slots, Steps
<1>4. CASE GetFolderName
  BY <1>0, <1>4 DEF GetFolderName, NoRequest, Moves, HandlerInv, RequestInv, Slots, Steps
<1>5. CASE IsLeaf
  <2>1. req.pc \in {"stat", "leaf"}
        /\ \/ req' = [req EXCEPT !.pc = "leaf"] \/ req' = [req EXCEPT !.pc = "readdir"]
           \/ req' = [req EXCEPT !.pc = "error"] \/ req' = NextInfo(req)
    BY <1>5 DEF IsLeaf, AfterIsLeaf, Moves
  <2>2. CASE req' = NextInfo(req)
    BY <1>0, <2>1, <2>2 DEF NextInfo, HandlerInv, RequestInv, Slots, Steps
  <2>3. CASE req' # NextInfo(req)
    BY <1>0, <2>1, <2>3 DEF HandlerInv, RequestInv, Slots, Steps
  <2> QED
    BY <2>2, <2>3
<1>6. CASE ReadDir
  <2>1. PICK names \in Listings(meta[Child]) :
          LET child == [id |-> Child, named |-> req.name, files |-> names]
              r == [req EXCEPT !.children = Append(@, child)]
          IN  req' = IF req.kind = "list" THEN NextInfo(r) ELSE [r EXCEPT !.pc = "stat"]
    BY <1>6 DEF ReadDir, Moves
  <2>2. req.pc = "readdir" /\ Child \in Folders
    BY <1>0, <1>6 DEF ReadDir, Child, HandlerInv, RequestInv, Slots
  <2>3. names \in Seq(Files)
    <3>1. Len(FileSizes) \in Nat /\ meta[Child] \subseteq 1..Len(FileSizes)
      BY <1>0, <2>2, ServeAssumption DEF DiskInv, Files
    <3> QED
      BY <3>1, ListingSeq DEF Files
  <2>4. [id |-> Child, named |-> req.name, files |-> names] \in Children
    BY <1>0, <2>2, <2>3 DEF Children, HandlerInv, RequestInv, Slots
  <2> DEFINE cs == Append(req.children, [id |-> Child, named |-> req.name, files |-> names])
  <2>5. cs \in Seq(Children)
    BY <1>0, <2>4 DEF HandlerInv, RequestInv, Slots
  <2>6. req' = IF req.kind = "list" THEN [req EXCEPT !.children = cs, !.i = req.i + 1, !.pc = "name"]
               ELSE [req EXCEPT !.children = cs, !.pc = "stat"]
    BY <1>0, <2>1 DEF NextInfo, HandlerInv, RequestInv, Slots
  <2> HIDE DEF cs
  <2> QED
    BY <1>0, <2>2, <2>5, <2>6 DEF HandlerInv, RequestInv, Slots, Steps
<1>7. CASE WriteCount
  BY <1>0, <1>7 DEF WriteCount, NoRequest, Moves, HandlerInv, RequestInv, Slots, Steps
<1>8. CASE WriteChild
  <2>1. req.i \in 1..Len(req.children) /\ req.children \in Seq(Children)
    BY <1>0, <1>8 DEF WriteChild, HandlerInv, RequestInv, Slots
  <2>2. req.children[req.i] \in Children
    BY <2>1
  <2>3. req.children[req.i].files \in Seq(Files)
    BY <2>2 DEF Children
  <2> QED
    BY <1>0, <1>8, <2>1, <2>3 DEF WriteChild, Moves, HandlerInv, RequestInv, Slots, Steps
<1>9. CASE WriteDone
  BY <1>0, <1>9 DEF WriteDone, NoRequest, Moves, HandlerInv, RequestInv, Slots, Steps
<1>10. CASE FilesDone
  BY <1>0, <1>10 DEF FilesDone, NextChild, NoRequest, Moves, HandlerInv, RequestInv, Slots, Steps
<1>11. CASE WriteFileHead
  <2>1. req.pc = "file" /\ req.files # <<>>
        /\ (req' = [req EXCEPT !.pc = "open"] \/ req' = NextChild(req))
    BY <1>11 DEF WriteFileHead, Moves
  <2>2. CASE req' = [req EXCEPT !.pc = "open"]
    BY <1>0, <2>1, <2>2 DEF HandlerInv, RequestInv, Slots, Steps
  <2>3. CASE req' = NextChild(req)
    BY <1>0, <2>1, <2>3 DEF NextChild, HandlerInv, RequestInv, Slots, Steps
  <2> QED
    BY <2>1, <2>2, <2>3
<1>12. CASE OpenFile
  <2>1. FileSizes[Head(req.files)] \in Nat
    <3>1. req.files \in Seq(Files) /\ req.files # <<>>
      BY <1>0, <1>12 DEF OpenFile, HandlerInv, RequestInv
    <3>2. Head(req.files) \in 1..Len(FileSizes)
      BY <3>1 DEF Files
    <3> QED
      BY <3>2, ServeAssumption
  <2> QED
    BY <1>0, <1>12, <2>1 DEF OpenFile, NextChild, Moves, HandlerInv, RequestInv, Slots, Steps
<1>13. CASE WriteFile
  <2>1. req.pc = "data" /\ req.size \in Nat /\ req.files \in Seq(Files) /\ req.files # <<>>
    BY <1>0, <1>13 DEF WriteFile, HandlerInv, RequestInv, Slots
  <2>2. Tail(req.files) \in Seq(Files)
    BY <2>1
  <2> DEFINE n == IF req.size < Buffer THEN req.size ELSE Buffer
  <2>3. req.size - n \in Nat
    BY <2>1, ServeAssumption
  <2>4. \/ req' = [req EXCEPT !.size = req.size - n]
        \/ req' = [req EXCEPT !.pc = "file", !.files = Tail(req.files), !.size = 0]
    BY <1>0, <1>13 DEF WriteFile, NextFile, Moves, HandlerInv, RequestInv, Slots
  <2> HIDE DEF n
  <2>5. CASE req' = [req EXCEPT !.size = req.size - n]
    BY <1>0, <2>1, <2>3, <2>5 DEF HandlerInv, RequestInv, Slots, Steps
  <2>6. CASE req' = [req EXCEPT !.pc = "file", !.files = Tail(req.files), !.size = 0]
    BY <1>0, <2>1, <2>2, <2>6 DEF HandlerInv, RequestInv, Slots, Steps
  <2> QED
    BY <2>4, <2>5, <2>6
<1>14. CASE ReadFails
  <2>1. req.files \in Seq(Files) /\ req.files # <<>> /\ req.pc = "data"
    BY <1>0, <1>14 DEF ReadFails, HandlerInv, RequestInv, Slots
  <2>2. Tail(req.files) \in Seq(Files)
    BY <2>1
  <2> QED
    BY <1>0, <1>14, <2>1, <2>2 DEF ReadFails, NextFile, Moves, HandlerInv, RequestInv, Slots, Steps
<1>15. CASE Disconnect
  BY <1>0, <1>15 DEF Disconnect, NoRequest, Moves, HandlerInv, RequestInv, Slots, Steps
<1>16. ASSUME NEW f \in Folders, ServeSingleMetadata(f) PROVE HandlerInv'
  BY <1>0, <1>16 DEF ServeSingleMetadata, NoRequest, Moves, HandlerInv, RequestInv, Slots, Steps
<1>17. CASE \/ UNCHANGED vars
            \/ \E f \in Folders, how \in {"top", "sub"} : Doom(f, how)
            \/ \E f \in Folders : RemoveAll(f)
            \/ \E f \in Folders : DropEntry(f)
            \/ \E f \in Folders : DropName(f)
  <2>1. req' = req
    BY <1>17 DEF vars, diskVars, Moves, Doom, RemoveAll, DropEntry, DropName
  <2> QED
    BY <1>0, <2>1 DEF HandlerInv, RequestInv
<1> QED
  BY <1>1, <1>2, <1>3, <1>4, <1>5, <1>6, <1>7, <1>8, <1>9, <1>10, <1>11, <1>12, <1>13, <1>14,
       <1>15, <1>16, <1>17 DEF ServeNext, Handler

(* The deletion keeps the store a store of the folders it started with. *)
LEMMA DiskNext == ASSUME IInv, [ServeNext]_vars PROVE DiskInv'
<1>0. DiskInv
  BY DEF IInv
<1>1. CASE UNCHANGED diskVars /\ faults' = faults
  BY <1>0, <1>1 DEF DiskInv, diskVars
<1>2. CASE UNCHANGED diskVars /\ faults < MaxFaults /\ faults' = faults + 1
  BY <1>0, <1>2, ServeAssumption DEF DiskInv, diskVars
<1>3. ASSUME NEW f \in Folders, NEW how \in {"top", "sub"}, Doom(f, how) PROVE DiskInv'
  BY <1>0, <1>3 DEF DiskInv, Doom
<1>4. ASSUME NEW f \in Folders, RemoveAll(f) PROVE DiskInv'
  BY <1>0, <1>4 DEF DiskInv, RemoveAll
<1>5. ASSUME NEW f \in Folders, DropEntry(f) \/ DropName(f) PROVE DiskInv'
  BY <1>0, <1>5 DEF DiskInv, DropEntry, DropName
<1>6. CASE ServeMetadata \/ Handler \/ \E f \in Folders : ServeSingleMetadata(f)
  BY <1>1, <1>6 DEF Handler, Moves, ServeMetadata, GetFolderInfo, ErrorResponse, GetFolderName,
       IsLeaf, ReadDir, WriteCount, WriteChild, WriteDone, FilesDone, WriteFileHead, OpenFile,
       WriteFile, ServeSingleMetadata
<1>7. CASE ReadFails \/ Disconnect
  BY <1>2, <1>7 DEF ReadFails, Disconnect, Moves
<1>8. CASE UNCHANGED vars
  BY <1>1, <1>8 DEF vars
<1> QED
  BY <1>3, <1>4, <1>5, <1>6, <1>7, <1>8 DEF ServeNext

(* What is appended to a reply keeps it a sequence of fields. *)
LEMMA EmitType ==
    ASSUME NEW fields \in Seq(Fields), out \in Seq(Fields), Emit(fields)
    PROVE  out' \in Seq(Fields)
  BY DEF Emit

(* A type of the list and a number make a field. *)
LEMMA FieldType ==
    ASSUME NEW type \in {"count", "id", "hasChildren", "size", "files", "name", "length", "error"},
           NEW v \in Nat
    PROVE  Field(type, v) \in Fields
  BY DEF Field, Fields

(* Every step appends fields to the reply, or leaves it as it is. *)
LEMMA OutNext == ASSUME IInv, [ServeNext]_vars PROVE out' \in Seq(Fields)
<1>0. HandlerInv /\ out \in Seq(Fields)
  BY DEF IInv
<1>1. CASE ErrorResponse
  <2>1. <<Field("error", 0)>> \in Seq(Fields)
    BY FieldType
  <2> QED
    BY <1>0, <1>1, <2>1, EmitType DEF ErrorResponse
<1>2. CASE WriteCount
  <2>1. Len(req.children) \in Nat
    BY <1>0 DEF HandlerInv, RequestInv
  <2>2. <<Field("count", Len(req.children))>> \in Seq(Fields) /\ <<>> \in Seq(Fields)
    BY <2>1, FieldType
  <2> QED
    BY <1>0, <1>2, <2>2, EmitType DEF WriteCount
<1>3. CASE WriteChild
  <2> DEFINE c == req.children[req.i]
             number == Field("files", Len(c.files))
             head == <<Field("id", c.id), Field("hasChildren", 0), Field("size", 0), number>>
  <2>1. req.i \in 1..Len(req.children) /\ req.children \in Seq(Children)
    BY <1>0, <1>3 DEF WriteChild, HandlerInv, RequestInv
  <2>2. c \in Children
    BY <2>1
  <2>3. c.id \in Nat /\ Len(c.files) \in Nat
    BY SMTT(30), <2>2, ServeAssumption DEF Children, Folders
  <2>4. Field("id", c.id) \in Fields /\ Field("hasChildren", 0) \in Fields
        /\ Field("size", 0) \in Fields /\ number \in Fields
    BY <2>3, FieldType
  <2>5. head \in Seq(Fields) /\ <<number>> \in Seq(Fields)
    <3> HIDE DEF number
    <3> QED
      BY <2>4
  <2>6. Emit(head) \/ Emit(<<number>>)
    BY <1>3 DEF WriteChild
  <2> QED
    BY <1>0, <2>5, <2>6, EmitType
<1>4. CASE WriteFileHead
  <2> DEFINE m == Head(req.files)
  <2>1. m \in Files
    BY <1>0, <1>4 DEF WriteFileHead, HandlerInv, RequestInv
  <2>2. m \in Nat /\ FileSizes[m] \in Nat
    BY <2>1, ServeAssumption DEF Files
  <2>3. Field("name", m) \in Fields /\ Field("length", FileSizes[m]) \in Fields
    BY <2>2, FieldType
  <2>4. <<Field("name", m)>> \in Seq(Fields)
        /\ <<Field("name", m), Field("length", FileSizes[m])>> \in Seq(Fields)
    BY <2>3
  <2> QED
    BY <1>0, <1>4, <2>4, EmitType DEF WriteFileHead
<1>5. CASE WriteFile
  <2> DEFINE n == IF req.size < Buffer THEN req.size ELSE Buffer
             m == Head(req.files)
  <2>1. n \in Nat /\ m \in Files
    BY <1>0, <1>5, ServeAssumption DEF WriteFile, HandlerInv, RequestInv
  <2>2. Data(m, n) \in Fields
    BY <2>1 DEF Data, Fields
  <2>3. <<Data(m, n)>> \in Seq(Fields)
    BY <2>2
  <2> QED
    BY <1>0, <1>5, <2>3, EmitType DEF WriteFile
<1>6. ASSUME NEW f \in Folders, ServeSingleMetadata(f) PROVE out' \in Seq(Fields)
  <2>1. <<Field("size", 0)>> \in Seq(Fields)
    BY FieldType
  <2> QED
    BY <1>0, <1>6, <2>1, EmitType DEF ServeSingleMetadata
<1>7. CASE UNCHANGED out
  BY <1>0, <1>7
<1>8. CASE UNCHANGED vars \/ ServeMetadata \/ GetFolderInfo \/ GetFolderName \/ IsLeaf \/ ReadDir
           \/ WriteDone \/ FilesDone \/ OpenFile \/ ReadFails \/ Disconnect
  BY <1>7, <1>8 DEF vars, ServeMetadata, GetFolderInfo, GetFolderName, IsLeaf, ReadDir, WriteDone,
       FilesDone, OpenFile, ReadFails, Disconnect
<1>9. ASSUME NEW f \in Folders, NEW how \in {"top", "sub"},
             Doom(f, how) \/ RemoveAll(f) \/ DropEntry(f) \/ DropName(f)
      PROVE  out' \in Seq(Fields)
  BY <1>7, <1>9 DEF Doom, RemoveAll, DropEntry, DropName
<1> QED
  BY <1>1, <1>2, <1>3, <1>4, <1>5, <1>6, <1>8, <1>9 DEF ServeNext, Handler

(* What the client makes of the fields of one step. *)
LEMMA FollowNone == ASSUME NEW c PROVE Follow(c, <<>>) = c
  BY DEF Follow

(* One field. *)
LEMMA FollowOne == ASSUME NEW c, NEW x PROVE Follow(c, <<x>>) = Read(c, x)
  BY DEF Follow

(* Two fields. *)
LEMMA FollowTwo ==
    ASSUME NEW c, NEW x, NEW y
    PROVE  Follow(c, <<x, y>>) = Read(Read(c, x), y)
  BY DEF Follow

(* Four fields. *)
LEMMA FollowFour ==
    ASSUME NEW c, NEW w, NEW x, NEW y, NEW z
    PROVE  Follow(c, <<w, x, y, z>>) = Read(Read(Read(Read(c, w), x), y), z)
  BY DEF Follow

(* What each field tells a client. *)

(* The number of children. *)
LEMMA TakeCount ==
    ASSUME NEW c, NEW x, c.state = "start", x.type = "count"
    PROVE  Read(c, x) = Then(x.v, 0)
<1>1. Fits(c, x)
  BY DEF Fits
<1>2. Accept(c, x) = Then(x.v, 0)
  BY DEF Accept
<1> QED
  BY <1>1, <1>2 DEF Read

(* The folder size at the start of /metadata. *)
LEMMA TakeFirstSize ==
    ASSUME NEW c, NEW x, c.state = "start", x.type = "size"
    PROVE  Read(c, x) = Client("files", c.children, 0, 0)
<1>1. Fits(c, x)
  BY DEF Fits
<1>2. Accept(c, x) = Client("files", c.children, 0, 0)
  BY DEF Accept
<1> QED
  BY <1>1, <1>2 DEF Read

(* A child's name. *)
LEMMA TakeId ==
    ASSUME NEW c, NEW x, c.state = "id", x.type = "id"
    PROVE  Read(c, x) = Client("hasChildren", c.children - 1, 0, 0)
<1>1. Fits(c, x)
  BY DEF Fits
<1>2. Accept(c, x) = Client("hasChildren", c.children - 1, 0, 0)
  BY DEF Accept
<1> QED
  BY <1>1, <1>2 DEF Read

(* Whether it has children. *)
LEMMA TakeHasChildren ==
    ASSUME NEW c, NEW x, c.state = "hasChildren", x.type = "hasChildren"
    PROVE  Read(c, x) = Client("size", c.children, 0, 0)
<1>1. Fits(c, x)
  BY DEF Fits
<1>2. Accept(c, x) = Client("size", c.children, 0, 0)
  BY DEF Accept
<1> QED
  BY <1>1, <1>2 DEF Read

(* Its size. *)
LEMMA TakeSize ==
    ASSUME NEW c, NEW x, c.state = "size", x.type = "size"
    PROVE  Read(c, x) = Client("files", c.children, 0, 0)
<1>1. Fits(c, x)
  BY DEF Fits
<1>2. Accept(c, x) = Client("files", c.children, 0, 0)
  BY DEF Accept
<1> QED
  BY <1>1, <1>2 DEF Read

(* The number of its files. *)
LEMMA TakeFiles ==
    ASSUME NEW c, NEW x, c.state = "files", x.type = "files"
    PROVE  Read(c, x) = Then(c.children, x.v)
<1>1. Fits(c, x)
  BY DEF Fits
<1>2. Accept(c, x) = Then(c.children, x.v)
  BY DEF Accept
<1> QED
  BY <1>1, <1>2 DEF Read

(* A file's name. *)
LEMMA TakeName ==
    ASSUME NEW c, NEW x, c.state = "name", x.type = "name"
    PROVE  Read(c, x) = Client("length", c.children, c.files - 1, 0)
<1>1. Fits(c, x)
  BY DEF Fits
<1>2. Accept(c, x) = Client("length", c.children, c.files - 1, 0)
  BY DEF Accept
<1> QED
  BY <1>1, <1>2 DEF Read

(* A file's length. *)
LEMMA TakeLength ==
    ASSUME NEW c, NEW x, c.state = "length", x.type = "length"
    PROVE  Read(c, x) = IF x.v = 0 THEN Then(c.children, c.files)
                        ELSE Client("data", c.children, c.files, x.v)
<1>1. Fits(c, x)
  BY DEF Fits
<1>2. Accept(c, x) = IF x.v = 0 THEN Then(c.children, c.files) ELSE Client("data", c.children, c.files, x.v)
  BY DEF Accept
<1> QED
  BY <1>1, <1>2 DEF Read

(* The last of its data. *)
LEMMA TakeLast ==
    ASSUME NEW c, NEW x, c.state = "data", x.type = "data",
           x.v \in Nat, x.v = c.units
    PROVE  Read(c, x) = Then(c.children, c.files)
<1>1. Fits(c, x)
  BY DEF Fits
<1>2. Accept(c, x) = Then(c.children, c.files)
  BY DEF Accept
<1> QED
  BY <1>1, <1>2 DEF Read

(* Data before the last. *)
LEMMA TakeData ==
    ASSUME NEW c, NEW x, c.state = "data", x.type = "data",
           x.v \in Nat, c.units \in Nat, x.v < c.units
    PROVE  Read(c, x) = Client("data", c.children, c.files, c.units - x.v)
<1>1. Fits(c, x)
  BY DEF Fits
<1>2. Accept(c, x) = Client("data", c.children, c.files, c.units - x.v)
  BY DEF Accept
<1> QED
  BY <1>1, <1>2 DEF Read

(* The number of children is the first field of /list/files. *)
LEMMA ReadCount == ASSUME NEW n PROVE Read(Reader, Field("count", n)) = Then(n, 0)
<1> DEFINE x == Field("count", n)
<1>1. Reader.state = "start" /\ x.type = "count" /\ x.v = n
  BY DEF Reader, Client, Field
<1> HIDE DEF x
<1>2. Read(Reader, x) = Then(n, 0)
  BY <1>1, TakeCount
<1> QED
  BY <1>2 DEF x

(* The folder size is the first field of /metadata. *)
LEMMA ReadSize == ASSUME NEW n PROVE Read(Reader, Field("size", n)) = Client("files", 0, 0, 0)
<1> DEFINE x == Field("size", n)
<1>1. Reader.state = "start" /\ Reader.children = 0 /\ x.type = "size"
  BY DEF Reader, Client, Field
<1> HIDE DEF x
<1>2. Read(Reader, x) = Client("files", 0, 0, 0)
  BY <1>1, TakeFirstSize
<1> QED
  BY <1>2 DEF x

(* The number of files is the next. *)
LEMMA ReadFiles ==
    ASSUME NEW n, NEW k
    PROVE  Read(Client("files", n, 0, 0), Field("files", k)) = Then(n, k)
<1> DEFINE c == Client("files", n, 0, 0)
           x == Field("files", k)
<1>1. c.state = "files" /\ c.children = n /\ x.type = "files" /\ x.v = k
  BY DEF Client, Field
<1> HIDE DEF c, x
<1>2. Read(c, x) = Then(n, k)
  BY <1>1, TakeFiles
<1> QED
  BY <1>2 DEF c, x

(* The head of a child and the number of its files. *)
LEMMA ReadHead ==
    ASSUME NEW n, NEW k, NEW id
    PROVE  Read(Read(Read(Read(Client("id", n, 0, 0), Field("id", id)),
                          Field("hasChildren", 0)), Field("size", 0)), Field("files", k))
             = Then(n - 1, k)
<1> DEFINE c1 == Client("id", n, 0, 0)
           c2 == Client("hasChildren", n - 1, 0, 0)
           c3 == Client("size", n - 1, 0, 0)
           c4 == Client("files", n - 1, 0, 0)
           x1 == Field("id", id)
           x2 == Field("hasChildren", 0)
           x3 == Field("size", 0)
<1>1. /\ c1.state = "id" /\ c1.children = n
      /\ c2.state = "hasChildren" /\ c2.children = n - 1
      /\ c3.state = "size" /\ c3.children = n - 1
  BY DEF Client
<1>2. x1.type = "id" /\ x2.type = "hasChildren" /\ x3.type = "size"
  BY DEF Field
<1>3. Read(c4, Field("files", k)) = Then(n - 1, k)
  BY ReadFiles
<1> HIDE DEF x1, x2, x3
<1>4. Read(c1, x1) = c2
  <2> HIDE DEF c1
  <2> QED
    BY <1>1, <1>2, TakeId
<1>5. Read(c2, x2) = c3
  <2> HIDE DEF c2
  <2> QED
    BY <1>1, <1>2, TakeHasChildren
<1>6. Read(c3, x3) = c4
  <2> HIDE DEF c3
  <2> QED
    BY <1>1, <1>2, TakeSize
<1> HIDE DEF c2, c3, c4
<1> QED
  BY <1>3, <1>4, <1>5, <1>6 DEF x1, x2, x3

(* Name and length of a file. *)
LEMMA ReadFileHead ==
    ASSUME NEW n, NEW k, NEW m, NEW size
    PROVE  Read(Read(Client("name", n, k, 0), Field("name", m)), Field("length", size))
             = IF size = 0 THEN Then(n, k - 1) ELSE Client("data", n, k - 1, size)
<1> DEFINE c1 == Client("name", n, k, 0)
           c2 == Client("length", n, k - 1, 0)
           x1 == Field("name", m)
           x2 == Field("length", size)
<1>1. /\ c1.state = "name" /\ c1.children = n /\ c1.files = k
      /\ c2.state = "length" /\ c2.children = n /\ c2.files = k - 1
  BY DEF Client
<1>2. x1.type = "name" /\ x2.type = "length" /\ x2.v = size
  BY DEF Field
<1> HIDE DEF x1, x2
<1>3. Read(c1, x1) = c2
  <2> HIDE DEF c1
  <2> QED
    BY <1>1, <1>2, TakeName
<1> HIDE DEF c2
<1>4. Read(c2, x2) = IF size = 0 THEN Then(n, k - 1) ELSE Client("data", n, k - 1, size)
  BY <1>1, <1>2, TakeLength
<1> QED
  BY <1>3, <1>4 DEF x1, x2

(* A buffer of a file's data. *)
LEMMA ReadData ==
    ASSUME NEW n, NEW k, NEW m, NEW size \in Nat, NEW part \in 1..size
    PROVE  Read(Client("data", n, k, size), Data(m, part))
             = IF size - part = 0 THEN Then(n, k) ELSE Client("data", n, k, size - part)
<1> DEFINE c == Client("data", n, k, size)
           x == Data(m, part)
<1>1. /\ c.state = "data" /\ c.children = n /\ c.files = k /\ c.units = size
      /\ x.type = "data" /\ x.v = part
  BY DEF Client, Data
<1> HIDE DEF c, x
<1>2. CASE part = size
  <2>1. Read(c, x) = Then(n, k)
    BY <1>1, <1>2, TakeLast
  <2> QED
    BY <1>2, <2>1 DEF c, x
<1>3. CASE part < size
  <2>1. Read(c, x) = Client("data", n, k, size - part)
    BY <1>1, <1>3, TakeData
  <2> QED
    BY <1>3, <2>1 DEF c, x
<1> QED
  BY <1>2, <1>3

(* A folder loses its name only without an entry, and the handler asks for   *)
(* the name before the entry.                                                *)
LEMMA NameNext == ASSUME IInv, [ServeNext]_vars PROVE NameInv'
<1>0. DiskInv /\ HandlerInv /\ NameInv
  BY DEF IInv
(* Steps that leave the handler outside the three calls keep NameInv. *)
<1>1. ASSUME entry' = entry, named' = named, req'.children = req.children,
             req'.pc \notin {"stat", "leaf", "readdir"}
      PROVE  NameInv'
  BY <1>0, <1>1 DEF NameInv, ServedNamed
<1>2. CASE ErrorResponse \/ WriteCount \/ WriteChild \/ WriteDone \/ FilesDone \/ WriteFileHead
           \/ OpenFile \/ WriteFile \/ ReadFails \/ Disconnect
  <2>1. entry' = entry /\ named' = named
    BY <1>2 DEF ErrorResponse, WriteCount, WriteChild, WriteDone, FilesDone, WriteFileHead,
         OpenFile, WriteFile, ReadFails, Disconnect, Moves, diskVars
  <2>2. ASSUME ErrorResponse PROVE req'.children = req.children /\ req'.pc \notin {"stat", "leaf", "readdir"}
    BY <1>0, <2>2 DEF ErrorResponse, NextChild, NextFile, Moves, HandlerInv, RequestInv, Slots
  <2>3. ASSUME WriteCount PROVE req'.children = req.children /\ req'.pc \notin {"stat", "leaf", "readdir"}
    BY <1>0, <2>3 DEF WriteCount, NextChild, NextFile, Moves, HandlerInv, RequestInv, Slots
  <2>4. ASSUME WriteChild PROVE req'.children = req.children /\ req'.pc \notin {"stat", "leaf", "readdir"}
    BY <1>0, <2>4 DEF WriteChild, NextChild, NextFile, Moves, HandlerInv, RequestInv, Slots
  <2>5. ASSUME WriteDone PROVE req'.children = req.children /\ req'.pc \notin {"stat", "leaf", "readdir"}
    BY <1>0, <2>5 DEF WriteDone, NextChild, NextFile, Moves, HandlerInv, RequestInv, Slots
  <2>6. ASSUME FilesDone PROVE req'.children = req.children /\ req'.pc \notin {"stat", "leaf", "readdir"}
    BY <1>0, <2>6 DEF FilesDone, NextChild, NextFile, Moves, HandlerInv, RequestInv, Slots
  <2>7. ASSUME WriteFileHead PROVE req'.children = req.children /\ req'.pc \notin {"stat", "leaf", "readdir"}
    BY <1>0, <2>7 DEF WriteFileHead, NextChild, NextFile, Moves, HandlerInv, RequestInv, Slots
  <2>8. ASSUME OpenFile PROVE req'.children = req.children /\ req'.pc \notin {"stat", "leaf", "readdir"}
    BY <1>0, <2>8 DEF OpenFile, NextChild, NextFile, Moves, HandlerInv, RequestInv, Slots
  <2>9. ASSUME WriteFile PROVE req'.children = req.children /\ req'.pc \notin {"stat", "leaf", "readdir"}
    BY <1>0, <2>9 DEF WriteFile, NextChild, NextFile, Moves, HandlerInv, RequestInv, Slots
  <2>10. ASSUME ReadFails PROVE req'.children = req.children /\ req'.pc \notin {"stat", "leaf", "readdir"}
    BY <1>0, <2>10 DEF ReadFails, NextChild, NextFile, Moves, HandlerInv, RequestInv, Slots
  <2>11. ASSUME Disconnect PROVE req'.children = req.children /\ req'.pc \notin {"stat", "leaf", "readdir"}
    BY <1>0, <2>11 DEF Disconnect, NextChild, NextFile, Moves, HandlerInv, RequestInv, Slots
  <2> QED
    BY <1>1, <1>2, <2>1, <2>2, <2>3, <2>4, <2>5, <2>6, <2>7, <2>8, <2>9, <2>10, <2>11
<1>3. CASE ServeMetadata
  <2>1. PICK children \in Listings(listed) :
          req' = [NoRequest EXCEPT !.pc = "name", !.kind = "list", !.list = children]
    BY <1>3 DEF ServeMetadata, Moves
  <2>2. req'.children = <<>> /\ req'.pc = "name"
    BY <2>1 DEF NoRequest
  <2>3. entry' = entry /\ named' = named
    BY <1>3 DEF ServeMetadata, Moves, diskVars
  <2> QED
    BY <1>0, <2>2, <2>3 DEF NameInv, ServedNamed
<1>4. ASSUME NEW f \in Folders, ServeSingleMetadata(f) PROVE NameInv'
  <2>1. req'.children = <<>> /\ req'.pc = "lookup"
    BY <1>4 DEF ServeSingleMetadata, NoRequest, Moves
  <2>2. entry' = entry /\ named' = named
    BY <1>4 DEF ServeSingleMetadata, Moves, diskVars
  <2> QED
    BY <1>0, <2>1, <2>2 DEF NameInv, ServedNamed
<1>5. CASE GetFolderInfo
  <2>1. req'.children = req.children /\ req'.pc \in {"readdir", "error"} /\ req'.name
    BY <1>0, <1>5 DEF GetFolderInfo, Moves, HandlerInv, RequestInv, Slots
  <2>2. entry' = entry /\ named' = named
    BY <1>5 DEF GetFolderInfo, Moves, diskVars
  <2> QED
    BY <1>0, <2>1, <2>2 DEF NameInv, ServedNamed
<1>6. CASE GetFolderName
  <2>1. /\ req'.children = req.children /\ req'.pc = "stat" /\ req'.name = (Child \in named)
        /\ req'.list = req.list /\ req'.i = req.i
    BY <1>0, <1>6 DEF GetFolderName, Moves, HandlerInv, RequestInv, Slots
  <2>2. entry' = entry /\ named' = named
    BY <1>6 DEF GetFolderName, Moves, diskVars
  <2> QED
    BY <1>0, <2>1, <2>2 DEF NameInv, ServedNamed, Child
<1>7. CASE IsLeaf
  <2>1. entry' = entry /\ named' = named
    BY <1>7 DEF IsLeaf, Moves, diskVars
  <2>2. CASE req' = NextInfo(req)
    <3>1. req'.children = req.children /\ req'.pc = "name"
      BY <1>0, <2>2 DEF NextInfo, HandlerInv, RequestInv, Slots
    <3> QED
      BY <1>1, <2>1, <3>1
  <2>3. CASE req' = [req EXCEPT !.pc = "error"]
    <3>1. req'.children = req.children /\ req'.pc = "error"
      BY <1>0, <2>3 DEF HandlerInv, RequestInv, Slots
    <3> QED
      BY <1>1, <2>1, <3>1
  <2>4. CASE req.pc = "stat" /\ req' = [req EXCEPT !.pc = "leaf"]
    <3>1. /\ req'.children = req.children /\ req'.pc = "leaf" /\ req'.name = req.name
          /\ req'.list = req.list /\ req'.i = req.i
      BY <1>0, <2>4 DEF HandlerInv, RequestInv, Slots
    <3> QED
      BY <1>0, <2>1, <2>4, <3>1 DEF NameInv, ServedNamed, Child
  (* The entry was there, so the name was found. *)
  <2>5. CASE req.pc = "leaf" /\ Child \in entry /\ req' = [req EXCEPT !.pc = "readdir"]
    <3>1. req'.children = req.children /\ req'.pc = "readdir" /\ req'.name = req.name
      BY <1>0, <2>5 DEF HandlerInv, RequestInv, Slots
    <3>2. req.name
      BY <1>0, <2>5 DEF NameInv
    <3> QED
      BY <1>0, <2>1, <3>1, <3>2 DEF NameInv, ServedNamed
  <2> QED
    BY <1>7, <2>2, <2>3, <2>4, <2>5 DEF IsLeaf, AfterIsLeaf, Moves
<1>8. CASE ReadDir
  <2>1. PICK names \in Listings(meta[Child]) :
          LET child == [id |-> Child, named |-> req.name, files |-> names]
              r == [req EXCEPT !.children = Append(@, child)]
          IN  req' = IF req.kind = "list" THEN NextInfo(r) ELSE [r EXCEPT !.pc = "stat"]
    BY <1>8 DEF ReadDir, Moves
  <2> DEFINE child == [id |-> Child, named |-> req.name, files |-> names]
  <2>2. req.name /\ child.named
    BY <1>0, <1>8 DEF NameInv, ReadDir
  <2>3. req'.children = Append(req.children, child) /\ req'.pc \in {"name", "stat"} /\ req'.name = req.name
    <3>1. CASE req.kind = "list"
      BY <1>0, <2>1, <3>1 DEF NextInfo, HandlerInv, RequestInv, Slots
    <3>2. CASE req.kind # "list"
      BY <1>0, <2>1, <3>2 DEF HandlerInv, RequestInv, Slots
    <3> QED
      BY <3>1, <3>2
  <2>4. req.children \in Seq(Children)
    BY <1>0 DEF HandlerInv, RequestInv
  <2>5. \A i \in 1..Len(req'.children) : req'.children[i].named
    <3> HIDE DEF child
    <3> QED
      BY <1>0, <2>2, <2>3, <2>4 DEF NameInv, ServedNamed
  <2>6. entry' = entry /\ named' = named
    BY <1>8 DEF ReadDir, Moves, diskVars
  <2> QED
    BY <1>0, <2>2, <2>3, <2>5, <2>6 DEF NameInv, ServedNamed
<1>9. CASE UNCHANGED vars
  BY <1>0, <1>9 DEF vars, diskVars, NameInv, ServedNamed, Child
<1>10. ASSUME NEW f \in Folders, NEW how \in {"top", "sub"}, Doom(f, how) \/ RemoveAll(f)
       PROVE  NameInv'
  BY <1>0, <1>10 DEF Doom, RemoveAll, NameInv, ServedNamed, Child
<1>11. ASSUME NEW f \in Folders, DropEntry(f) PROVE NameInv'
  BY <1>0, <1>11 DEF DropEntry, NameInv, ServedNamed, Child
(* The name goes after the entry. *)
<1>12. ASSUME NEW f \in Folders, DropName(f) PROVE NameInv'
  BY <1>0, <1>12 DEF DropName, NameInv, ServedNamed, Child
<1> QED
  BY <1>2, <1>3, <1>4, <1>5, <1>6, <1>7, <1>8, <1>9, <1>10, <1>11, <1>12 DEF ServeNext, Handler

(* /metadata goes through its one folder in one order. *)
LEMMA SingleNext == ASSUME IInv, [ServeNext]_vars PROVE SingleInv'
<1>0. HandlerInv /\ SingleInv
  BY DEF IInv, ClientInv
<1>1. CASE ServeMetadata
  <2>1. req'.pc = "name" /\ req'.kind = "list"
    BY <1>1 DEF ServeMetadata, Moves, NoRequest
  <2> QED
    BY <2>1 DEF SingleInv
<1>2. CASE GetFolderInfo
  BY <1>0, <1>2 DEF GetFolderInfo, Moves, HandlerInv, RequestInv, Slots, SingleInv
<1>3. CASE ErrorResponse
  BY <1>0, <1>3 DEF ErrorResponse, Moves, HandlerInv, RequestInv, Slots, SingleInv
<1>4. CASE GetFolderName
  <2>1. req.pc = "name" /\ req.i <= Len(req.list) /\ req'.pc = "stat" /\ req'.kind = req.kind
    BY <1>0, <1>4 DEF GetFolderName, Moves, HandlerInv, RequestInv, Slots
  <2>2. req.kind = "list"
    <3>1. ASSUME req.kind = "single" PROVE FALSE
      <4>1. req.i = 2 /\ Len(req.list) = 1
        BY <1>0, <2>1, <3>1 DEF SingleInv
      <4> QED
        BY <2>1, <4>1
    <3> QED
      BY <1>0, <2>1, <3>1 DEF SingleInv
  <2> QED
    BY <2>1, <2>2 DEF SingleInv
<1>5. CASE IsLeaf
  <2>1. CASE req' = NextInfo(req) /\ (req.pc = "leaf" \/ req.kind # "single")
    BY <1>0, <1>5, <2>1 DEF IsLeaf, NextInfo, HandlerInv, RequestInv, Slots, SingleInv
  <2>2. CASE req' = [req EXCEPT !.pc = "leaf"] \/ req' = [req EXCEPT !.pc = "error"]
    BY <1>0, <1>5, <2>2 DEF IsLeaf, HandlerInv, RequestInv, Slots, SingleInv
  <2>3. CASE req' = [req EXCEPT !.pc = "readdir"] /\ req.kind = "list"
    BY <1>0, <2>3 DEF HandlerInv, RequestInv, Slots, SingleInv
  <2> QED
    BY <1>5, <2>1, <2>2, <2>3 DEF IsLeaf, AfterIsLeaf, Moves
<1>6. CASE ReadDir
  <2>1. PICK names \in Listings(meta[Child]) :
          LET child == [id |-> Child, named |-> req.name, files |-> names]
              r == [req EXCEPT !.children = Append(@, child)]
          IN  req' = IF req.kind = "list" THEN NextInfo(r) ELSE [r EXCEPT !.pc = "stat"]
    BY <1>6 DEF ReadDir, Moves
  <2> DEFINE child == [id |-> Child, named |-> req.name, files |-> names]
  <2>2. req.pc = "readdir" /\ req.children \in Seq(Children)
    BY <1>0, <1>6 DEF ReadDir, HandlerInv, RequestInv
  <2>3. CASE req.kind = "list"
    <3>1. req'.pc = "name" /\ req'.kind = "list"
      BY <1>0, <2>1, <2>3 DEF NextInfo, HandlerInv, RequestInv, Slots
    <3> QED
      BY <3>1 DEF SingleInv
  <2>4. CASE req.kind = "single"
    <3>1. /\ req'.pc = "stat" /\ req'.kind = "single" /\ req'.list = req.list /\ req'.i = req.i
          /\ req'.children = Append(req.children, child)
      BY <1>0, <2>1, <2>4 DEF HandlerInv, RequestInv, Slots
    <3>2. req.children = <<>> /\ req.i = 1 /\ Len(req.list) = 1
      BY <1>0, <2>2, <2>4 DEF SingleInv
    <3>3. Len(req'.children) = 1
      <4> HIDE DEF child
      <4> QED
        BY <3>1, <3>2
    <3> QED
      BY <3>1, <3>2, <3>3 DEF SingleInv
  <2> QED
    BY <1>0, <2>2, <2>3, <2>4 DEF SingleInv
<1>7. CASE WriteCount
  BY <1>0, <1>7 DEF WriteCount, Moves, HandlerInv, RequestInv, Slots, SingleInv
<1>8. CASE WriteChild \/ WriteDone
  BY <1>0, <1>8 DEF WriteChild, WriteDone, Moves, HandlerInv, RequestInv, Slots, SingleInv
<1>9. CASE FilesDone
  BY <1>0, <1>9 DEF FilesDone, NextChild, Moves, HandlerInv, RequestInv, Slots, SingleInv
<1>10. CASE WriteFileHead \/ OpenFile
  <2>1. req.pc \in {"file", "open"}
        /\ \/ req' = [req EXCEPT !.pc = "open"] \/ req' = NextChild(req)
           \/ req' = [req EXCEPT !.pc = "data", !.size = FileSizes[Head(req.files)]]
    BY <1>10 DEF WriteFileHead, OpenFile, Moves
  <2>2. req'.pc \in {"child", "open", "data"} /\ req'.kind = req.kind /\ req'.list = req.list
        /\ req'.children = req.children
    BY <1>0, <2>1 DEF NextChild, HandlerInv, RequestInv, Slots
  <2> QED
    BY <1>0, <2>1, <2>2 DEF SingleInv
<1>11. CASE WriteFile \/ ReadFails
  <2>1. req.pc = "data" /\ req'.pc \in {"file", "data"} /\ req'.kind = req.kind
        /\ req'.list = req.list /\ req'.children = req.children
    BY <1>0, <1>11 DEF WriteFile, ReadFails, NextFile, Moves, HandlerInv, RequestInv, Slots
  <2> QED
    BY <1>0, <2>1 DEF SingleInv
<1>12. CASE Disconnect
  BY <1>0, <1>12 DEF Disconnect, Moves, HandlerInv, RequestInv, Slots, SingleInv
<1>13. ASSUME NEW f \in Folders, ServeSingleMetadata(f) PROVE SingleInv'
  BY <1>13 DEF ServeSingleMetadata, Moves, NoRequest, SingleInv
<1>14. CASE \/ UNCHANGED vars
            \/ \E f \in Folders, how \in {"top", "sub"} : Doom(f, how)
            \/ \E f \in Folders : RemoveAll(f) \/ DropEntry(f) \/ DropName(f)
  <2>1. req' = req
    BY <1>14 DEF vars, diskVars, Doom, RemoveAll, DropEntry, DropName
  <2> QED
    BY <1>0, <2>1 DEF SingleInv
<1> QED
  BY <1>1, <1>2, <1>3, <1>4, <1>5, <1>6, <1>7, <1>8, <1>9, <1>10, <1>11, <1>12, <1>13, <1>14
  DEF ServeNext, Handler

(* What was clear after more was written was clear before. *)
LEMMA ClearBefore ==
    ASSUME NEW fields \in Seq(Fields), out \in Seq(Fields), Emit(fields), lost' = lost, Clear'
    PROVE  Clear /\ \A i \in 1..Len(fields) : fields[i].type # "error"
<1>1. out' = out \o fields
  BY DEF Emit
<1>2. ASSUME NEW i \in 1..Len(out) PROVE out[i].type # "error"
  <2>1. i \in 1..Len(out') /\ out'[i] = out[i]
    BY <1>1
  <2> QED
    BY <2>1 DEF Clear
<1>3. ASSUME NEW i \in 1..Len(fields) PROVE fields[i].type # "error"
  <2>1. Len(out) + i \in 1..Len(out') /\ out'[Len(out) + i] = fields[i]
    BY <1>1
  <2> QED
    BY <2>1 DEF Clear
<1> QED
  BY <1>2, <1>3 DEF Clear

(* What is awaited in each phase of a handler. *)
LEMMA AwaitedParts ==
    ASSUME NEW r
    PROVE  /\ r.pc = "child" => Awaited(r) = IF r.i > Len(r.children) THEN Client("end", 0, 0, 0)
                                             ELSE IF r.kind = "list" THEN Client("id", Rest(r) + 1, 0, 0)
                                             ELSE Client("files", 0, 0, 0)
           /\ r.pc = "file" => Awaited(r) = Then(Rest(r), Len(r.files))
           /\ r.pc = "open" => Awaited(r) = AwaitsData(r, FileSizes[Head(r.files)])
           /\ r.pc = "data" => Awaited(r) = AwaitsData(r, r.size)
           /\ r.pc = "done" => Awaited(r) = Client("end", 0, 0, 0)
           /\ r.pc \in Steps \ {"child", "file", "open", "data", "done"} =>
                Awaited(r) = IF r.kind = "single" THEN Client("files", 0, 0, 0) ELSE Reader
<1>1. r.pc = "child" => Awaited(r) = IF r.i > Len(r.children) THEN Client("end", 0, 0, 0)
                                     ELSE IF r.kind = "list" THEN Client("id", Rest(r) + 1, 0, 0)
                                     ELSE Client("files", 0, 0, 0)
  BY DEF Awaited
<1>2. r.pc = "file" => Awaited(r) = Then(Rest(r), Len(r.files))
  BY DEF Awaited
<1>3. r.pc = "open" => Awaited(r) = AwaitsData(r, FileSizes[Head(r.files)])
  BY DEF Awaited
<1>4. r.pc = "data" => Awaited(r) = AwaitsData(r, r.size)
  BY DEF Awaited
<1>5. r.pc = "done" => Awaited(r) = Client("end", 0, 0, 0)
  BY DEF Awaited
<1>6. r.pc \in Steps \ {"child", "file", "open", "data", "done"} =>
        Awaited(r) = IF r.kind = "single" THEN Client("files", 0, 0, 0) ELSE Reader
  BY DEF Awaited
<1> QED
  BY <1>1, <1>2, <1>3, <1>4, <1>5, <1>6

(* After the last file the client awaits the next child, or nothing. *)
LEMMA AfterFiles ==
    ASSUME NEW r, NEW s, r.kind \in {"list", "single"}, r.i \in Nat, Len(r.children) \in Nat,
           r.i <= Len(r.children), r.kind = "single" => Len(r.children) = 1 /\ r.i # 0,
           s.pc = "child", s.kind = r.kind, s.children = r.children, s.i = r.i + 1
    PROVE  Then(Rest(r), 0) = Awaited(s)
<1>1. Awaited(s) = IF s.i > Len(s.children) THEN Client("end", 0, 0, 0)
                   ELSE IF s.kind = "list" THEN Client("id", Rest(s) + 1, 0, 0)
                   ELSE Client("files", 0, 0, 0)
  BY AwaitedParts
<1>2. CASE r.kind = "single"
  <2>1. Awaited(s) = Client("end", 0, 0, 0)
    <3>1. r.i = 1 /\ Len(s.children) = 1
      <4>1. Len(r.children) = 1 /\ r.i # 0
        BY <1>2
      <4>2. r.i = 1
        BY <4>1
      <4> QED
        BY <4>1, <4>2
    <3>2. s.i > Len(s.children)
      BY <3>1
    <3> QED
      BY <1>1, <3>2
  <2>2. Rest(r) = 0
    BY <1>2 DEF Rest
  <2>3. Then(0, 0) = Client("end", 0, 0, 0)
    BY DEF Then
  <2> QED
    BY <2>1, <2>2, <2>3
<1>3. CASE r.kind = "list"
  <2>1. Rest(r) = Len(r.children) - r.i /\ Rest(s) = Len(r.children) - (r.i + 1)
    BY <1>3 DEF Rest
  <2>2. Then(Rest(r), 0) = Client(IF Rest(r) > 0 THEN "id" ELSE "end", Rest(r), 0, 0)
    BY DEF Then
  <2>3. CASE Rest(r) = 0
    BY <1>1, <2>1, <2>2, <2>3
  <2>4. CASE Rest(r) # 0
    BY <1>1, <1>3, <2>1, <2>2, <2>4
  <2> QED
    BY <2>3, <2>4
<1> QED
  BY <1>2, <1>3

(* Every write is what the client awaits. *)
LEMMA ClientNext ==
    ASSUME IInv, [ServeNext]_vars, Clear'
    PROVE  client' = Awaited(req)'
<1>0. /\ HandlerInv /\ SingleInv /\ (Clear => client = Awaited(req)) /\ out \in Seq(Fields)
      /\ req.pc \in Steps /\ DOMAIN req = Slots
  BY DEF IInv, ClientInv, HandlerInv, RequestInv
<1>1. CASE UNCHANGED <<out, client, lost>>
           /\ req.pc \in Steps \ {"child", "file", "open", "data", "done"}
           /\ req'.pc \in Steps \ {"child", "file", "open", "data", "done"}
           /\ (req'.kind = "single" <=> req.kind = "single")
  <2>1. Clear
    BY <1>1 DEF Clear
  <2>2. Awaited(req') = Awaited(req)
    BY <1>1, AwaitedParts
  <2> QED
    BY <1>0, <1>1, <2>1, <2>2
<1>2. CASE ServeMetadata
  <2>1. req'.pc = "name" /\ req'.kind = "list" /\ req.pc = "idle"
    BY <1>2 DEF ServeMetadata, Moves, NoRequest
  <2>2. Awaited(req') = Reader
    BY <2>1, AwaitedParts DEF Steps
  <2>3. client' = client /\ Clear
    BY <1>2 DEF ServeMetadata, Clear
  <2>4. req.kind # "single"
    BY <1>0, <2>1 DEF SingleInv
  <2>5. Awaited(req) = Reader
    BY <2>1, <2>4, AwaitedParts DEF Steps
  <2> QED
    BY <1>0, <2>2, <2>3, <2>5
<1>3. ASSUME NEW f \in Folders, ServeSingleMetadata(f) PROVE client' = Awaited(req)'
  <2>1. req'.pc = "lookup" /\ req'.kind = "single" /\ req.pc = "idle"
    BY <1>3 DEF ServeSingleMetadata, Moves, NoRequest
  <2>2. Awaited(req') = Client("files", 0, 0, 0)
    BY <2>1, AwaitedParts DEF Steps
  <2>3. <<Field("size", 0)>> \in Seq(Fields)
    BY FieldType
  <2>4. Clear
    BY <1>0, <1>3, <2>3, ClearBefore DEF ServeSingleMetadata
  <2>5. Awaited(req) = Reader
    BY <1>0, <2>1, AwaitedParts DEF Steps, SingleInv
  <2>6. client' = Read(client, Field("size", 0))
    BY <1>3, FollowOne DEF ServeSingleMetadata, Emit
  <2> QED
    BY <1>0, <2>2, <2>4, <2>5, <2>6, ReadSize
<1>4. CASE GetFolderInfo
  BY <1>0, <1>1, <1>4 DEF GetFolderInfo, Moves, Slots, Steps
<1>5. CASE ErrorResponse
  <2>1. <<Field("error", 0)>> \in Seq(Fields)
    BY FieldType
  <2>2. \A i \in 1..Len(<<Field("error", 0)>>) : <<Field("error", 0)>>[i].type # "error"
    BY <1>0, <1>5, <2>1, ClearBefore DEF ErrorResponse
  <2> QED
    BY <2>2 DEF Field
<1>6. CASE GetFolderName
  BY <1>0, <1>1, <1>6 DEF GetFolderName, Moves, Slots, Steps
<1>7. CASE IsLeaf
  <2>1. req.pc \in {"stat", "leaf"}
        /\ \/ req' = [req EXCEPT !.pc = "leaf"] \/ req' = [req EXCEPT !.pc = "readdir"]
           \/ req' = [req EXCEPT !.pc = "error"] \/ req' = NextInfo(req)
    BY <1>7 DEF IsLeaf, AfterIsLeaf, Moves
  <2>2. req'.kind = req.kind /\ req'.pc \in {"leaf", "readdir", "error", "name"}
    BY <1>0, <2>1 DEF NextInfo, Slots
  <2> QED
    BY <1>1, <1>7, <2>1, <2>2 DEF IsLeaf, Steps
<1>8. CASE ReadDir
  <2>1. req.pc = "readdir" /\ req'.kind = req.kind /\ req'.pc \in {"name", "stat"}
    BY <1>0, <1>8 DEF ReadDir, Moves, NextInfo, Slots
  <2> QED
    BY <1>1, <1>8, <2>1 DEF ReadDir, Steps
<1>9. CASE WriteCount
  <2>1. /\ req.pc = "name" /\ req'.pc = "child" /\ req'.i = 1 /\ req'.kind = req.kind
        /\ req'.children = req.children
    BY <1>0, <1>9 DEF WriteCount, Moves, Slots
  <2>2. Len(req.children) \in Nat
    BY <1>0 DEF HandlerInv, RequestInv
  <2>3. CASE req.kind = "list"
    <3>1. <<Field("count", Len(req.children))>> \in Seq(Fields)
      BY <2>2, FieldType
    <3>2. Emit(<<Field("count", Len(req.children))>>) /\ lost' = lost
      BY <1>9, <2>3 DEF WriteCount
    <3>3. Clear
      BY <1>0, <3>1, <3>2, ClearBefore
    <3>4. client = Reader
      BY <1>0, <2>1, <2>3, <3>3, AwaitedParts DEF Steps
    <3>5. client' = Then(Len(req.children), 0)
      BY <3>2, <3>4, FollowOne, ReadCount DEF Emit
    <3>6. Awaited(req') = IF 1 > Len(req.children) THEN Client("end", 0, 0, 0)
                          ELSE Client("id", Rest(req') + 1, 0, 0)
      BY <2>1, <2>3, AwaitedParts
    <3>7. Rest(req') = Len(req.children) - 1
      BY <2>1, <2>3 DEF Rest
    <3>8. CASE Len(req.children) = 0
      BY <3>5, <3>6, <3>8 DEF Then
    <3>9. CASE Len(req.children) # 0
      BY <2>2, <3>5, <3>6, <3>7, <3>9 DEF Then
    <3> QED
      BY <3>8, <3>9
  <2>4. CASE req.kind = "single"
    <3>1. Emit(<<>>) /\ lost' = lost /\ <<>> \in Seq(Fields)
      BY <1>9, <2>4 DEF WriteCount
    <3>2. Clear
      BY <1>0, <3>1, ClearBefore
    <3>3. client = Client("files", 0, 0, 0)
      BY <1>0, <2>1, <2>4, <3>2, AwaitedParts DEF Steps
    <3>4. client' = client
      BY <3>1, FollowNone DEF Emit
    <3>5. Len(req'.children) = 1
      BY <1>0, <2>1, <2>4 DEF SingleInv
    <3> QED
      BY <2>1, <2>4, <3>3, <3>4, <3>5, AwaitedParts
  <2> QED
    BY <1>0, <2>1, <2>3, <2>4 DEF SingleInv
<1>10. CASE WriteChild
  <2> DEFINE c == req.children[req.i]
             number == Field("files", Len(c.files))
             head == <<Field("id", c.id), Field("hasChildren", 0), Field("size", 0), number>>
  <2>1. /\ req.pc = "child" /\ req'.pc = "file" /\ req'.i = req.i /\ req'.kind = req.kind
        /\ req'.children = req.children /\ req'.files = c.files
        /\ req.i \in 1..Len(req.children) /\ req.children \in Seq(Children)
    BY <1>0, <1>10 DEF WriteChild, Moves, Slots, HandlerInv, RequestInv
  <2>2. c \in Children
    BY <2>1
  <2>3. c.id \in Nat /\ Len(c.files) \in Nat
    BY <2>2, ServeAssumption DEF Children, Folders
  <2>4. Field("id", c.id) \in Fields /\ Field("hasChildren", 0) \in Fields
        /\ Field("size", 0) \in Fields /\ number \in Fields
    BY <2>3, FieldType
  <2>5. head \in Seq(Fields) /\ <<number>> \in Seq(Fields)
    <3> HIDE DEF number
    <3> QED
      BY <2>4
  <2>6. Awaited(req') = Then(Rest(req), Len(c.files))
    <3>1. Awaited(req') = Then(Rest(req'), Len(req'.files))
      BY <2>1, AwaitedParts
    <3>2. Rest(req') = Rest(req)
      BY <2>1 DEF Rest
    <3> QED
      BY <2>1, <3>1, <3>2
  <2>7. CASE req.kind = "list"
    <3>1. Emit(head) /\ lost' = lost
      BY <1>10, <2>7 DEF WriteChild
    <3>2. Clear
      BY <1>0, <2>5, <3>1, ClearBefore
    <3>3. client = Client("id", Rest(req) + 1, 0, 0)
      BY <1>0, <2>1, <2>7, <3>2, AwaitedParts
    <3>4. client' = Read(Read(Read(Read(client, Field("id", c.id)), Field("hasChildren", 0)),
                                   Field("size", 0)), number)
      <4>1. client' = Follow(client, head)
        BY <3>1 DEF Emit
      <4> HIDE DEF number
      <4> QED
        BY <4>1, FollowFour
    <3>5. client' = Then((Rest(req) + 1) - 1, Len(c.files))
      BY <3>3, <3>4, ReadHead
    <3>6. (Rest(req) + 1) - 1 = Rest(req)
      BY <2>1, <2>7 DEF Rest
    <3> QED
      BY <2>6, <3>5, <3>6
  <2>8. CASE req.kind = "single"
    <3>1. Emit(<<number>>) /\ lost' = lost
      BY <1>10, <2>8 DEF WriteChild
    <3>2. Clear
      BY <1>0, <2>5, <3>1, ClearBefore
    <3>3. client = Client("files", 0, 0, 0) /\ Rest(req) = 0
      BY <1>0, <2>1, <2>8, <3>2, AwaitedParts DEF Rest
    <3>4. client' = Read(client, number)
      <4> HIDE DEF number
      <4> QED
        BY <3>1, FollowOne DEF Emit
    <3> QED
      BY <2>6, <3>3, <3>4, ReadFiles
  <2> QED
    BY <1>0, <2>1, <2>7, <2>8 DEF SingleInv
<1>11. CASE WriteDone
  <2>1. req.pc = "child" /\ req'.pc = "done" /\ req.i > Len(req.children)
    BY <1>0, <1>11 DEF WriteDone, Moves, Slots
  <2>2. Clear /\ client' = client
    BY <1>11 DEF WriteDone, Clear
  <2> QED
    BY <1>0, <2>1, <2>2, AwaitedParts
<1>12. CASE FilesDone
  <2>1. /\ req.pc = "file" /\ req.files = <<>> /\ req'.pc = "child" /\ req'.i = req.i + 1
        /\ req'.kind = req.kind /\ req'.children = req.children
    BY <1>0, <1>12 DEF FilesDone, NextChild, Moves, Slots
  <2>2. Clear /\ client' = client
    BY <1>12 DEF FilesDone, Clear
  <2>3. client = Then(Rest(req), 0)
    BY <1>0, <2>1, <2>2, AwaitedParts
  <2>4. /\ req.i \in Nat \ {0} /\ Len(req.children) \in Nat /\ req.i <= Len(req.children)
        /\ req.kind \in {"list", "single"} /\ (req.kind = "single" => Len(req.children) = 1)
    BY <1>0, <2>1 DEF HandlerInv, RequestInv, SingleInv
  <2> QED
    BY <2>1, <2>2, <2>3, <2>4, AfterFiles
<1>13. CASE WriteFileHead
  <2> DEFINE m == Head(req.files)
  <2>1. req.pc = "file" /\ req.files \in Seq(Files) /\ req.files # <<>> /\ m \in Files
        /\ Len(req.files) \in Nat \ {0}
    BY <1>0, <1>13 DEF WriteFileHead, HandlerInv, RequestInv
  <2>2. m \in Nat /\ FileSizes[m] \in Nat
    BY <2>1, ServeAssumption DEF Files
  <2>3. <<Field("name", m), Field("length", FileSizes[m])>> \in Seq(Fields)
    <3>1. Field("name", m) \in Fields /\ Field("length", FileSizes[m]) \in Fields
      BY <2>2, FieldType
    <3> QED
      BY <3>1
  <2>4. ~lost'
    BY DEF Clear
  <2>5. /\ Emit(<<Field("name", m), Field("length", FileSizes[m])>>) /\ lost' = lost
        /\ req' = [req EXCEPT !.pc = "open"]
    BY <1>13, <2>4 DEF WriteFileHead, Moves
  <2>6. Clear
    BY <1>0, <2>3, <2>5, ClearBefore
  <2>7. /\ req'.pc = "open" /\ req'.i = req.i /\ req'.kind = req.kind
        /\ req'.children = req.children /\ req'.files = req.files
    BY <1>0, <2>5 DEF Slots
  <2>8. client = Client("name", Rest(req), Len(req.files), 0)
    BY <1>0, <2>1, <2>6, AwaitedParts DEF Then
  <2>9. client' = Read(Read(client, Field("name", m)), Field("length", FileSizes[m]))
    BY <2>5, FollowTwo DEF Emit
  <2>10. Rest(req') = Rest(req)
    BY <2>7 DEF Rest
  <2>11. Awaited(req') = AwaitsData(req', FileSizes[m])
    BY <2>7, AwaitedParts
  <2> QED
    BY <2>7, <2>8, <2>9, <2>10, <2>11, ReadFileHead DEF AwaitsData
<1>14. CASE OpenFile
  <2>1. req.pc = "open" /\ There
    BY <1>14 DEF OpenFile, Clear
  <2>2. Clear /\ client' = client
    BY <1>14 DEF OpenFile, Clear
  <2>3. /\ req'.pc = "data" /\ req'.i = req.i /\ req'.kind = req.kind /\ req'.children = req.children
        /\ req'.files = req.files /\ req'.size = FileSizes[Head(req.files)]
    BY <1>0, <1>14, <2>1 DEF OpenFile, Moves, Slots
  <2>4. Rest(req') = Rest(req)
    BY <2>3 DEF Rest
  <2>5. Awaited(req') = AwaitsData(req', req'.size) /\ Awaited(req) = AwaitsData(req, req'.size)
    BY <2>1, <2>3, AwaitedParts
  <2> QED
    BY <1>0, <2>2, <2>3, <2>4, <2>5 DEF AwaitsData
<1>15. CASE WriteFile
  <2> DEFINE n == IF req.size < Buffer THEN req.size ELSE Buffer
             m == Head(req.files)
  <2>1. /\ req.pc = "data" /\ req.size \in Nat /\ req.files \in Seq(Files) /\ req.files # <<>>
        /\ m \in Files
    BY <1>0, <1>15 DEF WriteFile, HandlerInv, RequestInv
  <2>2. CASE req.size > 0
    <3>1. n \in 1..req.size
      BY <2>1, <2>2, ServeAssumption
    <3>2. Emit(<<Data(m, n)>>) /\ lost' = lost /\ req' = [req EXCEPT !.size = req.size - n]
      BY <1>15, <2>2 DEF WriteFile, Moves
    <3>3. Data(m, n) \in Fields
      BY <2>1, <3>1 DEF Data, Fields
    <3> HIDE DEF n
    <3>4. <<Data(m, n)>> \in Seq(Fields)
      BY <3>3
    <3>5. Clear
      BY <1>0, <3>2, <3>4, ClearBefore
    <3>6. client = Client("data", Rest(req), Len(req.files) - 1, req.size)
      BY <1>0, <2>1, <2>2, <3>5, AwaitedParts DEF AwaitsData
    <3>7. client' = Read(client, Data(m, n))
      BY <3>2, FollowOne DEF Emit
    <3>8. client' = IF req.size - n = 0 THEN Then(Rest(req), Len(req.files) - 1)
                    ELSE Client("data", Rest(req), Len(req.files) - 1, req.size - n)
      BY <2>1, <3>1, <3>6, <3>7, ReadData
    <3>9. /\ req'.pc = "data" /\ req'.i = req.i /\ req'.kind = req.kind /\ req'.files = req.files
          /\ req'.children = req.children /\ req'.size = req.size - n
      BY <1>0, <2>1, <3>2 DEF Slots
    <3>10. Rest(req') = Rest(req)
      BY <3>9 DEF Rest
    <3>11. Awaited(req') = AwaitsData(req', req'.size)
      BY <3>9, AwaitedParts
    <3> QED
      BY <3>8, <3>9, <3>10, <3>11 DEF AwaitsData
  <2>3. CASE req.size = 0
    <3>1. Clear /\ client' = client /\ req' = NextFile(req)
      BY <1>15, <2>3 DEF WriteFile, Moves, Clear
    <3>2. /\ req'.pc = "file" /\ req'.i = req.i /\ req'.kind = req.kind
          /\ req'.children = req.children /\ req'.files = Tail(req.files)
      BY <1>0, <3>1 DEF NextFile, Slots
    <3>3. Len(req'.files) = Len(req.files) - 1 /\ Rest(req') = Rest(req)
      BY <2>1, <3>2 DEF Rest
    <3>4. client = Then(Rest(req), Len(req.files) - 1)
      BY <1>0, <2>1, <2>3, <3>1, AwaitedParts DEF AwaitsData
    <3> QED
      BY <3>1, <3>2, <3>3, <3>4, AwaitedParts
  <2> QED
    BY <2>1, <2>2, <2>3
<1>16. CASE ReadFails \/ Disconnect
  BY <1>16 DEF ReadFails, Disconnect, Clear
<1>17. CASE \/ UNCHANGED vars
            \/ \E f \in Folders, how \in {"top", "sub"} : Doom(f, how)
            \/ \E f \in Folders : RemoveAll(f) \/ DropEntry(f) \/ DropName(f)
  <2>1. UNCHANGED <<req, out, client, lost>>
    BY <1>17 DEF vars, diskVars, Doom, RemoveAll, DropEntry, DropName
  <2>2. Clear
    BY <2>1 DEF Clear
  <2> QED
    BY <1>0, <2>1, <2>2
<1> QED
  BY <1>2, <1>3, <1>4, <1>5, <1>6, <1>7, <1>8, <1>9, <1>10, <1>11, <1>12, <1>13, <1>14, <1>15,
     <1>16, <1>17 DEF ServeNext, Handler

(* The store is whole and no request is served. *)
LEMMA InitInv == ServeInit => IInv
<1> SUFFICES ASSUME ServeInit PROVE IInv
  OBVIOUS
<1>1. DiskInv
  BY ServeAssumption DEF ServeInit, DiskInv
<1>2. HandlerInv
  BY DEF ServeInit, NoRequest, HandlerInv, RequestInv, Slots, Steps
<1>3. NameInv
  BY DEF ServeInit, NoRequest, NameInv, ServedNamed
<1>4. SingleInv
  BY DEF ServeInit, NoRequest, SingleInv
<1>5. client = Awaited(req)
  <2>1. req.pc = "idle" /\ req.kind = "none" /\ client = Reader
    BY DEF ServeInit, NoRequest
  <2> QED
    BY <2>1, AwaitedParts DEF Steps
<1> QED
  BY <1>1, <1>2, <1>3, <1>4, <1>5 DEF IInv, ClientInv, ServeInit

(* The invariant holds in every state of every behaviour. *)
LEMMA Inductive == ServeSpec => []IInv
<1>1. IInv /\ [ServeNext]_vars => IInv'
  <2> SUFFICES ASSUME IInv, [ServeNext]_vars PROVE IInv'
    OBVIOUS
  <2> QED
    BY DiskNext, HandlerNext, OutNext, NameNext, SingleNext, ClientNext DEF IInv, ClientInv
<1> QED
  BY InitInv, <1>1, PTL DEF ServeSpec

-----------------------------------------------------------------------------
(* Whatever is deleted while a reply is written, the handler's lists hold    *)
(* folders and files of the store, and the reply fields of known types       *)
(* (route_handler.go:113-333).                                               *)
THEOREM ServeTypeCorrect == ServeSpec => []ServeTypeOK
<1>1. IInv => ServeTypeOK
  <2> SUFFICES ASSUME IInv PROVE ServeTypeOK
    OBVIOUS
  <2>1. \A i \in 1..Len(req.children) : req.children[i].id \in Folders
    <3>1. \A i \in 1..Len(req.children) : req.children[i] \in Children
      BY DEF IInv, HandlerInv, RequestInv
    <3> QED
      BY <3>1 DEF Children
  <2> QED
    BY <2>1 DEF IInv, DiskInv, HandlerInv, RequestInv, ServeTypeOK
<1> QED
  BY Inductive, <1>1, PTL

(* No child is served without its name, for any number of folders and any    *)
(* order of their deletions, although getChildrenParser drops the error of   *)
(* GetFolderNameForNode (filesys.go:525).                                    *)
THEOREM ChildrenNamed == ServeSpec => []ServedNamed
<1>1. IInv => ServedNamed
  BY DEF IInv, NameInv
<1> QED
  BY Inductive, <1>1, PTL

(* As long as no file that was announced has gone, every count and length in *)
(* the reply is right, and the reply ends where the client expects it to, for *)
(* any number of folders, any file sizes and any buffer                      *)
(* (route_handler.go:113-333).                                               *)
THEOREM ReplyFramed == ServeSpec => []ReplyDelimited
<1>1. IInv => ReplyDelimited
  <2> SUFFICES ASSUME IInv, Clear
               PROVE  client.state # "confused" /\ (req.pc = "done" => client.state = "end")
    BY DEF ReplyDelimited, Clear
  <2>1. client = Awaited(req) /\ req.pc \in Steps
    BY DEF IInv, ClientInv, HandlerInv, RequestInv
  <2>2. ASSUME NEW state, NEW n, NEW k, NEW u PROVE Client(state, n, k, u).state = state
    BY DEF Client
  <2>3. ASSUME NEW n, NEW k PROVE Then(n, k).state \in {"name", "id", "end"}
    BY DEF Then, Client
  <2>4. ASSUME NEW u PROVE AwaitsData(req, u).state \in {"name", "id", "end", "data"}
    BY <2>2, <2>3 DEF AwaitsData
  <2>5. Reader.state = "start"
    BY <2>2 DEF Reader
  <2>6. CASE req.pc \in {"child", "done"}
    BY <2>1, <2>2, <2>6, AwaitedParts
  <2>7. CASE req.pc = "file"
    BY <2>1, <2>3, <2>7, AwaitedParts
  <2>8. CASE req.pc \in {"open", "data"}
    BY <2>1, <2>4, <2>8, AwaitedParts
  <2>9. CASE req.pc \in Steps \ {"child", "file", "open", "data", "done"}
    BY <2>1, <2>2, <2>5, <2>9, AwaitedParts
  <2> QED
    BY <2>1, <2>6, <2>7, <2>8, <2>9
<1> QED
  BY Inductive, <1>1, PTL
=============================================================================
