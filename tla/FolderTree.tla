----------------------------- MODULE FolderTree -----------------------------
(***************************************************************************)
(* The legacy folder store of the hub (filesys/filesys.go, from line 456)  *)
(* and everything that writes it: the Download and Delete method calls     *)
(* (handle_method_calls.go), the noovo and mstore downloads of a whole     *)
(* hierarchy (satdata_noovo.go, satdata_mstore.go) and the goroutine that  *)
(* deletes expired folders (delete_content.go).                            *)
(*                                                                         *)
(* A folder is a node: an entry of the bolt bucket "Tree" (its parent,     *)
(* then its children), one of "FolderNameMapping", for satellite content   *)
(* one of "SatelliteMapping", and a directory under the home directory.    *)
(* Every bolt transaction and every change of the disk is a step of its    *)
(* own, so that jobs interleave, and the process dies, wherever the code   *)
(* lets them.  A path is a sequence of names; what a folder holds is       *)
(* abstracted to its deadline.txt.                                         *)
(*                                                                         *)
(* The names of a list of children are read in one step although the code  *)
(* reads them one by one: a name is stored before its node is listed, and  *)
(* is never stored again, so the outcome is the one the code has if all    *)
(* are read at the first of its reads (or, on an error, at the last).      *)
(***************************************************************************)
EXTENDS Naturals, Sequences, FiniteSets

CONSTANTS
    MaxWorkers,     \* bound: method calls and pollers running at a time
    Jobs,           \* the jobs that may come, see JobTypes
    MaxNodes,       \* bound: folders created, with a random id each
    MaxJobs,        \* bound: jobs of the workers
    MaxFaults       \* bound: crashes of the process and failed downloads

Home == 0
Nodes == 1..MaxNodes
Workers == 1..MaxWorkers
Reaper == 0     \* the goroutine of deleteContent
Procs == Workers \cup {Reaper}
Paths == {job.path : job \in Jobs}
Names == UNION {{path[i] : i \in 1..Len(path)} : path \in Paths}
NoName == ""

(* A job is a method call (download, addto, delete, recursive) or one        *)
(* content of a poller's list (noovo, mstore); its deadline is that of the   *)
(* folders it creates: one that will have passed when the reaper first reads *)
(* it, or one that lies beyond the run.                                      *)
JobTypes == [kind : {"download", "addto", "noovo", "mstore", "delete", "recursive"},
             path : Seq(STRING) \ {<<>>}, deadline : {"past", "future"}]
IsDelete(job) == job.kind \in {"delete", "recursive"}

ASSUME TreeAssumption ==
    /\ Jobs \subseteq JobTypes
    /\ NoName \notin Names
    /\ MaxWorkers \in Nat /\ MaxNodes \in Nat /\ MaxJobs \in Nat /\ MaxFaults \in Nat

VARIABLES
    tree,       \* bucket Tree: node -> its parent followed by its children
    folderName, \* bucket FolderNameMapping: node -> name
    satellite,  \* bucket SatelliteMapping: node -> hierarchy of the content
    disk,       \* directories below home: node -> what deadline.txt says
    mstore,     \* the hierarchies whose content mstore still holds on disk
    proc,       \* what each goroutine is doing
    next,       \* the next random node id
    jobs, crashes, failures,    \* how many there were so far
    inserted,   \* history: nodes that InsertNode put into the tree
    seen,       \* history: the siblings that each creation saw in its check
    mixed       \* history: a deletion ran beside another job

storeVars == <<tree, folderName, satellite>>
diskVars == <<disk, mstore>>
countVars == <<jobs, crashes, failures, mixed>>
historyVars == <<next, inserted, seen>>
vars == <<storeVars, diskVars, proc, countVars, historyVars>>

-----------------------------------------------------------------------------
(* Partial functions. *)

Put(f, k, v) == [x \in DOMAIN f \cup {k} |-> IF x = k THEN v ELSE f[x]]
Drop(f, k) == [x \in DOMAIN f \ {k} |-> f[x]]

Kids(list) == {list[i] : i \in 2..Len(list)}
Children(list) == IF list = <<>> THEN <<>> ELSE Tail(list)
Front(path) == SubSeq(path, 1, Len(path) - 1)

(* The list without a node, as the only element of a set: the places that    *)
(* stay, in their order.                                                     *)
Without(list, n) ==
    LET left == {i \in 1..Len(list) : list[i] # n}
        K == 1..Cardinality(left)
        Orders == {q \in [K -> left] : /\ \A i, j \in K : i < j => q[i] < q[j]
                                      /\ \A i \in left : \E j \in K : q[j] = i}
    IN  {[j \in K |-> list[q[j]]] : q \in Orders}

(* The nodes that a walk from home over the lists of children meets: those   *)
(* in every set that holds the children of home and of its own members.      *)
Reach(t) ==
    LET walks == {S \in SUBSET Nodes : /\ Kids(t[Home]) \subseteq S
                                      /\ \A n \in S : n \in DOMAIN t => Kids(t[n]) \subseteq S}
    IN  {Home} \cup {n \in Nodes : \A S \in walks : n \in S}
Visible == Reach(tree)

(* What a goroutine holds: its job (kind, the job's hierarchy and deadline), *)
(* the call it makes into filesys (call, path), the place it has reached in  *)
(* that call, and for the reaper the levels of folders still to be looked    *)
(* at, the deepest first.                                                    *)
Idle == [pc |-> "idle", kind |-> "none", full |-> <<>>, deadline |-> "future",
         call |-> "none", path |-> <<>>, at |-> Home, lvl |-> 0, list |-> <<>>,
         node |-> Home, stack |-> <<>>, content |-> <<>>, walk |-> <<>>]

Active(p) == proc[p].pc # "idle"
Deleting(p) == Active(p) /\ proc[p].call \in {"delete", "walk"}
Overlaps(p, deletes) == \E q \in Procs \ {p} : Active(q) /\ (deletes \/ Deleting(q))

(* Enter a function of filesys that starts with getNodeForPath. *)
Call(r, call, path) ==
    [r EXCEPT !.pc = "list", !.call = call, !.path = path, !.at = Home, !.lvl = 0,
              !.list = <<>>, !.node = Home, !.stack = <<>>]

(* getNodeForPath looks the parent up for a creation, else the folder. *)
Goal(r) == IF r.call = "create" THEN Front(r.path) ELSE r.path

CreateNext(r) == Call(r, "create", SubSeq(r.full, 1, Len(r.path) + 1))

(* downloadContent (noovo) and getMstoreFiles_Old go on with the next level  *)
(* of the hierarchy; only the latter compares with the error text that       *)
(* CreateDownloadNewFolder really returns for a folder that exists.          *)
AfterCreate(r, res) ==
    IF /\ Len(r.path) < Len(r.full)
       /\ res = "ok" \/ (res = "exists" /\ r.kind = "mstore")
    THEN CreateNext(r) ELSE Idle

(* traverse: on an error the remaining siblings are skipped, else it goes on *)
(* below the folder it has just checked.                                     *)
AfterCheck(r, res) ==
    IF res = "ok" THEN [Idle EXCEPT !.pc = "descend", !.kind = r.kind, !.full = r.full, !.walk = r.walk]
    ELSE IF Tail(r.walk) = <<>> THEN Idle
    ELSE [Idle EXCEPT !.pc = "check", !.kind = r.kind, !.walk = Tail(r.walk)]

(* RecursiveDeleteFolder: after a deletion look at the parent, and delete it *)
(* too if it has become empty.                                               *)
AfterDelete(r, res) ==
    LET done(x) == IF r.kind = "expiry" THEN AfterCheck(r, x) ELSE Idle
    IN  IF r.kind = "delete" THEN Idle
        ELSE IF r.call = "walk"
             THEN IF res = "empty" THEN Call(r, "delete", r.path) ELSE done(res)
        ELSE IF res = "ok" /\ Len(r.path) > 1 THEN Call(r, "walk", Front(r.path))
        ELSE done(res)

(* The call r is in returns res: what its goroutine does next. *)
Return(r, res) ==
    CASE r.call = "actual" -> IF res = "ok" \/ r.kind = "addto" THEN Idle
                              ELSE CreateNext([r EXCEPT !.path = <<>>])
      [] r.call = "create" -> AfterCreate(r, res)
      [] OTHER -> AfterDelete(r, res)

Becomes(p, r) == proc' = [proc EXCEPT ![p] = r]
Goto(p, pc) == proc' = [proc EXCEPT ![p].pc = pc]

-----------------------------------------------------------------------------
CreateHome ==
    /\ tree = [n \in {Home} |-> <<Home>>]
    /\ folderName = [n \in {Home} |-> "home"]

(* The store after Old_InitFileSystem on an empty device. *)
TreeInit ==
    /\ CreateHome
    /\ satellite = [n \in {} |-> <<>>]
    /\ disk = [n \in {Home} |-> "future"]
    /\ mstore = Paths
    /\ proc = [p \in Procs |-> Idle]
    /\ next = 1
    /\ jobs = 0 /\ crashes = 0 /\ failures = 0
    /\ inserted = {}
    /\ seen = [n \in Nodes |-> {}]
    /\ mixed = FALSE

Levels == [nodes : Seq(Nodes) \ {<<>>}, prefix : Seq(Names \cup {NoName})]

TreeTypeOK ==
    /\ DOMAIN tree \subseteq {Home} \cup Nodes
    /\ \A n \in DOMAIN tree : tree[n] \in Seq({Home} \cup Nodes)
    /\ folderName \in [DOMAIN folderName -> Names \cup {"home"}]
    /\ satellite \in [DOMAIN satellite -> Paths]
    /\ disk \in [DOMAIN disk -> {"none", "past", "future"}]
    /\ DOMAIN folderName \cup DOMAIN satellite \cup DOMAIN disk \subseteq {Home} \cup Nodes
    /\ mstore \subseteq Paths
    /\ \A p \in Procs : /\ proc[p].list \in Seq({Home} \cup Nodes)
                        /\ proc[p].lvl <= Len(proc[p].path)
                        /\ proc[p].walk \in Seq(Levels)
    /\ next \in 1..MaxNodes + 1 /\ inserted \subseteq Nodes
    /\ mixed \in BOOLEAN
    /\ jobs \in 0..MaxJobs /\ crashes + failures \in 0..MaxFaults

-----------------------------------------------------------------------------
(* The jobs. *)

(* The method calls Download and Delete. *)
DownloadCall(r) == Call(r, IF r.kind = "addto" THEN "actual" ELSE "create", r.full)
DeleteCall(r) == Call(r, "delete", r.full)

(* A poller asks first whether the content is there already. *)
SatelliteCall(r) == Call(r, "actual", r.full)

(* A job begins.  Goroutines are interchangeable: it is given the lowest     *)
(* number that is free.                                                      *)
Start(p, job) ==
    LET r == [Idle EXCEPT !.kind = job.kind, !.full = job.path, !.deadline = job.deadline]
    IN  /\ ~Active(p) /\ \A q \in 1..p - 1 : Active(q)
        /\ jobs < MaxJobs
        /\ jobs' = jobs + 1
        /\ Becomes(p, CASE job.kind \in {"download", "addto"} -> DownloadCall(r)
                         [] job.kind \in {"noovo", "mstore"} -> SatelliteCall(r)
                         [] OTHER -> DeleteCall(r))
        /\ mixed' = (mixed \/ Overlaps(p, IsDelete(job)))
        /\ UNCHANGED <<storeVars, diskVars, historyVars, crashes, failures>>

(* deleteContent wakes up: traverse(home). *)
StartReaper ==
    /\ ~Active(Reaper)
    /\ Becomes(Reaper, [Idle EXCEPT !.pc = "descend", !.kind = "expiry"])
    /\ UNCHANGED <<storeVars, diskVars, historyVars, countVars>>

(* The process dies and is started again: the bolt file and the disk stay.   *)
Restart == proc' = [p \in Procs |-> Idle]

Crash ==
    /\ crashes + failures < MaxFaults
    /\ \E p \in Procs : Active(p)
    /\ crashes' = crashes + 1
    /\ Restart
    /\ UNCHANGED <<storeVars, diskVars, historyVars, jobs, failures, mixed>>

-----------------------------------------------------------------------------
(* getNodeForPath, level by level, and what follows it. *)

(* GetChildrenForNode of the node reached. *)
GetChildrenForNode(p) ==
    LET r == proc[p]
    IN  /\ r.pc = "list"
        /\ IF r.at \in DOMAIN tree
           THEN Becomes(p, [r EXCEPT !.pc = "match", !.list = tree[r.at]])
           ELSE Becomes(p, Return(r, "err"))
        /\ UNCHANGED <<storeVars, diskVars, historyVars, countVars>>

(* The first child with the name; a child before it without one is an error. *)
ChildNamed(list, name) ==
    LET Named(i) == list[i] \in DOMAIN folderName /\ folderName[list[i]] = name
        Other(i) == list[i] \in DOMAIN folderName /\ folderName[list[i]] # name
        first == {i \in 2..Len(list) : Named(i) /\ \A j \in 2..i - 1 : Other(j)}
    IN  IF first = {} THEN Home ELSE list[CHOOSE i \in first : TRUE]

(* GetFolderNameForNode of the children: one level of the path is found.     *)
FindChild(p) ==
    LET r == proc[p]
        child == ChildNamed(r.list, Goal(r)[r.lvl + 1])
        found == [r EXCEPT !.at = child, !.lvl = @ + 1, !.list = <<>>]
    IN  /\ r.pc = "match"
        /\ r.lvl < Len(Goal(r))
        /\ Becomes(p, IF child = Home THEN Return(r, "err")
                      ELSE IF r.call = "create" \/ found.lvl < Len(Goal(r))
                           THEN [found EXCEPT !.pc = "list"]
                      ELSE CASE r.call = "actual" -> IF r.kind # "addto" THEN Return(r, "ok")
                                                     ELSE [found EXCEPT !.pc = "addto", !.node = child]
                             [] r.call = "delete" -> [found EXCEPT !.pc = "detach", !.node = child]
                             [] r.call = "walk" -> [found EXCEPT !.pc = "empty"])
        /\ UNCHANGED <<storeVars, diskVars, historyVars, countVars>>

-----------------------------------------------------------------------------
(* CreateDownloadNewFolder. *)

(* Mutant: the name is not looked for among the siblings. *)
CheckSiblingsNot(p) ==
    LET r == proc[p]
    IN  /\ r.pc = "match"
        /\ r.lvl = Len(Goal(r))
        /\ next \in Nodes
        /\ next' = next + 1
        /\ seen' = [seen EXCEPT ![next] = Kids(r.list)]
        /\ Becomes(p, [r EXCEPT !.pc = "mkdir", !.node = next, !.list = <<>>])
        /\ UNCHANGED <<storeVars, diskVars, countVars, inserted>>

(* getChildrenNamesForNode and stringInSlice, then the new random id. *)
CheckSiblings(p) ==
    LET r == proc[p]
        name == r.path[Len(r.path)]
    IN  /\ r.pc = "match"
        /\ r.lvl = Len(Goal(r))
        /\ \/ /\ ~(Kids(r.list) \subseteq DOMAIN folderName)
              /\ Becomes(p, Return(r, "err"))
              /\ UNCHANGED <<next, seen>>
           \/ /\ Kids(r.list) \subseteq DOMAIN folderName
              /\ \E n \in Kids(r.list) : folderName[n] = name
              /\ Becomes(p, Return(r, "exists"))
              /\ UNCHANGED <<next, seen>>
           \/ /\ Kids(r.list) \subseteq DOMAIN folderName
              /\ \A n \in Kids(r.list) : folderName[n] # name
              /\ next \in Nodes
              /\ next' = next + 1
              /\ seen' = [seen EXCEPT ![next] = Kids(r.list)]
              /\ Becomes(p, [r EXCEPT !.pc = "mkdir", !.node = next, !.list = <<>>])
        /\ UNCHANGED <<storeVars, diskVars, countVars, inserted>>

MakeDir(p) ==
    /\ proc[p].pc = "mkdir"
    /\ disk' = Put(disk, proc[p].node, "none")
    /\ Goto(p, "fetch")
    /\ UNCHANGED <<storeVars, mstore, historyVars, countVars>>

(* The last folder of an mstore hierarchy points to the content on disk. *)
IsSatellite(r) == r.kind = "mstore" /\ r.path = r.full

(* generateSatelliteFolderIntegrity cannot hash the files. *)
ContentGone(r) == IsSatellite(r) /\ r.path \notin mstore

(* storeDeadline, the last thing that fills a directory. *)
StoreDeadline(n, deadline) == disk' = Put(disk, n, deadline)

(* Mutant: the error of dfunc does not end the creation. *)
DownloadFilesGoesOn(p) ==
    LET r == proc[p]
    IN  /\ r.pc = "fetch"
        /\ \/ disk' = Put(disk, r.node, r.deadline) /\ UNCHANGED failures
           \/ /\ crashes + failures < MaxFaults
              /\ failures' = failures + 1
              /\ disk' = Drop(disk, r.node)
        /\ Goto(p, "name")
        /\ UNCHANGED <<storeVars, mstore, historyVars, jobs, crashes, mixed>>

(* dfunc: DownloadFiles, copyFiles or generateSatelliteFolderIntegrity fills *)
(* the directory and stores the deadline last, or fails (for satellite       *)
(* content certainly if its files are gone) and the directory is removed.    *)
DownloadFiles(p) ==
    LET r == proc[p]
        gone == ContentGone(r)
    IN  /\ r.pc = "fetch"
        /\ \/ /\ ~gone
              /\ StoreDeadline(r.node, r.deadline)
              /\ Goto(p, "name")
              /\ UNCHANGED failures
           \/ /\ gone \/ crashes + failures < MaxFaults
              /\ failures' = IF gone THEN failures ELSE failures + 1
              /\ disk' = Drop(disk, r.node)
              /\ Becomes(p, Return(r, "err"))
        /\ UNCHANGED <<storeVars, mstore, historyVars, jobs, crashes, mixed>>

(* Download with addtoexisting: the files are fetched into the folder that   *)
(* was found.  Its deadline.txt is kept; but if its directory has been       *)
(* removed since, MkdirAll makes it again, and a failure leaves it so.       *)
AddToExisting(p) ==
    LET r == proc[p]
    IN  /\ r.pc = "addto"
        /\ \/ UNCHANGED <<disk, failures>>
           \/ /\ r.node \notin DOMAIN disk \cup DOMAIN satellite
              /\ \/ StoreDeadline(r.node, r.deadline) /\ UNCHANGED failures
                 \/ /\ crashes + failures < MaxFaults
                    /\ failures' = failures + 1
                    /\ disk' = Put(disk, r.node, "none")
        /\ Becomes(p, Idle)
        /\ UNCHANGED <<storeVars, mstore, historyVars, jobs, crashes, mixed>>

PutFolderName(p) ==
    LET r == proc[p]
    IN  /\ r.pc = "name"
        /\ folderName' = Put(folderName, r.node, r.path[Len(r.path)])
        /\ Goto(p, "insert")
        /\ UNCHANGED <<tree, satellite, diskVars, historyVars, countVars>>

(* One transaction.  If the parent is no longer in the bucket it is rolled   *)
(* back and the folder's name and directory stay behind.                     *)
InsertNode(p) ==
    LET r == proc[p]
    IN  /\ r.pc = "insert"
        /\ \/ /\ r.at \in DOMAIN tree
              /\ tree' = Put(Put(tree, r.node, <<r.at>>), r.at, Append(tree[r.at], r.node))
              /\ inserted' = inserted \cup {r.node}
              /\ Becomes(p, IF IsSatellite(r) THEN [r EXCEPT !.pc = "mark"] ELSE Return(r, "ok"))
           \/ /\ r.at \notin DOMAIN tree
              /\ Becomes(p, Return(r, "err"))
              /\ UNCHANGED <<tree, inserted>>
        /\ UNCHANGED <<folderName, satellite, diskVars, next, seen, countVars>>

(* Mutant: the path of the content is not passed on. *)
MarkFolderSatelliteNoPath(p) ==
    /\ proc[p].pc = "mark"
    /\ satellite' = Put(satellite, proc[p].node, <<>>)
    /\ Becomes(p, Return(proc[p], "ok"))
    /\ UNCHANGED <<tree, folderName, diskVars, historyVars, countVars>>

MarkFolderSatellite(p) ==
    LET r == proc[p]
    IN  /\ r.pc = "mark"
        /\ satellite' = Put(satellite, r.node, r.path)
        /\ Becomes(p, Return(r, "ok"))
        /\ UNCHANGED <<tree, folderName, diskVars, historyVars, countVars>>

-----------------------------------------------------------------------------
(* DeleteFolder. *)

(* Mutant: the loop that copies the list ends at the node. *)
DetachBreaks(p) ==
    LET r == proc[p]
        parent == tree[r.node][1]
        list == tree[parent]
        at == CHOOSE i \in 2..Len(list) + 1 : i = Len(list) + 1 \/ list[i] = r.node
    IN  /\ r.pc = "detach"
        /\ r.node \in DOMAIN tree /\ parent \in DOMAIN tree
        /\ tree' = Put(tree, parent, SubSeq(list, 1, at - 1))
        /\ Goto(p, "rmSat")
        /\ UNCHANGED <<folderName, satellite, diskVars, historyVars, countVars>>

(* The node leaves its parent's list.  b.Get(node)[0:nodeLength] panics if   *)
(* the node is gone by now, which ends the process.  If the parent is gone,  *)
(* an empty entry is stored for it.                                          *)
Detach(p) ==
    LET r == proc[p]
        parent == tree[r.node][1]
        list == IF parent \in DOMAIN tree THEN tree[parent] ELSE <<>>
        present == r.node \in DOMAIN tree /\ tree[r.node] # <<>>
    IN  /\ r.pc = "detach"
        /\ \/ /\ present
              /\ \E rest \in Without(list, r.node) : tree' = Put(tree, parent, rest)
              /\ Goto(p, "rmSat")
           \/ /\ ~present
              /\ Restart
              /\ UNCHANGED tree
        /\ UNCHANGED <<folderName, satellite, diskVars, historyVars, countVars>>

RemoveSatelliteFolder(p) ==
    LET n == proc[p].node
    IN  /\ proc[p].pc = "rmSat"
        /\ mstore' = IF n \in DOMAIN satellite THEN mstore \ {satellite[n]} ELSE mstore
        /\ Goto(p, "rmDir")
        /\ UNCHANGED <<storeVars, disk, historyVars, countVars>>

RemoveFolder(p) ==
    LET r == proc[p]
    IN  /\ r.pc = "rmDir"
        /\ disk' = Drop(disk, r.node)
        /\ Becomes(p, [r EXCEPT !.pc = "enter", !.stack = <<[node |-> r.node, kids |-> <<>>]>>])
        /\ UNCHANGED <<storeVars, mstore, historyVars, countVars>>

-----------------------------------------------------------------------------
(* DeleteNodeSubtree, which calls itself for each child and ignores what     *)
(* these calls return.  The stack holds the nodes it is in.                  *)

(* The top call returns: the caller goes on with its next child. *)
Leave(r, res) ==
    IF Tail(r.stack) = <<>> THEN Return(r, res)
    ELSE [r EXCEPT !.stack = Tail(@), !.pc = "kids"]

EnterSubtree(p) ==
    LET r == proc[p]
        n == r.stack[1].node
    IN  /\ r.pc = "enter"
        /\ Becomes(p, IF n \notin DOMAIN tree THEN Leave(r, "err")
                      ELSE [r EXCEPT !.pc = "kids",
                                     !.stack = <<[node |-> n, kids |-> Children(tree[n])]>> \o Tail(@)])
        /\ UNCHANGED <<storeVars, diskVars, historyVars, countVars>>

(* The next child, or the first transaction once there is none left. *)
NextKid(p) ==
    LET r == proc[p]
        top == r.stack[1]
    IN  /\ r.pc = "kids"
        /\ \/ /\ top.kids # <<>>
              /\ Becomes(p, [r EXCEPT !.pc = "enter",
                   !.stack = <<[node |-> Head(top.kids), kids |-> <<>>],
                               [node |-> top.node, kids |-> Tail(top.kids)]>> \o Tail(r.stack)])
              /\ UNCHANGED tree
           \/ /\ top.kids = <<>>
              /\ tree' = Drop(tree, top.node)
              /\ Goto(p, "unname")
        /\ UNCHANGED <<folderName, satellite, diskVars, historyVars, countVars>>

(* Mutant: the name stays. *)
DeleteFolderNameNot(p) ==
    /\ proc[p].pc = "unname"
    /\ Goto(p, "unmap")
    /\ UNCHANGED <<storeVars, diskVars, historyVars, countVars>>

DeleteFolderName(p) ==
    /\ proc[p].pc = "unname"
    /\ folderName' = Drop(folderName, proc[p].stack[1].node)
    /\ Goto(p, "unmap")
    /\ UNCHANGED <<tree, satellite, diskVars, historyVars, countVars>>

(* The mapping goes first, then the content that it named. *)
DeleteSatelliteMapping(p) ==
    LET r == proc[p]
        n == r.stack[1].node
    IN  /\ r.pc = "unmap"
        /\ \/ /\ n \in DOMAIN satellite
              /\ satellite' = Drop(satellite, n)
              /\ Becomes(p, [r EXCEPT !.pc = "content", !.content = satellite[n]])
           \/ /\ n \notin DOMAIN satellite
              /\ Goto(p, "dir")
              /\ UNCHANGED satellite
        /\ UNCHANGED <<tree, folderName, diskVars, historyVars, countVars>>

RemoveContent(p) ==
    /\ proc[p].pc = "content"
    /\ mstore' = mstore \ {proc[p].content}
    /\ Becomes(p, [proc[p] EXCEPT !.pc = "dir", !.content = <<>>])
    /\ UNCHANGED <<storeVars, disk, historyVars, countVars>>

RemoveSubtreeFolder(p) ==
    /\ proc[p].pc = "dir"
    /\ disk' = Drop(disk, proc[p].stack[1].node)
    /\ Becomes(p, Leave(proc[p], "ok"))
    /\ UNCHANGED <<storeVars, mstore, historyVars, countVars>>

(* RecursiveDeleteFolder looks whether the parent has become empty. *)
CheckEmpty(p) ==
    LET r == proc[p]
    IN  /\ r.pc = "empty"
        /\ Becomes(p, Return(r, IF r.at \notin DOMAIN tree THEN "err"
                                ELSE IF Len(tree[r.at]) = 1 THEN "empty" ELSE "ok"))
        /\ UNCHANGED <<storeVars, diskVars, historyVars, countVars>>

-----------------------------------------------------------------------------
(* traverse and checkDeadlineAndDelete, in the goroutine of deleteContent.   *)

(* The folders of one level, if there are any. *)
Level(prefix, nodes) ==
    IF nodes = <<>> THEN <<>> ELSE <<[nodes |-> nodes, prefix |-> prefix]>>

(* The children of the node just checked (at first: of home) come next, then *)
(* what was left of the levels above.                                        *)
Descend ==
    LET r == proc[Reaper]
        top == r.walk[1]
        n == IF r.walk = <<>> THEN Home ELSE Head(top.nodes)
        below == Level(r.full, IF n \in DOMAIN tree THEN Children(tree[n]) ELSE <<>>)
        todo == below \o (IF r.walk = <<>> THEN <<>>
                          ELSE Level(top.prefix, Tail(top.nodes)) \o Tail(r.walk))
    IN  /\ r.pc = "descend"
        /\ Becomes(Reaper, IF todo = <<>> THEN Idle
                           ELSE [Idle EXCEPT !.kind = "expiry", !.pc = "check", !.walk = todo])
        /\ UNCHANGED <<storeVars, diskVars, historyVars, countVars>>

(* The folder's name (none if it is gone) and its deadline.txt: without one  *)
(* the level is given up, an expired folder is deleted by its path.          *)
CheckDeadline ==
    LET r == proc[Reaper]
        n == Head(r.walk[1].nodes)
        name == IF n \in DOMAIN folderName THEN folderName[n] ELSE NoName
        here == [r EXCEPT !.full = Append(r.walk[1].prefix, name)]
        deadline == IF n \in DOMAIN disk THEN disk[n] ELSE "none"
    IN  /\ r.pc = "check"
        /\ \/ deadline = "none" /\ Becomes(Reaper, AfterCheck(here, "err")) /\ UNCHANGED mixed
           \/ /\ deadline = "past"
              /\ Becomes(Reaper, Call(here, "delete", here.full))
              /\ mixed' = (mixed \/ Overlaps(Reaper, TRUE))
           \/ deadline = "future" /\ Becomes(Reaper, AfterCheck(here, "ok")) /\ UNCHANGED mixed
        /\ UNCHANGED <<storeVars, diskVars, historyVars, jobs, crashes, failures>>

-----------------------------------------------------------------------------
Step(p) ==
    \/ GetChildrenForNode(p) \/ FindChild(p)
    \/ CheckSiblings(p) \/ MakeDir(p) \/ DownloadFiles(p) \/ AddToExisting(p) \/ PutFolderName(p)
    \/ InsertNode(p) \/ MarkFolderSatellite(p)
    \/ Detach(p) \/ RemoveSatelliteFolder(p) \/ RemoveFolder(p)
    \/ EnterSubtree(p) \/ NextKid(p) \/ DeleteFolderName(p)
    \/ DeleteSatelliteMapping(p) \/ RemoveContent(p) \/ RemoveSubtreeFolder(p)
    \/ CheckEmpty(p)

ReaperStep == StartReaper \/ Descend \/ CheckDeadline \/ Step(Reaper)

TreeNext ==
    \/ \E p \in Workers :
         \/ \E job \in Jobs : Start(p, job)
         \/ Step(p)
    \/ ReaperStep
    \/ Crash

TreeSpec == TreeInit /\ [][TreeNext]_vars

-----------------------------------------------------------------------------
(* Refinement: what can be browsed is a FolderHierarchy.  A folder without   *)
(* a name, or whose entry names no parent, maps to one that is not allowed.  *)
VisibleFolders ==
    {[id |-> n,
      parent |-> IF n \in DOMAIN tree /\ tree[n] # <<>> THEN tree[n][1] ELSE n,
      name |-> IF n \in DOMAIN folderName THEN folderName[n] ELSE NoName]
       : n \in Visible \ {Home}}

Hierarchy == INSTANCE FolderHierarchy WITH
    Ids <- Nodes, folders <- VisibleFolders, known <- inserted

(* Whatever the jobs interleave to and wherever the process dies, browsing   *)
(* from home shows a tree in which whole folders appear and whole subtrees   *)
(* disappear, atomically, and nothing removed comes back: the order detach   *)
(* first, entries later of DeleteFolder and name first, node later of        *)
(* CreateDownloadNewFolder (filesys.go) is what this rests on.               *)
BrowsedAtomically == Hierarchy!HierarchySpec

(* A folder that can be browsed has its directory with a deadline, so that   *)
(* the reaper can never stumble over it: the directory is filled before the  *)
(* node is inserted and removed only after it is detached.                   *)
VisibleOnDisk ==
    \A n \in Visible : n \in DOMAIN disk /\ disk[n] # "none"

(* Two siblings have the same name only if neither creation could see the    *)
(* other folder in its check: the check and the insertion are different      *)
(* transactions (filesys.go:615-655).                                        *)
TwinsOnlyByRace ==
    \A m, n \in Visible \ {Home} :
        (m # n /\ tree[m][1] = tree[n][1] /\ folderName[m] = folderName[n])
            => m \notin seen[n] /\ n \notin seen[m]

(* When no deletion has run beside another job and the process has not died, *)
(* nothing is left behind between jobs: the three buckets and the disk know  *)
(* exactly the folders that can be browsed.  Concurrent creations and failed *)
(* downloads do not spoil it.                                                *)
NoLeftovers ==
    (~mixed /\ crashes = 0 /\ \A p \in Workers : ~Active(p)) =>
        (~Deleting(Reaper) =>
            /\ DOMAIN tree = Visible
            /\ DOMAIN folderName = Visible
            /\ DOMAIN disk = Visible
            /\ DOMAIN satellite \subseteq Visible)
=============================================================================
