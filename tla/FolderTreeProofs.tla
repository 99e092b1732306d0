--------------------------- MODULE FolderTreeProofs ---------------------------
(***************************************************************************)
(* Proofs about FolderTree for any jobs, any number of goroutines and of   *)
(* folders.  Two facts carry them: a node is put into the tree once, by    *)
(* the goroutine that drew its number, so what can no longer be browsed    *)
(* never can be again; and a deletion touches only what cannot be browsed. *)
(***************************************************************************)
EXTENDS FolderTree, FiniteSetTheorems, TLAPS

Ids == {Home} \cup Nodes
Segments == Names \cup {NoName}
Frames == [node : Nodes, kids : Seq(Nodes)]

Slots == {"pc", "kind", "full", "deadline", "call", "path", "at", "lvl", "list", "node", "stack",
          "content", "walk"}
Making == {"mkdir", "fetch", "name", "insert"}
Clearing == {"enter", "kids", "unname", "unmap", "content", "dir"}
Steps == {"idle", "list", "match", "addto", "mark", "detach", "rmSat", "rmDir", "empty", "descend",
          "check"} \cup Making \cup Clearing
Adding == {"download", "addto", "noovo", "mstore"}
Kinds == {"none", "delete", "recursive", "expiry"} \cup Adding

(* What a goroutine may hold, whatever the store looks like. *)
WellFormed(r) ==
    /\ DOMAIN r = Slots
    /\ r.pc \in Steps /\ r.kind \in Kinds /\ r.deadline \in {"past", "future"}
    /\ r.call \in {"none", "create", "actual", "delete", "walk"}
    /\ r.full \in Seq(Segments) /\ r.path \in Seq(Segments)
    /\ r.lvl \in Nat /\ r.lvl <= Len(r.path)
    /\ r.at \in Ids /\ r.node \in Ids /\ r.list \in Seq(Ids)
    /\ r.stack \in Seq(Frames) /\ r.walk \in Seq(Levels)
    /\ r.kind \in Adding => r.full \in Paths
    /\ r.call \in {"create", "actual"} => r.kind \in Adding
    /\ r.call = "create" => r.path \in Seq(Names)
    /\ r.call # "none" => r.path # <<>>
    /\ r.pc \in Making \cup {"mark"} => r.call = "create"
    /\ r.pc \notin {"idle", "descend", "check"} => r.call # "none"
    /\ r.pc \in {"list", "match"} /\ r.call # "create" => r.lvl < Len(r.path)
    /\ r.pc = "mark" => r.path \in Paths
    /\ r.pc \in Clearing => r.stack # <<>>
    /\ r.kind = "expiry" /\ r.pc # "descend" => r.walk # <<>>
    /\ r.pc = "check" => r.kind = "expiry"

(* The buckets and the disk know only nodes that were drawn, and a node is   *)
(* in at most one list, of an older one.                                     *)
StoreInv ==
    /\ next \in 1..MaxNodes + 1 /\ inserted \subseteq 1..next - 1
    /\ Home \in DOMAIN tree /\ DOMAIN tree \subseteq Ids
    /\ \A n \in DOMAIN tree : tree[n] \in Seq(Ids)
    /\ \A n \in DOMAIN tree : \A k \in Kids(tree[n]) : k \in inserted /\ n < k
    /\ \A m, n \in DOMAIN tree : m # n => Kids(tree[m]) \cap Kids(tree[n]) = {}
    /\ folderName \in [DOMAIN folderName -> Names \cup {"home"}]
    /\ DOMAIN folderName \subseteq {Home} \cup 1..next - 1
    /\ \A n \in DOMAIN folderName : n # Home => folderName[n] \in Names
    /\ disk \in [DOMAIN disk -> {"none", "past", "future"}] /\ DOMAIN disk \subseteq Ids
    /\ satellite \in [DOMAIN satellite -> Paths] /\ DOMAIN satellite \subseteq Ids
    /\ mstore \subseteq Paths

CountInv ==
    /\ jobs \in 0..MaxJobs /\ mixed \in BOOLEAN
    /\ crashes \in Nat /\ failures \in Nat /\ crashes + failures <= MaxFaults

(* What can be browsed is whole. *)
VisibleInv ==
    /\ tree[Home][1] = Home
    /\ \A n \in Visible :
        /\ n \in DOMAIN tree /\ tree[n] # <<>> /\ n \in DOMAIN folderName
        /\ n \in DOMAIN disk /\ disk[n] # "none"
        /\ \A k \in Kids(tree[n]) : tree[k][1] = n

(* A frame of DeleteNodeSubtree holds nothing that can be browsed. *)
Hidden(f) ==
    /\ f.node \in inserted \ Visible
    /\ \A j \in 1..Len(f.kids) : f.kids[j] \in inserted \ Visible

(* What each goroutine holds fits the store. *)
HoldsInv(r) ==
    /\ r.at \in {Home} \cup inserted /\ Kids(r.list) \subseteq inserted
    /\ r.pc \in Making => r.node \in 1..next - 1 /\ r.node \notin inserted /\ r.at < r.node
    /\ r.pc \in {"name", "insert"} => r.node \in DOMAIN disk /\ disk[r.node] # "none"
    /\ r.pc = "insert" => r.node \in DOMAIN folderName
    /\ r.pc \in Making /\ r.pc # "insert" =>
         \A m \in seen[r.node] \cap DOMAIN folderName : folderName[m] # r.path[Len(r.path)]
    /\ r.pc \in {"addto", "mark", "detach"} => r.node \in inserted
    /\ r.pc \in {"rmSat", "rmDir"} => r.node \in inserted \ Visible
    /\ \A i \in 1..Len(r.stack) : Hidden(r.stack[i])

ProcInv ==
    /\ DOMAIN proc = Procs
    /\ \A p \in Procs : WellFormed(proc[p])
    /\ \A p \in Procs : HoldsInv(proc[p])
    /\ \A p, q \in Procs : p # q /\ proc[p].pc \in Making /\ proc[q].pc \in Making
                              => proc[p].node # proc[q].node

(* A creation saw older nodes only, none of them with its name. *)
SeenInv ==
    /\ seen \in [Nodes -> SUBSET Nodes]
    /\ \A n \in Nodes : \A m \in seen[n] :
         /\ m \in inserted /\ m < n
         /\ m \in DOMAIN folderName /\ n \in DOMAIN folderName => folderName[m] # folderName[n]

IInv == StoreInv /\ CountInv /\ VisibleInv /\ ProcInv /\ SeenInv

-----------------------------------------------------------------------------
(* Facts about the operators of the model. *)

(* A store whose lists hold nodes. *)
Lists(t) == Home \in DOMAIN t /\ \A n \in DOMAIN t : Kids(t[n]) \subseteq Nodes

(* Home is reached, and so are the children of what is reached. *)
LEMMA ReachStep ==
    ASSUME NEW t, Lists(t)
    PROVE  /\ Home \in Reach(t) /\ Reach(t) \subseteq Ids
           /\ \A n \in Reach(t) : n \in DOMAIN t => Kids(t[n]) \subseteq Reach(t)
<1>1. Home \in Reach(t) /\ Reach(t) \subseteq Ids
  BY DEF Reach, Ids
<1>2. ASSUME NEW n \in Reach(t), n \in DOMAIN t, NEW k \in Kids(t[n])
      PROVE  k \in Reach(t)
  <2>1. k \in Nodes
    BY <1>2 DEF Lists
  <2>2. ASSUME NEW S \in SUBSET Nodes, Kids(t[Home]) \subseteq S,
               \A m \in S : m \in DOMAIN t => Kids(t[m]) \subseteq S
        PROVE  k \in S
    BY <1>2, <2>2 DEF Reach
  <2> QED
    BY <2>1, <2>2 DEF Reach
<1> QED
  BY <1>1, <1>2

(* Any closed set holds what is reached. *)
LEMMA ReachLeast ==
    ASSUME NEW t, NEW S, S \subseteq Nodes, Kids(t[Home]) \subseteq S,
           \A m \in S : m \in DOMAIN t => Kids(t[m]) \subseteq S
    PROVE  Reach(t) \subseteq {Home} \cup S
  BY DEF Reach

(* What is reached, other than home, is a child of something reached. *)
LEMMA ReachParent ==
    ASSUME NEW t, Lists(t), NEW n \in Reach(t), n # Home
    PROVE  \E m \in Reach(t) : m \in DOMAIN t /\ n \in Kids(t[m])
<1> SUFFICES ASSUME \A m \in Reach(t) : m \in DOMAIN t => n \notin Kids(t[m])
             PROVE  FALSE
  OBVIOUS
<1> DEFINE S == (Reach(t) \cap Nodes) \ {n}
<1>1. S \subseteq Nodes
  OBVIOUS
<1>2. Kids(t[Home]) \subseteq S
  BY ReachStep DEF Lists
<1>3. \A m \in S : m \in DOMAIN t => Kids(t[m]) \subseteq S
  BY ReachStep DEF Lists
<1>4. Reach(t) \subseteq {Home} \cup S
  <2> HIDE DEF S
  <2> QED
    BY <1>1, <1>2, <1>3, ReachLeast
<1> QED
  BY <1>4

(* A list without a node: what is left is in it, and the node is not. *)
LEMMA WithoutFacts ==
    ASSUME NEW list \in Seq(Ids), NEW n, NEW rest \in Without(list, n)
    PROVE  /\ rest \in Seq(Ids)
           /\ Kids(rest) \subseteq Kids(list) /\ n \notin Kids(rest)
           /\ list # <<>> /\ list[1] # n =>
                /\ rest # <<>> /\ rest[1] = list[1]
                /\ \A k \in Kids(list) : k # n => k \in Kids(rest)
<1> DEFINE left == {i \in 1..Len(list) : list[i] # n}
<1>1. IsFiniteSet(1..Len(list))
  BY FS_Interval
<1>2. PICK c \in Nat : c = Cardinality(left)
  BY <1>1, FS_Subset, FS_CardinalityType
<1>3. PICK q \in [1..c -> left] :
        /\ \A i, j \in 1..c : i < j => q[i] < q[j]
        /\ \A i \in left : \E j \in 1..c : q[j] = i
        /\ rest = [j \in 1..c |-> list[q[j]]]
  BY <1>2 DEF Without
<1>4. \A j \in 1..c : q[j] \in 1..Len(list) /\ list[q[j]] \in Ids /\ list[q[j]] # n
  BY <1>3
<1>5. rest \in Seq(Ids) /\ Len(rest) = c /\ \A j \in 1..c : rest[j] = list[q[j]]
  BY <1>3, <1>4
<1>6. \A j \in 2..c : q[j] \in 2..Len(list)
  <2>1. \A j \in 2..c : 1 \in 1..c /\ j \in 1..c /\ q[1] < q[j]
    BY <1>3
  <2> QED
    BY <1>4, <2>1
<1>7. Kids(rest) \subseteq Kids(list) /\ n \notin Kids(rest)
  BY SMTT(30), <1>4, <1>5, <1>6 DEF Kids
<1>8. ASSUME list # <<>>, list[1] # n
      PROVE  /\ rest # <<>> /\ rest[1] = list[1]
             /\ \A k \in Kids(list) : k # n => k \in Kids(rest)
  <2>1. Len(list) >= 1 /\ 1 \in left
    BY <1>8
  <2>2. PICK j \in 1..c : q[j] = 1
    BY <1>3, <2>1
  <2>3. j = 1
    <3>1. SUFFICES ASSUME j # 1 PROVE FALSE
      OBVIOUS
    <3>2. 1 \in 1..c /\ 1 < j
      BY <3>1, <2>2
    <3>3. q[1] < q[j] /\ q[1] \in 1..Len(list)
      BY <1>3, <1>4, <3>2
    <3> QED
      BY <2>2, <3>3
  <2>4. rest # <<>> /\ rest[1] = list[1]
    BY <1>5, <2>2, <2>3
  <2>5. ASSUME NEW k \in Kids(list), k # n PROVE k \in Kids(rest)
    <3>1. PICK i \in 2..Len(list) : k = list[i]
      BY DEF Kids
    <3>2. i \in left
      BY <2>5, <3>1
    <3>3. PICK h \in 1..c : q[h] = i
      BY <1>3, <3>2
    <3>4. h # 1
      BY <2>2, <2>3, <3>1, <3>3
    <3>5. h \in 2..Len(rest) /\ rest[h] = k
      BY <1>5, <3>1, <3>3, <3>4
    <3> QED
      BY <3>5 DEF Kids
  <2> QED
    BY <2>4, <2>5
<1> QED
  BY <1>5, <1>7, <1>8

(* The children of a list with one more at its end. *)
LEMMA AppendKids ==
    ASSUME NEW list \in Seq(Ids), NEW n \in Ids
    PROVE  /\ Append(list, n) \in Seq(Ids) /\ Append(list, n) # <<>>
           /\ list # <<>> => Append(list, n)[1] = list[1] /\ Kids(Append(list, n)) = Kids(list) \cup {n}
           /\ list = <<>> => Kids(Append(list, n)) = {}
<1>1. /\ Append(list, n) \in Seq(Ids) /\ Append(list, n) # <<>> /\ Len(list) \in Nat
      /\ Len(Append(list, n)) = Len(list) + 1 /\ Append(list, n)[Len(list) + 1] = n
      /\ \A i \in 1..Len(list) : Append(list, n)[i] = list[i]
  OBVIOUS
<1>2. ASSUME list # <<>>
      PROVE  Append(list, n)[1] = list[1] /\ Kids(Append(list, n)) = Kids(list) \cup {n}
  <2>1. Len(list) >= 1
    BY <1>2
  <2> QED
    BY <1>1, <2>1 DEF Kids
<1>3. ASSUME list = <<>> PROVE Kids(Append(list, n)) = {}
  BY <1>1, <1>3 DEF Kids
<1> QED
  BY <1>1, <1>2, <1>3

(* The list of the children holds nothing else. *)
LEMMA ChildrenKids ==
    ASSUME NEW list \in Seq(Ids), Kids(list) \subseteq Nodes
    PROVE  /\ Children(list) \in Seq(Nodes)
           /\ \A j \in 1..Len(Children(list)) : Children(list)[j] \in Kids(list)
<1>1. CASE list = <<>>
  BY <1>1 DEF Children
<1>2. CASE list # <<>>
  <2>1. /\ Len(list) >= 1 /\ Len(Tail(list)) = Len(list) - 1
        /\ \A j \in 1..Len(Tail(list)) : Tail(list)[j] = list[j + 1] /\ j + 1 \in 2..Len(list)
    BY <1>2
  <2>2. \A j \in 1..Len(Tail(list)) : Tail(list)[j] \in Kids(list)
    BY <2>1 DEF Kids
  <2>3. Tail(list) \in Seq(Nodes)
    <3> DEFINE u == Tail(list)
    <3>1. u \in Seq(Ids) /\ \A j \in 1..Len(u) : u[j] \in Nodes
      BY <1>2, <2>2
    <3> HIDE DEF u
    <3>2. u \in Seq(Nodes)
      BY <3>1
    <3> QED
      BY <3>2 DEF u
  <2> QED
    BY <1>2, <2>2, <2>3 DEF Children
<1> QED
  BY <1>1, <1>2

-----------------------------------------------------------------------------
(* What a goroutine holds when a call begins or returns. *)

(* Between two calls, or at the start of one. *)
Fresh(r) ==
    /\ WellFormed(r) /\ r.pc \in {"idle", "list", "descend", "check"}
    /\ r.at = Home /\ r.node = Home /\ r.list = <<>> /\ r.stack = <<>>

(* A part of a path from its start. *)
LEMMA PrefixSeq ==
    ASSUME NEW T, NEW s \in Seq(T), NEW n \in 1..Len(s)
    PROVE  SubSeq(s, 1, n) \in Seq(T) /\ SubSeq(s, 1, n) # <<>>
<1>1. n \in Nat /\ n >= 1 /\ n <= Len(s) /\ Len(s) \in Nat
  OBVIOUS
<1>2. Len(SubSeq(s, 1, n)) = n
  BY <1>1
<1>3. SubSeq(s, 1, n) \in Seq(T)
  BY <1>1
<1> QED
  BY <1>1, <1>2, <1>3

(* The paths of the jobs are made of names. *)
LEMMA PathNames ==
    ASSUME NEW path \in Paths
    PROVE  path \in Seq(Names) /\ path \in Seq(Segments) /\ path # <<>>
<1>1. PICK job \in Jobs : path = job.path
  BY DEF Paths
<1>2. path \in Seq(STRING) /\ path # <<>>
  BY <1>1, TreeAssumption DEF JobTypes
<1>3. \A i \in 1..Len(path) : path[i] \in Names
  BY DEF Names
<1>4. path \in Seq(Names)
  BY <1>2, <1>3
<1>5. path \in Seq(Segments)
  BY <1>4 DEF Segments
<1> QED
  BY <1>2, <1>4, <1>5

(* A goroutine without a job. *)
LEMMA IdleFresh == Fresh(Idle)
<1>1. Idle.pc = "idle" /\ Idle.kind = "none" /\ Idle.call = "none" /\ DOMAIN Idle = Slots
  BY DEF Idle, Slots
<1>2. Idle.full = <<>> /\ Idle.path = <<>> /\ Idle.deadline = "future" /\ Idle.lvl = 0
  BY DEF Idle
<1>3. Idle.at = Home /\ Idle.node = Home /\ Idle.list = <<>> /\ Idle.stack = <<>> /\ Idle.walk = <<>>
  BY DEF Idle
<1> QED
  BY <1>1, <1>2, <1>3 DEF Fresh, WellFormed, Steps, Kinds, Adding, Making, Clearing, Ids

(* A call begins, with a path that suits it. *)
LEMMA CallFresh ==
    ASSUME NEW r, WellFormed(r), NEW call \in {"create", "actual", "delete", "walk"},
           NEW path \in Seq(Segments), path # <<>>,
           call \in {"create", "actual"} => r.kind \in Adding,
           call = "create" => path \in Seq(Names),
           r.kind = "expiry" => r.walk # <<>>
    PROVE  Fresh(Call(r, call, path))
<1> DEFINE c == Call(r, call, path)
<1>1. DOMAIN c = Slots
  BY DEF Call, WellFormed
<1>2. /\ c.pc = "list" /\ c.call = call /\ c.path = path /\ c.at = Home /\ c.lvl = 0
      /\ c.list = <<>> /\ c.node = Home /\ c.stack = <<>>
  BY DEF Call, WellFormed, Slots
<1>3. c.kind = r.kind /\ c.full = r.full /\ c.deadline = r.deadline /\ c.walk = r.walk
  BY DEF Call, WellFormed, Slots
<1>4. Len(path) > 0
  OBVIOUS
<1> HIDE DEF c
<1>5. WellFormed(c)
  BY <1>1, <1>2, <1>3, <1>4 DEF WellFormed, Steps, Making, Clearing, Ids
<1> QED
  BY <1>2, <1>5 DEF Fresh, c

(* The next level of the hierarchy is made. *)
LEMMA CreateNextFresh ==
    ASSUME NEW r, WellFormed(r), r.kind \in Adding, Len(r.path) < Len(r.full)
    PROVE  Fresh(CreateNext(r))
<1>1. r.full \in Seq(Names) /\ Len(r.path) \in Nat /\ Len(r.full) \in Nat
  BY PathNames DEF WellFormed
<1> DEFINE path == SubSeq(r.full, 1, Len(r.path) + 1)
<1>2. path \in Seq(Names) /\ path # <<>>
  <2>1. Len(r.path) + 1 \in 1..Len(r.full)
    BY <1>1
  <2> QED
    BY <1>1, <2>1, PrefixSeq
<1>3. path \in Seq(Segments)
  BY <1>2 DEF Segments
<1>4. r.kind # "expiry"
  BY DEF Adding
<1> HIDE DEF path
<1>5. Fresh(Call(r, "create", path))
  BY <1>2, <1>3, <1>4, CallFresh
<1> QED
  BY <1>5 DEF CreateNext, path

(* The reaper goes on below a folder, or with the level above. *)
LEMMA AfterCheckFresh ==
    ASSUME NEW r, WellFormed(r), r.kind = "expiry", r.walk # <<>>, NEW res
    PROVE  Fresh(AfterCheck(r, res))
<1>1. CASE res = "ok"
  <2> DEFINE c == AfterCheck(r, res)
  <2>1. c.pc = "descend" /\ c.kind = r.kind /\ c.full = r.full /\ c.walk = r.walk /\ DOMAIN c = Slots
    BY <1>1 DEF AfterCheck, Idle, Slots
  <2>2. /\ c.call = "none" /\ c.path = <<>> /\ c.deadline = "future" /\ c.lvl = 0
        /\ c.at = Home /\ c.node = Home /\ c.list = <<>> /\ c.stack = <<>>
    BY <1>1 DEF AfterCheck, Idle
  <2> HIDE DEF c
  <2>3. WellFormed(c)
    BY <2>1, <2>2 DEF WellFormed, Steps, Kinds, Adding, Making, Clearing, Ids
  <2> QED
    BY <2>1, <2>2, <2>3 DEF Fresh, c
<1>2. CASE res # "ok" /\ Tail(r.walk) = <<>>
  BY <1>2, IdleFresh DEF AfterCheck
<1>3. CASE res # "ok" /\ Tail(r.walk) # <<>>
  <2> DEFINE c == AfterCheck(r, res)
  <2>1. c.pc = "check" /\ c.kind = r.kind /\ c.full = <<>> /\ c.walk = Tail(r.walk) /\ DOMAIN c = Slots
    BY <1>3 DEF AfterCheck, Idle, Slots
  <2>2. /\ c.call = "none" /\ c.path = <<>> /\ c.deadline = "future" /\ c.lvl = 0
        /\ c.at = Home /\ c.node = Home /\ c.list = <<>> /\ c.stack = <<>>
    BY <1>3 DEF AfterCheck, Idle
  <2>3. Tail(r.walk) \in Seq(Levels) /\ Tail(r.walk) # <<>>
    BY <1>3 DEF WellFormed
  <2> HIDE DEF c
  <2>4. WellFormed(c)
    BY <2>1, <2>2, <2>3 DEF WellFormed, Steps, Kinds, Adding, Making, Clearing, Ids
  <2> QED
    BY <2>1, <2>2, <2>4 DEF Fresh, c
<1> QED
  BY <1>1, <1>2, <1>3

(* Whatever a call returns, its goroutine is at the start of another one, or *)
(* between two.                                                              *)
LEMMA ReturnFresh ==
    ASSUME NEW r, WellFormed(r), r.pc \notin {"idle", "descend", "check"}, NEW res
    PROVE  Fresh(Return(r, res))
<1>1. CASE r.call = "actual"
  <2> DEFINE c == [r EXCEPT !.path = <<>>]
  <2>1. CASE res = "ok" \/ r.kind = "addto"
    BY <1>1, <2>1, IdleFresh DEF Return
  <2>2. CASE ~(res = "ok" \/ r.kind = "addto")
    <3>1. r.full \in Paths /\ r.kind \in Adding
      BY <1>1 DEF WellFormed
    <3>2. r.full \in Seq(Names) /\ Len(r.full) > 0
      BY <3>1, PathNames
    <3>3. Fresh(Call(c, "create", SubSeq(r.full, 1, 1)))
      <4>1. Call(c, "create", SubSeq(r.full, 1, 1)) = Call(r, "create", SubSeq(r.full, 1, 1))
        BY DEF Call, WellFormed, Slots
      <4>2. SubSeq(r.full, 1, 1) \in Seq(Names) /\ SubSeq(r.full, 1, 1) # <<>>
        BY <3>2
      <4>3. SubSeq(r.full, 1, 1) \in Seq(Segments) /\ r.kind # "expiry"
        BY <3>1, <4>2 DEF Segments, Adding
      <4> QED
        BY <3>1, <4>1, <4>2, <4>3, CallFresh
    <3>4. CreateNext(c) = Call(c, "create", SubSeq(r.full, 1, 1))
      BY DEF CreateNext, WellFormed, Slots
    <3> QED
      BY <1>1, <2>2, <3>3, <3>4 DEF Return
  <2> QED
    BY <2>1, <2>2
<1>2. CASE r.call = "create"
  <2>1. r.kind \in Adding
    BY <1>2 DEF WellFormed
  <2> QED
    BY <1>2, <2>1, CreateNextFresh, IdleFresh DEF Return, AfterCreate
<1>3. CASE r.call \in {"delete", "walk"}
  <2>1. r.kind = "expiry" => r.walk # <<>>
    BY DEF WellFormed
  <2>2. r.kind = "expiry" => Fresh(AfterCheck(r, res))
    BY <2>1, AfterCheckFresh
  <2>3. Fresh(Call(r, "delete", r.path))
    BY <1>3, <2>1, CallFresh DEF WellFormed
  <2>4. Len(r.path) > 1 => Fresh(Call(r, "walk", Front(r.path)))
    <3>1. SUFFICES ASSUME Len(r.path) > 1 PROVE Fresh(Call(r, "walk", Front(r.path)))
      OBVIOUS
    <3>2. Front(r.path) \in Seq(Segments) /\ Front(r.path) # <<>>
      <4>1. r.path \in Seq(Segments) /\ Len(r.path) - 1 \in 1..Len(r.path)
        BY <3>1 DEF WellFormed
      <4> QED
        BY <4>1, PrefixSeq DEF Front
    <3> QED
      BY <2>1, <3>2, CallFresh
  <2> QED
    BY <1>3, <2>2, <2>3, <2>4, IdleFresh DEF Return, AfterDelete
<1> QED
  BY <1>1, <1>2, <1>3 DEF WellFormed

-----------------------------------------------------------------------------
(* The goroutines beside the one that moves. *)

(* A step leaves alone the node n that another goroutine is making. *)
Spares(n) ==
    /\ n \notin inserted'
    /\ n \in DOMAIN disk /\ disk[n] # "none" => n \in DOMAIN disk' /\ disk'[n] # "none"
    /\ n \in DOMAIN folderName => n \in DOMAIN folderName'
    /\ seen'[n] = seen[n]
    /\ \A m \in seen[n] : m \in DOMAIN folderName' =>
                             m \in DOMAIN folderName /\ folderName'[m] = folderName[m]

(* The node r makes, if it makes one, is its own. *)
Owns(p, r) ==
    r.pc \in Making =>
        \/ proc[p].pc \in Making /\ r.node = proc[p].node
        \/ \A q \in Procs \ {p} : proc[q].pc \in Making => proc[q].node # r.node

(* What a goroutine holds at the start of a call fits every store. *)
LEMMA FreshHolds ==
    ASSUME NEW r, Fresh(r)
    PROVE  WellFormed(r) /\ HoldsInv(r) /\ HoldsInv(r)' /\ r.pc \notin Making
<1>1. Kids(r.list) = {} /\ r.at = Home /\ r.stack = <<>>
  BY DEF Fresh, Kids
<1>2. /\ r.pc \notin Making /\ r.pc \notin {"name", "insert"} /\ r.pc \notin {"addto", "mark", "detach"}
      /\ r.pc \notin {"rmSat", "rmDir"}
  BY DEF Fresh, Making
<1> QED
  BY <1>1, <1>2 DEF Fresh, HoldsInv

(* What another goroutine holds still fits after a step that adds to the     *)
(* inserted nodes, shows none of them again and spares the node it makes.    *)
LEMMA HoldsStable ==
    ASSUME NEW r, WellFormed(r), HoldsInv(r), StoreInv, next' \in Nat, next' >= next,
           inserted \subseteq inserted', Visible' \cap inserted \subseteq Visible,
           r.pc \in Making => Spares(r.node)
    PROVE  HoldsInv(r)'
<1>1. r.at \in {Home} \cup inserted' /\ Kids(r.list) \subseteq inserted'
  BY DEF HoldsInv
<1>2. r.pc \in Making => /\ r.node \in 1..next' - 1 /\ r.node \notin inserted' /\ r.at < r.node
  BY DEF HoldsInv, Spares, StoreInv
<1>3. r.pc \in {"name", "insert"} => r.node \in DOMAIN disk' /\ disk'[r.node] # "none"
  BY DEF HoldsInv, Spares, Making
<1>4. r.pc = "insert" => r.node \in DOMAIN folderName'
  BY DEF HoldsInv, Spares, Making
<1>5. r.pc \in Making /\ r.pc # "insert" =>
        \A m \in seen'[r.node] \cap DOMAIN folderName' : folderName'[m] # r.path[Len(r.path)]
  BY DEF HoldsInv, Spares
<1>6. r.pc \in {"addto", "mark", "detach"} => r.node \in inserted'
  BY DEF HoldsInv
<1>7. r.pc \in {"rmSat", "rmDir"} => r.node \in inserted' \ Visible'
  BY DEF HoldsInv
<1>8. \A i \in 1..Len(r.stack) :
        /\ r.stack[i].node \in inserted' \ Visible'
        /\ \A j \in 1..Len(r.stack[i].kids) : r.stack[i].kids[j] \in inserted' \ Visible'
  BY DEF HoldsInv, Hidden
<1> QED
  BY <1>1, <1>2, <1>3, <1>4, <1>5, <1>6, <1>7, <1>8 DEF HoldsInv, Hidden

(* So a step of p keeps the invariant of all goroutines if it keeps its own. *)
LEMMA ProcStep ==
    ASSUME StoreInv, ProcInv, NEW p \in Procs, NEW r, Becomes(p, r), next' \in Nat, next' >= next,
           inserted \subseteq inserted', Visible' \cap inserted \subseteq Visible,
           \A q \in Procs \ {p} : proc[q].pc \in Making => Spares(proc[q].node),
           WellFormed(r), HoldsInv(r)', Owns(p, r)
    PROVE  ProcInv'
<1>1. DOMAIN proc' = Procs /\ proc'[p] = r /\ \A q \in Procs \ {p} : proc'[q] = proc[q]
  BY DEF ProcInv, Becomes
<1>2. \A q \in Procs : WellFormed(proc'[q])
  BY <1>1 DEF ProcInv
<1>3. ASSUME NEW q \in Procs PROVE HoldsInv(proc[q])'
  <2>1. CASE q = p
    BY <1>1, <2>1 DEF HoldsInv, Hidden
  <2>2. CASE q # p
    <3>1. PICK s : s = proc[q] /\ s = proc'[q]
      BY <1>1, <2>2
    <3>2. HoldsInv(s)'
      BY <2>2, <3>1, HoldsStable DEF ProcInv
    <3> QED
      BY <3>1, <3>2 DEF HoldsInv, Hidden
  <2> QED
    BY <2>1, <2>2
<1>4. \A q, s \in Procs : q # s /\ proc'[q].pc \in Making /\ proc'[s].pc \in Making
                            => proc'[q].node # proc'[s].node
  BY <1>1 DEF ProcInv, Owns
<1> QED
  BY <1>1, <1>2, <1>3, <1>4 DEF ProcInv, WellFormed, Slots

(* A step that changes only what one goroutine holds, and counters. *)
LEMMA QuietStep ==
    ASSUME IInv, NEW p \in Procs, NEW r, Becomes(p, r), CountInv',
           UNCHANGED <<storeVars, diskVars, historyVars>>,
           WellFormed(r), HoldsInv(r), Owns(p, r)
    PROVE  IInv'
<1>1. /\ tree' = tree /\ folderName' = folderName /\ satellite' = satellite /\ disk' = disk
      /\ mstore' = mstore /\ next' = next /\ inserted' = inserted /\ seen' = seen /\ Visible' = Visible
  BY DEF storeVars, diskVars, historyVars, Visible
<1>2. StoreInv' /\ VisibleInv' /\ SeenInv'
  BY <1>1 DEF IInv, StoreInv, VisibleInv, SeenInv
<1>3. HoldsInv(r)'
  BY <1>1 DEF HoldsInv, Hidden
<1>4. \A q \in Procs \ {p} : proc[q].pc \in Making => Spares(proc[q].node)
  BY <1>1 DEF IInv, ProcInv, HoldsInv, Spares
<1>5. next' \in Nat /\ next' >= next
  BY <1>1 DEF IInv, StoreInv
<1>6. ProcInv'
  BY <1>1, <1>3, <1>4, <1>5, ProcStep DEF IInv
<1> QED
  BY <1>2, <1>6 DEF IInv

(* In particular when a call begins or returns. *)
LEMMA FreshStep ==
    ASSUME IInv, NEW p \in Procs, NEW r, Becomes(p, r), Fresh(r), CountInv',
           UNCHANGED <<storeVars, diskVars, historyVars>>
    PROVE  IInv'
  BY FreshHolds, QuietStep DEF Owns

-----------------------------------------------------------------------------
(* Steps that only read the store. *)

(* What the invariant says of the goroutine that moves. *)
LEMMA Here ==
    ASSUME IInv, NEW p \in Procs
    PROVE  WellFormed(proc[p]) /\ HoldsInv(proc[p])
  BY DEF IInv, ProcInv

(* Only nodes are inserted. *)
LEMMA InsertedNodes == IInv => inserted \subseteq Nodes
  BY TreeAssumption DEF IInv, StoreInv, Nodes

(* To go to a place is to become the same record with another place. *)
LEMMA GotoBecomes ==
    ASSUME IInv, NEW p \in Procs, NEW c, Goto(p, c)
    PROVE  Becomes(p, [proc[p] EXCEPT !.pc = c])
  BY DEF IInv, ProcInv, Goto, Becomes

(* A goroutine whose place alone has changed. *)
LEMMA MovedTo ==
    ASSUME NEW r, WellFormed(r), NEW c, NEW s, s = [r EXCEPT !.pc = c]
    PROVE  /\ DOMAIN s = Slots /\ s.pc = c /\ s.kind = r.kind /\ s.full = r.full
           /\ s.deadline = r.deadline /\ s.call = r.call /\ s.path = r.path /\ s.at = r.at
           /\ s.lvl = r.lvl /\ s.list = r.list /\ s.node = r.node /\ s.stack = r.stack
           /\ s.walk = r.walk
  BY DEF WellFormed, Slots

(* A job begins. *)
LEMMA StartStep ==
    ASSUME IInv, NEW p \in Workers, NEW job \in Jobs, Start(p, job)
    PROVE  IInv'
<1> DEFINE r == [Idle EXCEPT !.kind = job.kind, !.full = job.path, !.deadline = job.deadline]
<1>1. /\ job.kind \in Kinds \ {"none", "expiry"} /\ job.path \in Paths
      /\ job.deadline \in {"past", "future"}
  BY TreeAssumption DEF JobTypes, Kinds, Adding, Paths
<1>2. job.path \in Seq(Names) /\ job.path \in Seq(Segments) /\ job.path # <<>>
  BY <1>1, PathNames
<1>3. WellFormed(r) /\ r.kind = job.kind /\ r.full = job.path /\ r.kind # "expiry"
  <2>1. /\ r.kind = job.kind /\ r.full = job.path /\ r.deadline = job.deadline /\ r.pc = "idle"
        /\ r.call = "none" /\ DOMAIN r = Slots
    BY DEF Idle, Slots
  <2>2. /\ r.path = <<>> /\ r.at = Home /\ r.lvl = 0 /\ r.list = <<>> /\ r.node = Home
        /\ r.stack = <<>> /\ r.walk = <<>>
    BY DEF Idle
  <2> HIDE DEF r
  <2> QED
    BY <1>1, <1>2, <2>1, <2>2 DEF WellFormed, Steps, Making, Clearing, Kinds, Ids
<1> HIDE DEF r
<1>4. PICK s : Becomes(p, s) /\ s = CASE job.kind \in {"download", "addto"} -> DownloadCall(r)
                                       [] job.kind \in {"noovo", "mstore"} -> SatelliteCall(r)
                                       [] OTHER -> DeleteCall(r)
  BY DEF Start, r
<1>5. Fresh(s)
  <2>1. CASE job.kind \in Adding
    <3>1. Fresh(Call(r, "create", r.full)) /\ Fresh(Call(r, "actual", r.full))
      BY <1>2, <1>3, <2>1, CallFresh
    <3> QED
      BY <1>3, <1>4, <2>1, <3>1 DEF DownloadCall, SatelliteCall, Adding
  <2>2. CASE job.kind \notin Adding
    <3>1. Fresh(Call(r, "delete", r.full))
      BY <1>2, <1>3, CallFresh
    <3> QED
      BY <1>4, <2>2, <3>1 DEF DeleteCall, Adding
  <2> QED
    BY <2>1, <2>2
<1>6. CountInv' /\ UNCHANGED <<storeVars, diskVars, historyVars>>
  BY TreeAssumption DEF Start, IInv, CountInv, storeVars, diskVars, historyVars
<1> QED
  BY <1>4, <1>5, <1>6, FreshStep DEF Procs

(* The reaper wakes up. *)
LEMMA StartReaperStep ==
    ASSUME IInv, StartReaper
    PROVE  IInv'
<1>1. PICK s : Becomes(Reaper, s) /\ s = [Idle EXCEPT !.pc = "descend", !.kind = "expiry"]
  BY DEF StartReaper
<1>2. Fresh(s)
  <2>1. /\ s.kind = "expiry" /\ s.full = <<>> /\ s.deadline = "future" /\ s.pc = "descend"
        /\ s.call = "none" /\ DOMAIN s = Slots
    BY <1>1 DEF Idle, Slots
  <2>2. /\ s.path = <<>> /\ s.at = Home /\ s.lvl = 0 /\ s.list = <<>> /\ s.node = Home
        /\ s.stack = <<>> /\ s.walk = <<>>
    BY <1>1 DEF Idle
  <2> QED
    BY <2>1, <2>2 DEF Fresh, WellFormed, Steps, Making, Clearing, Kinds, Adding, Ids
<1>3. CountInv' /\ UNCHANGED <<storeVars, diskVars, historyVars>>
  BY DEF StartReaper, IInv, CountInv, countVars
<1> QED
  BY <1>1, <1>2, <1>3, FreshStep DEF Procs

(* A list of children is read: its members were inserted. *)
LEMMA ListStep ==
    ASSUME IInv, NEW p \in Procs, GetChildrenForNode(p)
    PROVE  IInv'
<1>0. WellFormed(proc[p]) /\ HoldsInv(proc[p]) /\ proc[p].pc = "list"
  BY Here DEF GetChildrenForNode
<1>1. CountInv' /\ UNCHANGED <<storeVars, diskVars, historyVars>>
  BY DEF GetChildrenForNode, IInv, CountInv, countVars
<1>2. CASE proc[p].at \in DOMAIN tree
  <2>1. PICK s : Becomes(p, s) /\ s = [proc[p] EXCEPT !.pc = "match", !.list = tree[proc[p].at]]
    BY <1>2 DEF GetChildrenForNode
  <2>2. /\ DOMAIN s = Slots /\ s.pc = "match" /\ s.kind = proc[p].kind /\ s.full = proc[p].full
        /\ s.deadline = proc[p].deadline /\ s.call = proc[p].call /\ s.path = proc[p].path
        /\ s.at = proc[p].at /\ s.lvl = proc[p].lvl /\ s.list = tree[proc[p].at]
        /\ s.node = proc[p].node /\ s.stack = proc[p].stack /\ s.walk = proc[p].walk
    BY <1>0, <2>1 DEF WellFormed, Slots
  <2>3. tree[proc[p].at] \in Seq(Ids) /\ Kids(tree[proc[p].at]) \subseteq inserted
    BY <1>2 DEF IInv, StoreInv
  <2>4. WellFormed(s)
    BY <1>0, <2>2, <2>3 DEF WellFormed, Steps, Making, Clearing
  <2>5. HoldsInv(s)
    BY <1>0, <2>2, <2>3 DEF HoldsInv, Making
  <2>6. Owns(p, s)
    BY <2>2 DEF Owns, Making
  <2> QED
    BY <1>1, <2>1, <2>4, <2>5, <2>6, QuietStep
<1>3. CASE proc[p].at \notin DOMAIN tree
  <2>1. Becomes(p, Return(proc[p], "err"))
    BY <1>3 DEF GetChildrenForNode
  <2>2. Fresh(Return(proc[p], "err"))
    BY <1>0, ReturnFresh
  <2> QED
    BY <1>1, <2>1, <2>2, FreshStep
<1> QED
  BY <1>2, <1>3

(* A child that is found is one of the list. *)
LEMMA ChildOfList ==
    ASSUME NEW list, NEW name
    PROVE  ChildNamed(list, name) \in {Home} \cup Kids(list)
<1> DEFINE Named(i) == list[i] \in DOMAIN folderName /\ folderName[list[i]] = name
           Other(i) == list[i] \in DOMAIN folderName /\ folderName[list[i]] # name
           first == {i \in 2..Len(list) : Named(i) /\ \A j \in 2..i - 1 : Other(j)}
<1>1. ChildNamed(list, name) = IF first = {} THEN Home ELSE list[CHOOSE i \in first : TRUE]
  BY DEF ChildNamed
<1>2. first # {} => (CHOOSE i \in first : TRUE) \in 2..Len(list)
  OBVIOUS
<1> QED
  BY <1>1, <1>2 DEF Kids

(* One level of a path is found, or the call returns. *)
LEMMA FindStep ==
    ASSUME IInv, NEW p \in Procs, FindChild(p)
    PROVE  IInv'
<1> DEFINE r == proc[p]
           child == ChildNamed(r.list, Goal(r)[r.lvl + 1])
           found == [r EXCEPT !.at = child, !.lvl = @ + 1, !.list = <<>>]
<1>0. WellFormed(r) /\ HoldsInv(r) /\ r.pc = "match" /\ r.lvl < Len(Goal(r))
  BY Here DEF FindChild
<1>1. CountInv' /\ UNCHANGED <<storeVars, diskVars, historyVars>>
  BY DEF FindChild, IInv, CountInv, countVars
<1>2. child \in {Home} \cup inserted /\ child \in Ids
  BY <1>0, ChildOfList, InsertedNodes DEF HoldsInv, Ids
<1>3. r.path \in Seq(Segments) /\ r.path # <<>> /\ r.call # "none"
  BY <1>0 DEF WellFormed
<1>4. /\ r.call = "create" => Len(Goal(r)) = Len(r.path) - 1
      /\ r.call # "create" => Goal(r) = r.path
  BY <1>3 DEF Goal, Front
<1>5. r.lvl \in Nat /\ Len(r.path) \in Nat /\ Len(r.path) > 0
  BY <1>0, <1>3 DEF WellFormed
<1>6. ASSUME NEW c \in {"list", "addto", "detach", "empty"}, NEW n \in {r.node, child}, NEW s,
             s = [found EXCEPT !.pc = c, !.node = n], Becomes(p, s),
             c = "list" /\ r.call # "create" => r.lvl + 1 < Len(Goal(r)),
             c \in {"addto", "detach"} => n = child /\ child # Home
      PROVE  IInv'
  <2>1. /\ DOMAIN s = Slots /\ s.pc = c /\ s.kind = r.kind /\ s.full = r.full
        /\ s.deadline = r.deadline /\ s.call = r.call /\ s.path = r.path
        /\ s.at = child /\ s.lvl = r.lvl + 1 /\ s.list = <<>>
        /\ s.node = n /\ s.stack = r.stack /\ s.walk = r.walk
    BY <1>0, <1>6 DEF WellFormed, Slots
  <2>2. n \in Ids /\ s.lvl \in Nat /\ s.lvl <= Len(r.path)
        /\ (c = "list" /\ r.call # "create" => s.lvl < Len(r.path))
    BY <1>0, <1>2, <1>4, <1>5, <1>6, <2>1 DEF WellFormed
  <2>3. WellFormed(s)
    BY <1>0, <1>2, <1>3, <1>6, <2>1, <2>2 DEF WellFormed, Steps, Making, Clearing
  <2>4. HoldsInv(s)
    BY <1>0, <1>2, <1>6, <2>1 DEF HoldsInv, Making, Kids
  <2>5. Owns(p, s)
    BY <1>6, <2>1 DEF Owns, Making
  <2> QED
    BY <1>1, <1>6, <2>3, <2>4, <2>5, QuietStep
<1>7. ASSUME NEW res, Becomes(p, Return(r, res)) PROVE IInv'
  <2>1. Fresh(Return(r, res))
    BY <1>0, ReturnFresh
  <2> QED
    BY <1>1, <1>7, <2>1, FreshStep
<1>8. \A c : [found EXCEPT !.pc = c] = [found EXCEPT !.pc = c, !.node = r.node]
  BY <1>0 DEF WellFormed, Slots
<1>9. Becomes(p, IF child = Home THEN Return(r, "err")
                 ELSE IF r.call = "create" \/ found.lvl < Len(Goal(r))
                      THEN [found EXCEPT !.pc = "list"]
                 ELSE CASE r.call = "actual" -> IF r.kind # "addto" THEN Return(r, "ok")
                                                ELSE [found EXCEPT !.pc = "addto", !.node = child]
                        [] r.call = "delete" -> [found EXCEPT !.pc = "detach", !.node = child]
                        [] r.call = "walk" -> [found EXCEPT !.pc = "empty"])
  BY DEF FindChild
<1>10. found.lvl = r.lvl + 1
  BY <1>0 DEF WellFormed, Slots
<1> HIDE DEF r, child, found
<1>11. CASE child = Home
  BY <1>7, <1>9, <1>11
<1>12. CASE child # Home /\ (r.call = "create" \/ r.lvl + 1 < Len(Goal(r)))
  BY <1>6, <1>8, <1>9, <1>10, <1>12
<1>13. CASE child # Home /\ ~(r.call = "create" \/ r.lvl + 1 < Len(Goal(r)))
  <2>1. CASE r.kind = "addto" /\ r.call = "actual"
    BY <1>6, <1>9, <1>10, <1>13, <2>1
  <2>2. CASE r.kind # "addto" /\ r.call = "actual"
    BY <1>7, <1>9, <1>10, <1>13, <2>2
  <2>3. CASE r.call = "delete"
    BY <1>6, <1>9, <1>10, <1>13, <2>3
  <2>4. CASE r.call = "walk"
    BY <1>6, <1>8, <1>9, <1>10, <1>13, <2>4
  <2> QED
    BY <1>0, <1>3, <1>13, <2>1, <2>2, <2>3, <2>4 DEF WellFormed
<1> QED
  BY <1>11, <1>12, <1>13

-----------------------------------------------------------------------------
(* DeleteNodeSubtree and the reaper: the steps that only read. *)

(* What a sequence holds with one or two elements in front of it. *)
LEMMA Pushed ==
    ASSUME NEW T, NEW a \in T, NEW b \in T, NEW s \in Seq(T)
    PROVE  /\ <<a>> \o s \in Seq(T) /\ <<a>> \o s # <<>>
           /\ \A i \in 1..Len(<<a>> \o s) :
                (<<a>> \o s)[i] = a \/ \E j \in 1..Len(s) : (<<a>> \o s)[i] = s[j]
           /\ <<a, b>> \o s \in Seq(T) /\ <<a, b>> \o s # <<>>
           /\ \A i \in 1..Len(<<a, b>> \o s) :
                \/ (<<a, b>> \o s)[i] \in {a, b}
                \/ \E j \in 1..Len(s) : (<<a, b>> \o s)[i] = s[j]
<1>1. /\ <<a>> \o s \in Seq(T) /\ Len(<<a>> \o s) = Len(s) + 1 /\ (<<a>> \o s)[1] = a
      /\ \A i \in 2..Len(s) + 1 : (<<a>> \o s)[i] = s[i - 1] /\ i - 1 \in 1..Len(s)
  OBVIOUS
<1>2. /\ <<a, b>> \o s \in Seq(T) /\ Len(<<a, b>> \o s) = Len(s) + 2
      /\ (<<a, b>> \o s)[1] = a /\ (<<a, b>> \o s)[2] = b
      /\ \A i \in 3..Len(s) + 2 : (<<a, b>> \o s)[i] = s[i - 2] /\ i - 2 \in 1..Len(s)
  OBVIOUS
<1>3. /\ <<a>> \o s # <<>>
      /\ \A i \in 1..Len(<<a>> \o s) :
           (<<a>> \o s)[i] = a \/ \E j \in 1..Len(s) : (<<a>> \o s)[i] = s[j]
  <2>1. \A i \in 1..Len(s) + 1 : i = 1 \/ i \in 2..Len(s) + 1
    OBVIOUS
  <2> QED
    BY <1>1, <2>1
<1>4. /\ <<a, b>> \o s # <<>>
      /\ \A i \in 1..Len(<<a, b>> \o s) :
           \/ (<<a, b>> \o s)[i] \in {a, b}
           \/ \E j \in 1..Len(s) : (<<a, b>> \o s)[i] = s[j]
  <2>1. \A i \in 1..Len(s) + 2 : i = 1 \/ i = 2 \/ i \in 3..Len(s) + 2
    OBVIOUS
  <2> QED
    BY <1>2, <2>1
<1> QED
  BY <1>1, <1>2, <1>3, <1>4

(* And without its first. *)
LEMMA Popped ==
    ASSUME NEW T, NEW s \in Seq(T), s # <<>>
    PROVE  /\ s[1] \in T /\ 1 \in 1..Len(s) /\ Tail(s) \in Seq(T)
           /\ \A i \in 1..Len(Tail(s)) : \E j \in 1..Len(s) : Tail(s)[i] = s[j]
<1>1. Len(s) \in Nat /\ Len(s) > 0 /\ Len(Tail(s)) = Len(s) - 1 /\ Tail(s) \in Seq(T)
  OBVIOUS
<1>2. \A i \in 1..Len(Tail(s)) : Tail(s)[i] = s[i + 1] /\ i + 1 \in 1..Len(s)
  BY <1>1
<1> QED
  BY <1>1, <1>2

(* A call of DeleteNodeSubtree returns. *)
LEMMA LeaveHolds ==
    ASSUME NEW r, WellFormed(r), HoldsInv(r), r.pc \in Clearing, NEW res, NEW s, s = Leave(r, res)
    PROVE  WellFormed(s) /\ HoldsInv(s) /\ s.pc \notin Making
<1>1. CASE Tail(r.stack) = <<>>
  <2>1. s = Return(r, res) /\ r.pc \notin {"idle", "descend", "check"}
    BY <1>1 DEF Leave, Clearing
  <2>2. Fresh(s)
    BY <2>1, ReturnFresh
  <2> QED
    BY <2>2, FreshHolds
<1>2. CASE Tail(r.stack) # <<>>
  <2>1. s = [r EXCEPT !.stack = Tail(@), !.pc = "kids"]
    BY <1>2 DEF Leave
  <2>2. /\ DOMAIN s = Slots /\ s.pc = "kids" /\ s.kind = r.kind /\ s.full = r.full
        /\ s.deadline = r.deadline /\ s.call = r.call /\ s.path = r.path
        /\ s.at = r.at /\ s.lvl = r.lvl /\ s.list = r.list
        /\ s.node = r.node /\ s.stack = Tail(r.stack) /\ s.walk = r.walk
    BY <2>1 DEF WellFormed, Slots
  <2>3. /\ s.stack \in Seq(Frames)
        /\ \A i \in 1..Len(s.stack) : \E j \in 1..Len(r.stack) : s.stack[i] = r.stack[j]
    BY <2>2, Popped DEF WellFormed
  <2>4. WellFormed(s)
    BY <1>2, <2>2, <2>3 DEF WellFormed, Steps, Making, Clearing
  <2>5. HoldsInv(s)
    BY <2>2, <2>3 DEF HoldsInv, Making
  <2> QED
    BY <2>2, <2>4, <2>5 DEF Making
<1> QED
  BY <1>1, <1>2

(* The lists of the tree hold nodes. *)
LEMMA TreeLists == IInv => Lists(tree)
  BY InsertedNodes DEF IInv, StoreInv, Lists

(* What hangs below a hidden node is hidden. *)
LEMMA HiddenKids ==
    ASSUME IInv, NEW n \in DOMAIN tree, n \notin Visible
    PROVE  Kids(tree[n]) \cap Visible = {}
<1> SUFFICES ASSUME NEW k \in Kids(tree[n]), k \in Visible PROVE FALSE
  OBVIOUS
<1>1. k \in inserted /\ k # Home
  BY InsertedNodes DEF IInv, StoreInv, Nodes, Home
<1>2. PICK m \in Visible : m \in DOMAIN tree /\ k \in Kids(tree[m])
  BY <1>1, TreeLists, ReachParent DEF Visible
<1> QED
  BY <1>2 DEF IInv, StoreInv

(* DeleteNodeSubtree reads the children of a hidden node: they are hidden    *)
(* too.                                                                      *)
LEMMA EnterStep ==
    ASSUME IInv, NEW p \in Procs, EnterSubtree(p)
    PROVE  IInv'
<1> DEFINE r == proc[p]
           n == r.stack[1].node
<1>0. WellFormed(r) /\ HoldsInv(r) /\ r.pc = "enter" /\ r.pc \in Clearing
  BY Here DEF EnterSubtree, Clearing
<1>1. CountInv' /\ UNCHANGED <<storeVars, diskVars, historyVars>>
  BY DEF EnterSubtree, IInv, CountInv, countVars
<1>2. r.stack \in Seq(Frames) /\ r.stack # <<>>
  BY <1>0 DEF WellFormed
<1>3. CASE n \notin DOMAIN tree
  <2>1. PICK s : Becomes(p, s) /\ s = Leave(r, "err")
    BY <1>3 DEF EnterSubtree
  <2>2. WellFormed(s) /\ HoldsInv(s) /\ s.pc \notin Making
    BY <1>0, <2>1, LeaveHolds
  <2> QED
    BY <1>1, <2>1, <2>2, QuietStep DEF Owns
<1>4. CASE n \in DOMAIN tree
  <2> DEFINE f == [node |-> n, kids |-> Children(tree[n])]
             rest == Tail(r.stack)
  <2>1. PICK s : Becomes(p, s) /\ s = [r EXCEPT !.pc = "kids", !.stack = <<f>> \o rest]
    BY <1>4 DEF EnterSubtree
  <2>2. /\ DOMAIN s = Slots /\ s.pc = "kids" /\ s.kind = r.kind /\ s.full = r.full
        /\ s.deadline = r.deadline /\ s.call = r.call /\ s.path = r.path
        /\ s.at = r.at /\ s.lvl = r.lvl /\ s.list = r.list
        /\ s.node = r.node /\ s.stack = <<f>> \o rest /\ s.walk = r.walk
    BY <1>0, <2>1 DEF WellFormed, Slots
  <2>3. /\ r.stack[1] \in Frames /\ rest \in Seq(Frames) /\ Hidden(r.stack[1])
        /\ \A i \in 1..Len(rest) : Hidden(rest[i])
    BY <1>0, <1>2, Popped DEF HoldsInv
  <2>4. n \in Nodes /\ n \in inserted \ Visible
    BY <2>3 DEF Frames, Hidden
  <2>5. /\ Children(tree[n]) \in Seq(Nodes)
        /\ \A j \in 1..Len(Children(tree[n])) : Children(tree[n])[j] \in Kids(tree[n])
    BY <1>4, ChildrenKids, TreeLists DEF IInv, StoreInv, Lists
  <2>6. Kids(tree[n]) \subseteq inserted \ Visible
    BY <1>4, <2>4, HiddenKids DEF IInv, StoreInv
  <2>7. f \in Frames /\ Hidden(f)
    BY <2>4, <2>5, <2>6 DEF Frames, Hidden
  <2> HIDE DEF f, rest
  <2>8. /\ s.stack \in Seq(Frames) /\ s.stack # <<>>
        /\ \A i \in 1..Len(s.stack) : Hidden(s.stack[i])
    BY <2>2, <2>3, <2>7, Pushed
  <2>9. WellFormed(s)
    BY <1>0, <2>2, <2>8 DEF WellFormed, Steps, Making, Clearing
  <2>10. HoldsInv(s) /\ Owns(p, s)
    BY <1>0, <2>2, <2>8 DEF HoldsInv, Owns, Making
  <2> QED
    BY <1>1, <2>1, <2>9, <2>10, QuietStep
<1> QED
  BY <1>3, <1>4

(* RecursiveDeleteFolder looks at the parent. *)
LEMMA EmptyStep ==
    ASSUME IInv, NEW p \in Procs, CheckEmpty(p)
    PROVE  IInv'
<1>1. WellFormed(proc[p]) /\ proc[p].pc = "empty"
  BY Here DEF CheckEmpty
<1>2. \A res : Fresh(Return(proc[p], res))
  BY <1>1, ReturnFresh
<1>3. \E res : Becomes(p, Return(proc[p], res))
  BY DEF CheckEmpty
<1>4. CountInv' /\ UNCHANGED <<storeVars, diskVars, historyVars>>
  BY DEF CheckEmpty, IInv, CountInv, countVars
<1> QED
  BY <1>2, <1>3, <1>4, FreshStep

(* The reaper goes on below the folder it has checked. *)
LEMMA DescendStep ==
    ASSUME IInv, Descend
    PROVE  IInv'
<1> DEFINE r == proc[Reaper]
           top == r.walk[1]
           n == IF r.walk = <<>> THEN Home ELSE Head(top.nodes)
           kids == IF n \in DOMAIN tree THEN Children(tree[n]) ELSE <<>>
           above == IF r.walk = <<>> THEN <<>> ELSE Level(top.prefix, Tail(top.nodes)) \o Tail(r.walk)
           todo == Level(r.full, kids) \o above
<1>0. WellFormed(r) /\ r.pc = "descend" /\ Reaper \in Procs
  BY Here DEF Descend, Procs
<1>1. CountInv' /\ UNCHANGED <<storeVars, diskVars, historyVars>>
  BY DEF Descend, IInv, CountInv, countVars
<1>2. PICK s : Becomes(Reaper, s) /\ s = IF todo = <<>> THEN Idle
                           ELSE [Idle EXCEPT !.kind = "expiry", !.pc = "check", !.walk = todo]
  BY DEF Descend
<1>3. \A prefix \in Seq(Segments), nodes \in Seq(Nodes) : Level(prefix, nodes) \in Seq(Levels)
  <2> SUFFICES ASSUME NEW prefix \in Seq(Segments), NEW nodes \in Seq(Nodes)
               PROVE  Level(prefix, nodes) \in Seq(Levels)
    OBVIOUS
  <2>1. CASE nodes = <<>>
    BY <2>1 DEF Level
  <2>2. CASE nodes # <<>>
    <3>1. PICK f \in Levels : f = [nodes |-> nodes, prefix |-> prefix]
      BY <2>2 DEF Levels, Segments
    <3>2. Level(prefix, nodes) = <<f>>
      BY <2>2, <3>1 DEF Level
    <3> QED
      BY <3>2
  <2> QED
    BY <2>1, <2>2
<1>4. kids \in Seq(Nodes)
  BY ChildrenKids, TreeLists DEF IInv, StoreInv, Lists
<1>5. above \in Seq(Levels)
  <2>1. CASE r.walk # <<>>
    <3>1. top \in Levels /\ Tail(r.walk) \in Seq(Levels)
      BY <1>0, <2>1, Popped DEF WellFormed
    <3>2. top.nodes \in Seq(Nodes) /\ top.nodes # <<>> /\ top.prefix \in Seq(Segments)
      BY <3>1 DEF Levels, Segments
    <3>3. Tail(top.nodes) \in Seq(Nodes)
      BY <3>2
    <3>4. Level(top.prefix, Tail(top.nodes)) \in Seq(Levels)
      BY <1>3, <3>2, <3>3
    <3> QED
      BY <2>1, <3>1, <3>4
  <2> QED
    BY <2>1
<1>6. todo \in Seq(Levels)
  <2>1. Level(r.full, kids) \in Seq(Levels)
    BY <1>0, <1>3, <1>4 DEF WellFormed
  <2> HIDE DEF kids, above
  <2> QED
    BY <1>5, <2>1
<1> HIDE DEF todo
<1>7. CASE todo = <<>>
  BY <1>0, <1>1, <1>2, <1>7, IdleFresh, FreshStep
<1>8. CASE todo # <<>>
  <2>1. /\ s.kind = "expiry" /\ s.full = <<>> /\ s.deadline = "future" /\ s.pc = "check"
        /\ s.call = "none" /\ DOMAIN s = Slots /\ s.walk = todo
    BY <1>2, <1>8 DEF Idle, Slots
  <2>2. /\ s.path = <<>> /\ s.at = Home /\ s.lvl = 0 /\ s.list = <<>> /\ s.node = Home
        /\ s.stack = <<>>
    BY <1>2, <1>8 DEF Idle
  <2>3. Fresh(s)
    BY <1>6, <1>8, <2>1, <2>2 DEF Fresh, WellFormed, Steps, Making, Clearing, Kinds, Adding, Ids
  <2> QED
    BY <1>0, <1>1, <1>2, <2>3, FreshStep
<1> QED
  BY <1>7, <1>8

(* The reaper reads a deadline. *)
LEMMA DeadlineStep ==
    ASSUME IInv, CheckDeadline
    PROVE  IInv'
<1> DEFINE r == proc[Reaper]
           n == Head(r.walk[1].nodes)
           name == IF n \in DOMAIN folderName THEN folderName[n] ELSE NoName
           here == [r EXCEPT !.full = Append(r.walk[1].prefix, name)]
<1>0. WellFormed(r) /\ r.pc = "check" /\ Reaper \in Procs /\ r.kind = "expiry" /\ r.walk # <<>>
  BY Here DEF CheckDeadline, Procs, WellFormed
<1>1. CountInv' /\ UNCHANGED <<storeVars, diskVars, historyVars>>
  BY DEF CheckDeadline, IInv, CountInv
<1>2. r.walk[1] \in Levels
  BY <1>0, Popped DEF WellFormed
<1>3. n \in Nodes /\ r.walk[1].prefix \in Seq(Segments)
  BY <1>2 DEF Levels, Segments
<1>4. name \in Segments
  BY <1>3 DEF IInv, StoreInv, Segments, Nodes, Home
<1>5. Append(r.walk[1].prefix, name) \in Seq(Segments) /\ Append(r.walk[1].prefix, name) # <<>>
  BY SMTT(30), <1>3, <1>4
<1>6. /\ DOMAIN here = Slots /\ here.pc = "check" /\ here.kind = "expiry"
      /\ here.full = Append(r.walk[1].prefix, name) /\ here.deadline = r.deadline
      /\ here.call = r.call /\ here.path = r.path /\ here.at = r.at /\ here.lvl = r.lvl
      /\ here.list = r.list /\ here.node = r.node /\ here.stack = r.stack /\ here.walk = r.walk
  BY <1>0 DEF WellFormed, Slots
<1>7. \/ \E res : Becomes(Reaper, AfterCheck(here, res))
      \/ Becomes(Reaper, Call(here, "delete", here.full))
  BY DEF CheckDeadline
<1> HIDE DEF here, name
<1>8. WellFormed(here)
  BY <1>0, <1>5, <1>6 DEF WellFormed, Adding
<1>9. (\A res : Fresh(AfterCheck(here, res))) /\ Fresh(Call(here, "delete", here.full))
  BY <1>0, <1>5, <1>6, <1>8, AfterCheckFresh, CallFresh
<1> QED
  BY <1>0, <1>1, <1>7, <1>9, FreshStep

(* After a crash nothing is held. *)
LEMMA RestartStep ==
    ASSUME IInv, Restart, CountInv', UNCHANGED <<storeVars, diskVars, historyVars>>
    PROVE  IInv'
<1>1. /\ tree' = tree /\ folderName' = folderName /\ satellite' = satellite /\ disk' = disk
      /\ mstore' = mstore /\ next' = next /\ inserted' = inserted /\ seen' = seen /\ Visible' = Visible
  BY DEF storeVars, diskVars, historyVars, Visible
<1>2. StoreInv' /\ VisibleInv' /\ SeenInv'
  BY <1>1 DEF IInv, StoreInv, VisibleInv, SeenInv
<1>3. PICK s : s = Idle
  OBVIOUS
<1>4. WellFormed(s) /\ HoldsInv(s)' /\ s.pc \notin Making
  BY <1>3, IdleFresh, FreshHolds
<1>5. DOMAIN proc' = Procs /\ \A p \in Procs : proc'[p] = s
  BY <1>3 DEF Restart
<1>6. ProcInv'
  <2>1. \A p \in Procs : WellFormed(proc'[p])
    BY <1>4, <1>5
  <2>2. ASSUME NEW p \in Procs PROVE HoldsInv(proc[p])'
    BY <1>4, <1>5 DEF HoldsInv, Hidden
  <2> QED
    BY <1>4, <1>5, <2>1, <2>2 DEF ProcInv, WellFormed
<1> QED
  BY <1>2, <1>6 DEF IInv

(* The process dies. *)
LEMMA CrashStep ==
    ASSUME IInv, Crash
    PROVE  IInv'
<1>1. CountInv' /\ UNCHANGED <<storeVars, diskVars, historyVars>> /\ Restart
  BY TreeAssumption DEF Crash, IInv, CountInv
<1> QED
  BY <1>1, RestartStep

-----------------------------------------------------------------------------
(* Steps that leave the tree alone. *)

(* What can be browsed depends on the tree only. *)
LEMMA SameTree == tree' = tree => Visible' = Visible
  BY DEF Visible

(* Only what was inserted can be browsed. *)
LEMMA VisibleInserted == IInv => Visible \subseteq {Home} \cup inserted
<1> SUFFICES ASSUME IInv PROVE Visible \subseteq {Home} \cup inserted
  OBVIOUS
<1>1. Kids(tree[Home]) \subseteq inserted
  BY DEF IInv, StoreInv
<1>2. \A m \in inserted : m \in DOMAIN tree => Kids(tree[m]) \subseteq inserted
  BY DEF IInv, StoreInv
<1> QED
  BY <1>1, <1>2, InsertedNodes, ReachLeast DEF Visible

(* What the others are making is neither inserted nor what p makes. *)
LEMMA OthersMake ==
    ASSUME IInv, NEW p \in Procs, NEW q \in Procs \ {p}, proc[q].pc \in Making
    PROVE  /\ proc[q].node \in 1..next - 1 /\ proc[q].node \notin inserted
           /\ proc[p].pc \in Making => proc[q].node # proc[p].node
           /\ proc[q].node \in Nodes /\ \A m \in seen[proc[q].node] : m \in inserted
<1>1. proc[q].node \in 1..next - 1 /\ proc[q].node \notin inserted
  BY Here DEF HoldsInv
<1>2. proc[p].pc \in Making => proc[q].node # proc[p].node
  BY DEF IInv, ProcInv
<1>3. proc[q].node \in Nodes
  BY <1>1, TreeAssumption DEF IInv, StoreInv, Nodes
<1> QED
  BY <1>1, <1>2, <1>3 DEF IInv, SeenInv

(* A creation draws a new number; nothing knows it yet. *)
LEMMA SiblingsStep ==
    ASSUME IInv, NEW p \in Procs, CheckSiblings(p)
    PROVE  IInv'
<1> DEFINE r == proc[p]
           name == r.path[Len(r.path)]
<1>0. WellFormed(r) /\ HoldsInv(r) /\ r.pc = "match" /\ r.lvl = Len(Goal(r))
  BY Here DEF CheckSiblings
<1>1. CountInv' /\ UNCHANGED <<storeVars, diskVars>> /\ inserted' = inserted
  BY DEF CheckSiblings, IInv, CountInv, countVars
<1>2. r.call = "create"
  BY <1>0 DEF WellFormed, Goal
<1>3. ASSUME NEW res, Becomes(p, Return(r, res)), UNCHANGED <<next, seen>>
      PROVE  IInv'
  <2>1. Fresh(Return(r, res))
    BY <1>0, ReturnFresh
  <2> QED
    BY <1>1, <1>3, <2>1, FreshStep DEF historyVars
<1>4. ASSUME \A n \in Kids(r.list) : n \in DOMAIN folderName /\ folderName[n] # name,
             next \in Nodes, next' = next + 1, seen' = [seen EXCEPT ![next] = Kids(r.list)],
             NEW s, s = [r EXCEPT !.pc = "mkdir", !.node = next, !.list = <<>>], Becomes(p, s)
      PROVE  IInv'
  <2>1. /\ DOMAIN s = Slots /\ s.pc = "mkdir" /\ s.kind = r.kind /\ s.full = r.full
        /\ s.deadline = r.deadline /\ s.call = r.call /\ s.path = r.path
        /\ s.at = r.at /\ s.lvl = r.lvl /\ s.list = <<>>
        /\ s.node = next /\ s.stack = r.stack /\ s.walk = r.walk
    BY <1>0, <1>4 DEF WellFormed, Slots
  <2>2. /\ tree' = tree /\ folderName' = folderName /\ satellite' = satellite /\ disk' = disk
        /\ mstore' = mstore /\ Visible' = Visible
    BY <1>1, SameTree DEF storeVars, diskVars
  <2>3. next \in Nat /\ next >= 1 /\ next <= MaxNodes /\ inserted \subseteq 1..next - 1
    BY <1>4, TreeAssumption DEF Nodes, IInv, StoreInv
  <2>4. StoreInv'
    <3>1. next' \in 1..MaxNodes + 1 /\ inserted' \subseteq 1..next' - 1
      BY <1>1, <1>4, <2>3, TreeAssumption
    <3>2. DOMAIN folderName' \subseteq {Home} \cup 1..next' - 1
      BY <1>4, <2>2, <2>3 DEF IInv, StoreInv
    <3> QED
      BY <1>1, <2>2, <3>1, <3>2 DEF IInv, StoreInv
  <2>5. VisibleInv'
    BY <2>2 DEF IInv, VisibleInv
  <2>6. Kids(r.list) \subseteq inserted /\ next \notin inserted /\ next \notin DOMAIN folderName
    BY <1>0, <2>3 DEF HoldsInv, IInv, StoreInv, Home
  <2>7. seen' \in [Nodes -> SUBSET Nodes]
    BY <1>4, <2>6, InsertedNodes DEF IInv, SeenInv
  <2>8. SeenInv'
    <3>1. ASSUME NEW n \in Nodes, NEW m \in seen'[n]
          PROVE  /\ m \in inserted /\ m < n
                 /\ m \in DOMAIN folderName /\ n \in DOMAIN folderName => folderName[m] # folderName[n]
      <4>1. CASE n = next
        BY <1>4, <2>3, <2>6, <4>1 DEF IInv, SeenInv
      <4>2. CASE n # next
        BY <1>4, <4>2 DEF IInv, SeenInv
      <4> QED
        BY <4>1, <4>2
    <3> QED
      BY <1>1, <2>2, <2>7, <3>1 DEF SeenInv
  <2>9. WellFormed(s)
    BY <1>0, <1>2, <1>4, <2>1 DEF WellFormed, Steps, Making, Clearing, Ids
  <2>10. HoldsInv(s)'
    <3>1. s.at \in {Home} \cup inserted /\ Kids(s.list) \subseteq inserted
      BY <1>0, <2>1 DEF HoldsInv, Kids
    <3>2. s.node \in 1..next' - 1 /\ s.node \notin inserted /\ s.at < s.node
      BY <1>4, <2>1, <2>3, <2>6, <3>1 DEF Home
    <3>3. seen'[s.node] = Kids(r.list)
      BY <1>4, <2>1 DEF IInv, SeenInv
    <3>4. \A i \in 1..Len(s.stack) : Hidden(s.stack[i])
      BY <1>0, <2>1 DEF HoldsInv
    <3> QED
      BY <1>1, <1>4, <2>1, <2>2, <3>1, <3>2, <3>3, <3>4 DEF HoldsInv, Hidden
  <2>11. \A q \in Procs \ {p} : proc[q].pc \in Making => Spares(proc[q].node) /\ proc[q].node # next
    BY <1>1, <1>4, <2>2, <2>3, OthersMake DEF Spares, IInv, SeenInv
  <2>12. Owns(p, s)
    BY <2>1, <2>11 DEF Owns
  <2>13. ProcInv'
    BY <1>1, <1>4, <2>2, <2>3, <2>9, <2>10, <2>11, <2>12, ProcStep DEF IInv
  <2> QED
    BY <1>1, <2>4, <2>5, <2>8, <2>13 DEF IInv
<1> QED
  BY <1>3, <1>4 DEF CheckSiblings

(* One directory is made, filled or removed: that of a node which cannot be  *)
(* browsed, or which has none.                                               *)
LEMMA DiskStep ==
    ASSUME IInv, NEW p \in Procs, NEW s, Becomes(p, s), NEW n \in Nodes,
           n \notin Visible \/ n \notin DOMAIN disk,
           n \in inserted \/ (proc[p].pc \in Making /\ proc[p].node = n),
           \/ disk' = Drop(disk, n)
           \/ \E d \in {"none", "past", "future"} : disk' = Put(disk, n, d),
           UNCHANGED <<storeVars, mstore, historyVars>>, CountInv',
           WellFormed(s), HoldsInv(s)', Owns(p, s)
    PROVE  IInv'
<1>1. /\ tree' = tree /\ folderName' = folderName /\ satellite' = satellite /\ mstore' = mstore
      /\ next' = next /\ inserted' = inserted /\ seen' = seen /\ Visible' = Visible
  BY SameTree DEF storeVars, historyVars
<1>2. /\ disk' \in [DOMAIN disk' -> {"none", "past", "future"}] /\ DOMAIN disk' \subseteq Ids
      /\ \A m \in DOMAIN disk : m # n => m \in DOMAIN disk' /\ disk'[m] = disk[m]
  BY DEF IInv, StoreInv, Put, Drop, Ids
<1>3. StoreInv'
  BY <1>1, <1>2 DEF IInv, StoreInv
<1>4. VisibleInv'
  BY <1>1, <1>2 DEF IInv, VisibleInv
<1>5. SeenInv'
  BY <1>1 DEF IInv, SeenInv
<1>6. \A q \in Procs \ {p} : proc[q].pc \in Making => Spares(proc[q].node)
  BY <1>1, <1>2, OthersMake DEF Spares
<1>7. next' \in Nat /\ next' >= next
  BY <1>1 DEF IInv, StoreInv
<1>8. ProcInv'
  BY <1>1, <1>6, <1>7, ProcStep DEF IInv
<1> QED
  BY <1>3, <1>4, <1>5, <1>8 DEF IInv

(* The satellite mapping or mstore's disk changes. *)
LEMMA SatelliteStep ==
    ASSUME IInv, NEW p \in Procs, NEW s, Becomes(p, s),
           satellite' \in [DOMAIN satellite' -> Paths], DOMAIN satellite' \subseteq Ids,
           mstore' \subseteq Paths, UNCHANGED <<tree, folderName, disk, historyVars>>, CountInv',
           WellFormed(s), HoldsInv(s), s.pc \notin Making
    PROVE  IInv'
<1>1. /\ tree' = tree /\ folderName' = folderName /\ disk' = disk
      /\ next' = next /\ inserted' = inserted /\ seen' = seen /\ Visible' = Visible
  BY SameTree DEF historyVars
<1>2. StoreInv' /\ VisibleInv' /\ SeenInv'
  BY <1>1 DEF IInv, StoreInv, VisibleInv, SeenInv
<1>3. HoldsInv(s)'
  BY <1>1 DEF HoldsInv, Hidden
<1>4. \A q \in Procs \ {p} : proc[q].pc \in Making => Spares(proc[q].node)
  BY <1>1 DEF IInv, ProcInv, HoldsInv, Spares
<1>5. next' \in Nat /\ next' >= next
  BY <1>1 DEF IInv, StoreInv
<1>6. ProcInv'
  BY <1>1, <1>3, <1>4, <1>5, ProcStep DEF IInv, Owns
<1> QED
  BY <1>2, <1>6 DEF IInv

-----------------------------------------------------------------------------
(* Directories, names and satellite mappings. *)

(* The node a creation works on cannot be browsed yet. *)
LEMMA MakesHidden ==
    ASSUME IInv, NEW p \in Procs, proc[p].pc \in Making
    PROVE  proc[p].node \in Nodes /\ proc[p].node \notin Visible /\ proc[p].node \notin inserted
<1>1. proc[p].node \in 1..next - 1 /\ proc[p].node \notin inserted
  BY Here DEF HoldsInv
<1>2. proc[p].node \in Nodes /\ proc[p].node # Home
  BY <1>1, TreeAssumption DEF IInv, StoreInv, Nodes, Home
<1> QED
  BY <1>1, <1>2, VisibleInserted

(* The directory of a node that is not inserted. *)
LEMMA MakeDirStep ==
    ASSUME IInv, NEW p \in Procs, MakeDir(p)
    PROVE  IInv'
<1> DEFINE r == proc[p]
<1>0. WellFormed(r) /\ HoldsInv(r) /\ r.pc = "mkdir" /\ r.pc \in Making
  BY Here DEF MakeDir, Making
<1>1. PICK s : s = [r EXCEPT !.pc = "fetch"] /\ Becomes(p, s)
  BY GotoBecomes DEF MakeDir
<1>2. /\ DOMAIN s = Slots /\ s.pc = "fetch" /\ s.kind = r.kind /\ s.full = r.full
      /\ s.deadline = r.deadline /\ s.call = r.call /\ s.path = r.path /\ s.at = r.at
      /\ s.lvl = r.lvl /\ s.list = r.list /\ s.node = r.node /\ s.stack = r.stack
      /\ s.walk = r.walk
  BY <1>0, <1>1, MovedTo
<1>3. /\ folderName' = folderName /\ next' = next /\ inserted' = inserted /\ seen' = seen
      /\ Visible' = Visible /\ UNCHANGED <<storeVars, mstore, historyVars>> /\ CountInv'
  BY SameTree DEF MakeDir, storeVars, historyVars, countVars, IInv, CountInv
<1>4. WellFormed(s)
  BY <1>0, <1>2 DEF WellFormed, Steps, Making, Clearing
<1>5. HoldsInv(s)'
  BY <1>0, <1>2, <1>3 DEF HoldsInv, Hidden, Making
<1>6. Owns(p, s)
  BY <1>0, <1>2 DEF Owns
<1>7. disk' = Put(disk, r.node, "none")
  BY DEF MakeDir
<1> QED
  BY <1>0, <1>1, <1>3, <1>4, <1>5, <1>6, <1>7, MakesHidden, DiskStep

(* The files arrive, or the directory goes. *)
LEMMA DownloadStep ==
    ASSUME IInv, NEW p \in Procs, DownloadFiles(p)
    PROVE  IInv'
<1> DEFINE r == proc[p]
<1>0. WellFormed(r) /\ HoldsInv(r) /\ r.pc = "fetch" /\ r.pc \in Making
  BY Here DEF DownloadFiles, Making
<1>1. /\ folderName' = folderName /\ next' = next /\ inserted' = inserted /\ seen' = seen
      /\ Visible' = Visible /\ UNCHANGED <<storeVars, mstore, historyVars>>
  BY SameTree DEF DownloadFiles, storeVars, historyVars
<1>2. CountInv'
  BY TreeAssumption DEF DownloadFiles, IInv, CountInv
<1>3. CASE disk' = Put(disk, r.node, r.deadline) /\ Goto(p, "name")
  <2>1. PICK s : s = [r EXCEPT !.pc = "name"] /\ Becomes(p, s)
    BY <1>3, GotoBecomes
  <2>2. /\ DOMAIN s = Slots /\ s.pc = "name" /\ s.kind = r.kind /\ s.full = r.full
        /\ s.deadline = r.deadline /\ s.call = r.call /\ s.path = r.path /\ s.at = r.at
        /\ s.lvl = r.lvl /\ s.list = r.list /\ s.node = r.node /\ s.stack = r.stack
        /\ s.walk = r.walk
    BY <1>0, <2>1, MovedTo
  <2>3. WellFormed(s)
    BY <1>0, <2>2 DEF WellFormed, Steps, Making, Clearing
  <2>4. r.deadline \in {"none", "past", "future"} /\ r.deadline # "none"
    BY <1>0 DEF WellFormed
  <2>5. r.node \in DOMAIN disk' /\ disk'[r.node] # "none"
    BY <1>3, <2>4 DEF Put
  <2>6. HoldsInv(s)'
    BY <1>0, <1>1, <2>2, <2>5 DEF HoldsInv, Hidden, Making
  <2>7. Owns(p, s)
    BY <1>0, <2>2 DEF Owns
  <2> QED
    BY <1>0, <1>1, <1>2, <1>3, <2>1, <2>3, <2>4, <2>6, <2>7, MakesHidden, DiskStep
<1>4. CASE disk' = Drop(disk, r.node) /\ Becomes(p, Return(r, "err"))
  <2>1. PICK s : s = Return(r, "err") /\ Becomes(p, s)
    BY <1>4
  <2>2. Fresh(s)
    BY <1>0, <2>1, ReturnFresh
  <2>3. WellFormed(s) /\ HoldsInv(s)' /\ Owns(p, s)
    BY <2>2, FreshHolds DEF Owns
  <2> QED
    BY <1>0, <1>1, <1>2, <1>4, <2>1, <2>3, MakesHidden, DiskStep
<1> QED
  BY <1>3, <1>4 DEF DownloadFiles, StoreDeadline

(* Files for an existing folder: no directory that is there is touched. *)
LEMMA AddToStep ==
    ASSUME IInv, NEW p \in Procs, AddToExisting(p)
    PROVE  IInv'
<1> DEFINE r == proc[p]
<1>0. WellFormed(r) /\ HoldsInv(r) /\ r.pc = "addto" /\ Becomes(p, Idle)
  BY Here DEF AddToExisting
<1>1. UNCHANGED <<storeVars, mstore, historyVars>>
  BY DEF AddToExisting
<1>2. CountInv'
  BY TreeAssumption DEF AddToExisting, IInv, CountInv
<1>3. CASE disk' = disk
  BY <1>0, <1>1, <1>2, <1>3, IdleFresh, FreshStep DEF diskVars
<1>4. CASE r.node \notin DOMAIN disk /\ \E d \in {"none", "past", "future"} : disk' = Put(disk, r.node, d)
  <2>1. r.node \in Nodes /\ r.node \in inserted
    BY <1>0, InsertedNodes DEF HoldsInv
  <2>2. WellFormed(Idle) /\ HoldsInv(Idle)' /\ Owns(p, Idle)
    BY IdleFresh, FreshHolds DEF Owns
  <2> QED
    BY <1>0, <1>1, <1>2, <1>4, <2>1, <2>2, DiskStep
<1>5. r.deadline \in {"none", "past", "future"}
  BY <1>0 DEF WellFormed
<1> QED
  BY <1>3, <1>4, <1>5 DEF AddToExisting, StoreDeadline

(* DeleteFolder removes the directory of the node it has detached. *)
LEMMA RemoveFolderStep ==
    ASSUME IInv, NEW p \in Procs, RemoveFolder(p)
    PROVE  IInv'
<1> DEFINE r == proc[p]
           f == [node |-> r.node, kids |-> <<>>]
<1>0. WellFormed(r) /\ HoldsInv(r) /\ r.pc = "rmDir"
  BY Here DEF RemoveFolder
<1>1. PICK s : s = [r EXCEPT !.pc = "enter", !.stack = <<f>>] /\ Becomes(p, s)
  BY DEF RemoveFolder
<1>2. /\ DOMAIN s = Slots /\ s.pc = "enter" /\ s.kind = r.kind /\ s.full = r.full
      /\ s.deadline = r.deadline /\ s.call = r.call /\ s.path = r.path /\ s.at = r.at
      /\ s.lvl = r.lvl /\ s.list = r.list /\ s.node = r.node /\ s.stack = <<f>>
      /\ s.walk = r.walk
  BY <1>0, <1>1 DEF WellFormed, Slots
<1>3. /\ next' = next /\ inserted' = inserted /\ Visible' = Visible
      /\ UNCHANGED <<storeVars, mstore, historyVars>> /\ CountInv'
  BY SameTree DEF RemoveFolder, storeVars, historyVars, countVars, IInv, CountInv
<1>4. r.node \in inserted \ Visible /\ r.node \in Nodes
  BY <1>0, InsertedNodes DEF HoldsInv
<1>5. f \in Frames /\ Hidden(f)
  BY <1>4 DEF Frames, Hidden
<1> HIDE DEF f
<1>6. s.stack \in Seq(Frames) /\ s.stack # <<>> /\ \A i \in 1..Len(s.stack) : s.stack[i] = f
  BY <1>2, <1>5
<1>7. WellFormed(s)
  BY <1>0, <1>2, <1>6 DEF WellFormed, Steps, Making, Clearing
<1>8. HoldsInv(s)'
  BY <1>0, <1>2, <1>3, <1>5, <1>6 DEF HoldsInv, Hidden, Making
<1>9. Owns(p, s)
  BY <1>2 DEF Owns, Making
<1>10. disk' = Drop(disk, r.node)
  BY DEF RemoveFolder
<1> QED
  BY <1>1, <1>3, <1>4, <1>7, <1>8, <1>9, <1>10, DiskStep

(* DeleteNodeSubtree removes the directory of a hidden node. *)
LEMMA RemoveSubtreeStep ==
    ASSUME IInv, NEW p \in Procs, RemoveSubtreeFolder(p)
    PROVE  IInv'
<1> DEFINE r == proc[p]
           n == r.stack[1].node
<1>0. WellFormed(r) /\ HoldsInv(r) /\ r.pc = "dir" /\ r.pc \in Clearing
  BY Here DEF RemoveSubtreeFolder, Clearing
<1>1. PICK s : s = Leave(r, "ok") /\ Becomes(p, s)
  BY DEF RemoveSubtreeFolder
<1>2. WellFormed(s) /\ HoldsInv(s) /\ s.pc \notin Making
  BY <1>0, <1>1, LeaveHolds
<1>3. /\ next' = next /\ inserted' = inserted /\ Visible' = Visible
      /\ UNCHANGED <<storeVars, mstore, historyVars>> /\ CountInv'
  BY SameTree DEF RemoveSubtreeFolder, storeVars, historyVars, countVars, IInv, CountInv
<1>4. n \in inserted \ Visible
  BY <1>0, Popped DEF WellFormed, HoldsInv, Hidden
<1>5. HoldsInv(s)'
  BY <1>2, <1>3 DEF HoldsInv, Hidden, Making
<1>6. disk' = Drop(disk, n)
  BY DEF RemoveSubtreeFolder
<1> QED
  BY <1>1, <1>2, <1>3, <1>4, <1>5, <1>6, InsertedNodes, DiskStep DEF Owns

(* DeleteFolder removes satellite content. *)
LEMMA RemoveSatelliteStep ==
    ASSUME IInv, NEW p \in Procs, RemoveSatelliteFolder(p)
    PROVE  IInv'
<1> DEFINE r == proc[p]
<1>0. WellFormed(r) /\ HoldsInv(r) /\ r.pc = "rmSat"
  BY Here DEF RemoveSatelliteFolder
<1>1. PICK s : s = [r EXCEPT !.pc = "rmDir"] /\ Becomes(p, s)
  BY GotoBecomes DEF RemoveSatelliteFolder
<1>2. /\ DOMAIN s = Slots /\ s.pc = "rmDir" /\ s.kind = r.kind /\ s.full = r.full
      /\ s.deadline = r.deadline /\ s.call = r.call /\ s.path = r.path /\ s.at = r.at
      /\ s.lvl = r.lvl /\ s.list = r.list /\ s.node = r.node /\ s.stack = r.stack
      /\ s.walk = r.walk
  BY <1>0, <1>1, MovedTo
<1>3. WellFormed(s) /\ HoldsInv(s) /\ s.pc \notin Making
  BY <1>0, <1>2 DEF WellFormed, HoldsInv, Steps, Making, Clearing
<1>4. /\ UNCHANGED <<tree, folderName, disk, historyVars>> /\ CountInv' /\ satellite' = satellite
      /\ mstore' \subseteq mstore
  BY DEF RemoveSatelliteFolder, storeVars, countVars, IInv, CountInv
<1> QED
  BY <1>1, <1>3, <1>4, SatelliteStep DEF IInv, StoreInv

(* DeleteNodeSubtree removes satellite content. *)
LEMMA RemoveContentStep ==
    ASSUME IInv, NEW p \in Procs, RemoveContent(p)
    PROVE  IInv'
<1> DEFINE r == proc[p]
<1>0. WellFormed(r) /\ HoldsInv(r) /\ r.pc = "content"
  BY Here DEF RemoveContent
<1>1. PICK s : s = [r EXCEPT !.pc = "dir", !.content = <<>>] /\ Becomes(p, s)
  BY DEF RemoveContent
<1>2. /\ DOMAIN s = Slots /\ s.pc = "dir" /\ s.kind = r.kind /\ s.full = r.full
      /\ s.deadline = r.deadline /\ s.call = r.call /\ s.path = r.path /\ s.at = r.at
      /\ s.lvl = r.lvl /\ s.list = r.list /\ s.node = r.node /\ s.stack = r.stack
      /\ s.walk = r.walk
  BY <1>0, <1>1 DEF WellFormed, Slots
<1>3. WellFormed(s) /\ HoldsInv(s) /\ s.pc \notin Making
  BY <1>0, <1>2 DEF WellFormed, HoldsInv, Steps, Making, Clearing
<1>4. /\ UNCHANGED <<tree, folderName, disk, historyVars>> /\ CountInv' /\ satellite' = satellite
      /\ mstore' \subseteq mstore
  BY DEF RemoveContent, storeVars, countVars, IInv, CountInv
<1> QED
  BY <1>1, <1>3, <1>4, SatelliteStep DEF IInv, StoreInv

(* The mapping of a satellite folder is stored. *)
LEMMA MarkStep ==
    ASSUME IInv, NEW p \in Procs, MarkFolderSatellite(p)
    PROVE  IInv'
<1> DEFINE r == proc[p]
<1>0. WellFormed(r) /\ HoldsInv(r) /\ r.pc = "mark"
  BY Here DEF MarkFolderSatellite
<1>1. PICK s : s = Return(r, "ok") /\ Becomes(p, s)
  BY DEF MarkFolderSatellite
<1>2. WellFormed(s) /\ HoldsInv(s) /\ s.pc \notin Making
  BY <1>0, <1>1, ReturnFresh, FreshHolds
<1>3. r.node \in Ids /\ r.path \in Paths
  BY <1>0 DEF WellFormed
<1>4. satellite' \in [DOMAIN satellite' -> Paths] /\ DOMAIN satellite' \subseteq Ids
  BY <1>3 DEF MarkFolderSatellite, Put, IInv, StoreInv
<1>5. /\ UNCHANGED <<tree, folderName, disk, historyVars>> /\ CountInv' /\ mstore' = mstore
  BY DEF MarkFolderSatellite, diskVars, countVars, IInv, CountInv
<1> QED
  BY <1>1, <1>2, <1>4, <1>5, SatelliteStep DEF IInv, StoreInv

(* The mapping of a satellite folder is removed. *)
LEMMA UnmapStep ==
    ASSUME IInv, NEW p \in Procs, DeleteSatelliteMapping(p)
    PROVE  IInv'
<1> DEFINE r == proc[p]
           n == r.stack[1].node
<1>0. WellFormed(r) /\ HoldsInv(r) /\ r.pc = "unmap"
  BY Here DEF DeleteSatelliteMapping
<1>1. PICK s : /\ \/ s = [r EXCEPT !.pc = "content", !.content = satellite[n]]
                  \/ s = [r EXCEPT !.pc = "dir"]
               /\ Becomes(p, s)
  BY GotoBecomes DEF DeleteSatelliteMapping
<1>2. /\ DOMAIN s = Slots /\ s.pc \in {"content", "dir"} /\ s.kind = r.kind /\ s.full = r.full
      /\ s.deadline = r.deadline /\ s.call = r.call /\ s.path = r.path /\ s.at = r.at
      /\ s.lvl = r.lvl /\ s.list = r.list /\ s.node = r.node /\ s.stack = r.stack
      /\ s.walk = r.walk
  BY <1>0, <1>1 DEF WellFormed, Slots
<1>3. WellFormed(s) /\ HoldsInv(s) /\ s.pc \notin Making
  <2>1. WellFormed(s)
    BY <1>0, <1>2 DEF WellFormed, Steps, Making, Clearing
  <2> QED
    BY <1>0, <1>2, <2>1 DEF HoldsInv, Making
<1>4. satellite' \in [DOMAIN satellite' -> Paths] /\ DOMAIN satellite' \subseteq Ids
  BY DEF DeleteSatelliteMapping, Drop, IInv, StoreInv
<1>5. /\ UNCHANGED <<tree, folderName, disk, historyVars>> /\ CountInv' /\ mstore' = mstore
  BY DEF DeleteSatelliteMapping, diskVars, countVars, IInv, CountInv
<1> QED
  BY <1>1, <1>3, <1>4, <1>5, SatelliteStep DEF IInv, StoreInv

(* The name is stored while its node is still p's own. *)
LEMMA NameStep ==
    ASSUME IInv, NEW p \in Procs, PutFolderName(p)
    PROVE  IInv'
<1> DEFINE r == proc[p]
           name == r.path[Len(r.path)]
<1>0. WellFormed(r) /\ HoldsInv(r) /\ r.pc = "name" /\ r.pc \in Making
  BY Here DEF PutFolderName, Making
<1>1. PICK s : s = [r EXCEPT !.pc = "insert"] /\ Becomes(p, s)
  BY GotoBecomes DEF PutFolderName
<1>2. /\ DOMAIN s = Slots /\ s.pc = "insert" /\ s.kind = r.kind /\ s.full = r.full
      /\ s.deadline = r.deadline /\ s.call = r.call /\ s.path = r.path /\ s.at = r.at
      /\ s.lvl = r.lvl /\ s.list = r.list /\ s.node = r.node /\ s.stack = r.stack
      /\ s.walk = r.walk
  BY <1>0, <1>1, MovedTo
<1>3. /\ tree' = tree /\ satellite' = satellite /\ disk' = disk /\ mstore' = mstore
      /\ next' = next /\ inserted' = inserted /\ seen' = seen /\ Visible' = Visible /\ CountInv'
      /\ folderName' = Put(folderName, r.node, name)
  BY SameTree DEF PutFolderName, diskVars, historyVars, countVars, IInv, CountInv
<1>4. name \in Names
  <2>1. r.path \in Seq(Names) /\ r.path # <<>>
    BY <1>0 DEF WellFormed
  <2> QED
    BY <2>1
<1>5. r.node \in 1..next - 1 /\ r.node \in Nodes /\ r.node \notin inserted /\ r.node # Home
  BY <1>0, MakesHidden DEF HoldsInv, Nodes, Home
<1>6. /\ DOMAIN folderName' = DOMAIN folderName \cup {r.node} /\ folderName'[r.node] = name
      /\ \A m \in DOMAIN folderName : m # r.node => folderName'[m] = folderName[m]
  BY <1>3 DEF Put
<1>7. StoreInv'
  <2>1. folderName' \in [DOMAIN folderName' -> Names \cup {"home"}]
    BY <1>3, <1>4 DEF Put, IInv, StoreInv
  <2>2. DOMAIN folderName' \subseteq {Home} \cup 1..next - 1
    BY <1>5, <1>6 DEF IInv, StoreInv
  <2>3. \A n \in DOMAIN folderName' : n # Home => folderName'[n] \in Names
    BY <1>4, <1>6 DEF IInv, StoreInv
  <2> QED
    BY <1>3, <2>1, <2>2, <2>3 DEF IInv, StoreInv
<1>8. VisibleInv'
  BY <1>3, <1>6 DEF IInv, VisibleInv
<1>9. SeenInv'
  <2>1. ASSUME NEW n \in Nodes, NEW m \in seen[n], m \in DOMAIN folderName', n \in DOMAIN folderName'
        PROVE  folderName'[m] # folderName'[n]
    <3>1. m \in inserted /\ m # r.node /\ m \in DOMAIN folderName /\ folderName'[m] = folderName[m]
      BY <1>5, <1>6, <2>1 DEF IInv, SeenInv
    <3>2. CASE n = r.node
      BY <1>0, <1>6, <3>1, <3>2 DEF HoldsInv, Making
    <3>3. CASE n # r.node
      BY <1>6, <2>1, <3>1, <3>3 DEF IInv, SeenInv
    <3> QED
      BY <3>2, <3>3
  <2> QED
    BY <1>3, <2>1 DEF IInv, SeenInv
<1>10. WellFormed(s)
  BY <1>0, <1>2 DEF WellFormed, Steps, Making, Clearing
<1>11. HoldsInv(s)'
  BY <1>0, <1>2, <1>3, <1>6 DEF HoldsInv, Hidden, Making
<1>12. Owns(p, s)
  BY <1>0, <1>2 DEF Owns
<1>13. \A q \in Procs \ {p} : proc[q].pc \in Making => Spares(proc[q].node)
  BY <1>3, <1>5, <1>6, OthersMake DEF Spares
<1>14. next' \in Nat /\ next' >= next
  BY <1>3 DEF IInv, StoreInv
<1>15. ProcInv'
  BY <1>1, <1>3, <1>10, <1>11, <1>12, <1>13, <1>14, ProcStep DEF IInv
<1> QED
  BY <1>3, <1>7, <1>8, <1>9, <1>15 DEF IInv

(* The name of a node that cannot be browsed goes. *)
LEMMA UnnameStep ==
    ASSUME IInv, NEW p \in Procs, DeleteFolderName(p)
    PROVE  IInv'
<1> DEFINE r == proc[p]
           n == r.stack[1].node
<1>0. WellFormed(r) /\ HoldsInv(r) /\ r.pc = "unname" /\ r.pc \in Clearing
  BY Here DEF DeleteFolderName, Clearing
<1>1. PICK s : s = [r EXCEPT !.pc = "unmap"] /\ Becomes(p, s)
  BY GotoBecomes DEF DeleteFolderName
<1>2. /\ DOMAIN s = Slots /\ s.pc = "unmap" /\ s.kind = r.kind /\ s.full = r.full
      /\ s.deadline = r.deadline /\ s.call = r.call /\ s.path = r.path /\ s.at = r.at
      /\ s.lvl = r.lvl /\ s.list = r.list /\ s.node = r.node /\ s.stack = r.stack
      /\ s.walk = r.walk
  BY <1>0, <1>1, MovedTo
<1>3. /\ tree' = tree /\ satellite' = satellite /\ disk' = disk /\ mstore' = mstore
      /\ next' = next /\ inserted' = inserted /\ seen' = seen /\ Visible' = Visible /\ CountInv'
      /\ folderName' = Drop(folderName, n)
  BY SameTree DEF DeleteFolderName, diskVars, historyVars, countVars, IInv, CountInv
<1>4. n \in inserted \ Visible
  BY <1>0, Popped DEF WellFormed, HoldsInv, Hidden
<1>5. /\ DOMAIN folderName' = DOMAIN folderName \ {n}
      /\ \A m \in DOMAIN folderName' : folderName'[m] = folderName[m]
  BY <1>3 DEF Drop
<1>6. StoreInv'
  <2>1. folderName' \in [DOMAIN folderName' -> Names \cup {"home"}]
    BY <1>3 DEF Drop, IInv, StoreInv
  <2>2. \A m \in DOMAIN folderName' : m # Home => folderName'[m] \in Names
    BY <1>5 DEF IInv, StoreInv
  <2> QED
    BY <1>3, <1>5, <2>1, <2>2 DEF IInv, StoreInv
<1>7. VisibleInv'
  BY <1>3, <1>4, <1>5 DEF IInv, VisibleInv
<1>8. SeenInv'
  BY <1>3, <1>5 DEF IInv, SeenInv
<1>9. WellFormed(s)
  BY <1>0, <1>2 DEF WellFormed, Steps, Making, Clearing
<1>10. HoldsInv(s)'
  BY <1>0, <1>2, <1>3 DEF HoldsInv, Hidden, Making
<1>11. Owns(p, s)
  BY <1>2 DEF Owns, Making
<1>12. \A q \in Procs \ {p} : proc[q].pc \in Making => Spares(proc[q].node)
  BY <1>3, <1>4, <1>5, OthersMake DEF Spares
<1>13. next' \in Nat /\ next' >= next
  BY <1>3 DEF IInv, StoreInv
<1>14. ProcInv'
  BY <1>1, <1>3, <1>9, <1>10, <1>11, <1>12, <1>13, ProcStep DEF IInv
<1> QED
  BY <1>3, <1>6, <1>7, <1>8, <1>14 DEF IInv

-----------------------------------------------------------------------------
(* The three transactions that change the tree. *)

(* What a step of p that changes the tree has to show. *)
LEMMA TreeStep ==
    ASSUME IInv, NEW p \in Procs, NEW s, Becomes(p, s), StoreInv', VisibleInv', CountInv',
           UNCHANGED <<folderName, disk, next, seen>>, inserted \subseteq inserted',
           Visible' \cap inserted \subseteq Visible,
           \A q \in Procs \ {p} : proc[q].pc \in Making => proc[q].node \notin inserted',
           WellFormed(s), HoldsInv(s)', s.pc \notin Making
    PROVE  IInv'
<1>1. SeenInv'
  BY DEF IInv, SeenInv
<1>2. \A q \in Procs \ {p} : proc[q].pc \in Making => Spares(proc[q].node)
  BY DEF Spares
<1>3. next' \in Nat /\ next' >= next /\ Owns(p, s)
  BY DEF IInv, StoreInv, Owns
<1>4. ProcInv'
  BY <1>2, <1>3, ProcStep DEF IInv
<1> QED
  BY <1>1, <1>4 DEF IInv

(* Visible nodes are nodes, and their children are visible too. *)
LEMMA VisibleWalk ==
    ASSUME IInv
    PROVE  /\ Home \in Visible /\ Visible \subseteq Ids
           /\ \A m \in Visible : m \in DOMAIN tree /\ Kids(tree[m]) \subseteq Visible \ {Home}
<1>1. /\ Home \in Visible /\ Visible \subseteq Ids
      /\ \A m \in Visible : m \in DOMAIN tree => Kids(tree[m]) \subseteq Visible
  BY TreeLists, ReachStep DEF Visible
<1>2. \A m \in DOMAIN tree : Kids(tree[m]) \subseteq Nodes /\ Home \notin Nodes
  BY TreeLists DEF Lists, Nodes, Home
<1> QED
  BY <1>1, <1>2 DEF IInv, VisibleInv

(* A visible node other than home hangs below the one its entry names, which *)
(* is older.                                                                 *)
LEMMA VisibleParent ==
    ASSUME IInv, NEW n \in Visible, n # Home
    PROVE  /\ tree[n][1] \in Visible /\ n \in Kids(tree[tree[n][1]]) /\ tree[n][1] < n
           /\ \A m \in DOMAIN tree : n \in Kids(tree[m]) => m = tree[n][1]
<1>1. PICK m \in Visible : m \in DOMAIN tree /\ n \in Kids(tree[m])
  BY TreeLists, ReachParent DEF Visible
<1>2. tree[n][1] = m
  BY <1>1 DEF IInv, VisibleInv
<1> QED
  BY <1>1, <1>2 DEF IInv, StoreInv

(* The store after n has become the last child of at. *)
Inserted(n, at) ==
    /\ DOMAIN tree' = DOMAIN tree \cup {n} /\ tree'[n] = <<at>> /\ Kids(tree'[n]) = {}
    /\ \A m \in DOMAIN tree : m # n =>
         /\ tree'[m] \in Seq(Ids)
         /\ Kids(tree'[m]) \subseteq Kids(tree[m]) \cup (IF m = at THEN {n} ELSE {})
         /\ tree[m] # <<>> => tree'[m] # <<>> /\ tree'[m][1] = tree[m][1]
    /\ Visible' = Visible \cup (IF at \in Visible THEN {n} ELSE {})

(* InsertNode: the new node can be browsed if its parent can. *)
LEMMA InsertTree ==
    ASSUME IInv, NEW n \in Nodes, n \notin inserted, NEW at \in DOMAIN tree, at # n,
           tree' = Put(Put(tree, n, <<at>>), at, Append(tree[at], n))
    PROVE  Inserted(n, at)
<1>1. /\ DOMAIN tree' = DOMAIN tree \cup {n} /\ tree'[n] = <<at>>
      /\ tree'[at] = Append(tree[at], n)
      /\ \A m \in DOMAIN tree : m # n /\ m # at => tree'[m] = tree[m]
  BY DEF Put
<1>2. Kids(tree'[n]) = {}
  BY <1>1 DEF Kids
<1>3. tree[at] \in Seq(Ids) /\ n \in Ids /\ \A m \in DOMAIN tree : tree[m] \in Seq(Ids)
  BY DEF IInv, StoreInv, Ids
<1>4. /\ tree'[at] \in Seq(Ids)
      /\ tree[at] # <<>> => /\ tree'[at] # <<>> /\ tree'[at][1] = tree[at][1]
                            /\ Kids(tree'[at]) = Kids(tree[at]) \cup {n}
      /\ tree[at] = <<>> => Kids(tree'[at]) = {} /\ Kids(tree[at]) = {}
  <2>1. Kids(<<>>) = {}
    BY DEF Kids
  <2>2. PICK l \in Seq(Ids) : l = tree[at] /\ tree'[at] = Append(l, n)
    BY <1>1, <1>3
  <2>3. /\ Append(l, n) \in Seq(Ids) /\ Append(l, n) # <<>>
        /\ l # <<>> => Append(l, n)[1] = l[1] /\ Kids(Append(l, n)) = Kids(l) \cup {n}
        /\ l = <<>> => Kids(Append(l, n)) = {}
    BY <1>3, AppendKids
  <2> QED
    BY <2>1, <2>2, <2>3
<1>5. \A m \in DOMAIN tree : m # n =>
                /\ tree'[m] \in Seq(Ids)
                /\ Kids(tree[m]) \subseteq Kids(tree'[m])
                /\ Kids(tree'[m]) \subseteq Kids(tree[m]) \cup (IF m = at THEN {n} ELSE {})
                /\ tree[m] # <<>> => tree'[m] # <<>> /\ tree'[m][1] = tree[m][1]
  BY <1>1, <1>3, <1>4
<1>6. n \notin Visible /\ n # Home
  BY VisibleInserted DEF Nodes, Home
<1>7. \A m \in DOMAIN tree : n \notin Kids(tree[m])
  BY DEF IInv, StoreInv
<1>8. Lists(tree')
  <2>1. ASSUME NEW m \in DOMAIN tree' PROVE Kids(tree'[m]) \subseteq Nodes
    BY SMTT(30), <1>1, <1>2, <1>5, TreeLists DEF Lists
  <2> QED
    BY <1>1, <2>1, TreeLists DEF Lists
<1> DEFINE new == IF at \in Visible THEN {n} ELSE {}
<1>9. Reach(tree') \subseteq Visible \cup new
  <2> DEFINE S == (Visible \cup new) \ {Home}
  <2>1. S \subseteq Nodes
    BY VisibleWalk DEF Ids
  <2>2. \A m \in Visible : Kids(tree'[m]) \subseteq S
    <3>1. ASSUME NEW m \in Visible PROVE Kids(tree'[m]) \subseteq S
      <4>1. m \in DOMAIN tree /\ m # n /\ Kids(tree[m]) \subseteq Visible \ {Home}
        BY <1>6, VisibleWalk
      <4> QED
        BY <1>5, <1>6, <4>1
    <3> QED
      BY <3>1
  <2>3. Kids(tree'[Home]) \subseteq S
    BY <2>2, VisibleWalk
  <2>4. \A m \in S : Kids(tree'[m]) \subseteq S
    BY <1>2, <2>2
  <2> HIDE DEF S
  <2>5. Reach(tree') \subseteq {Home} \cup S
    BY <2>1, <2>3, <2>4, ReachLeast
  <2> QED
    BY <2>5, VisibleWalk DEF S
<1>10. Visible \subseteq Reach(tree')
  <2> DEFINE S == (Visible \cap Reach(tree')) \ {Home}
  <2>1. S \subseteq Nodes
    BY VisibleWalk DEF Ids
  <2>2. \A m \in Visible \cap Reach(tree') : Kids(tree[m]) \subseteq S
    <3>1. ASSUME NEW m \in Visible \cap Reach(tree') PROVE Kids(tree[m]) \subseteq S
      <4>1. m \in DOMAIN tree /\ m # n /\ Kids(tree[m]) \subseteq Visible \ {Home}
        BY <1>6, VisibleWalk
      <4>2. m \in DOMAIN tree' /\ Kids(tree[m]) \subseteq Kids(tree'[m])
        BY <1>1, <1>5, <4>1
      <4> QED
        BY <1>8, <4>1, <4>2, ReachStep
    <3> QED
      BY <3>1
  <2>3. Home \in Visible \cap Reach(tree')
    BY <1>8, VisibleWalk, ReachStep
  <2> HIDE DEF S
  <2>4. Reach(tree) \subseteq {Home} \cup S
    <3>1. \A m \in S : Kids(tree[m]) \subseteq S
      BY <2>2 DEF S
    <3> QED
      BY <2>1, <2>2, <2>3, <3>1, ReachLeast
  <2> QED
    BY <2>3, <2>4 DEF S, Visible
<1>11. at \in Visible => n \in Reach(tree')
  <2>1. SUFFICES ASSUME at \in Visible PROVE n \in Reach(tree')
    OBVIOUS
  <2>2. n \in Kids(tree'[at])
    BY <1>4, <2>1 DEF IInv, VisibleInv
  <2>3. at \in Reach(tree') /\ at \in DOMAIN tree'
    BY <1>1, <1>10, <2>1
  <2> QED
    BY <1>8, <2>2, <2>3, ReachStep
<1>12. Visible' = Visible \cup new
  BY <1>9, <1>10, <1>11 DEF Visible
<1> QED
  BY <1>1, <1>2, <1>5, <1>12 DEF Inserted

(* The store after n has left the list of its parent. *)
Detached(n, parent) ==
    /\ DOMAIN tree' = DOMAIN tree \cup {parent} /\ parent \in Ids
    /\ \A m \in DOMAIN tree' : tree'[m] \in Seq(Ids)
    /\ \A m \in DOMAIN tree : Kids(tree'[m]) \subseteq Kids(tree[m])
    /\ parent \notin DOMAIN tree => Kids(tree'[parent]) = {}
    /\ \A m \in Visible : /\ tree'[m] # <<>> /\ tree'[m][1] = tree[m][1]
                          /\ Kids(tree[m]) \subseteq Kids(tree'[m]) \cup {n}
    /\ Visible' \subseteq Visible \ {n}

(* DeleteFolder: the node leaves the list of the parent that its entry names *)
(* and cannot be browsed any more.                                           *)
LEMMA DetachTree ==
    ASSUME IInv, NEW n \in inserted, n \in DOMAIN tree, tree[n] # <<>>, NEW parent, parent = tree[n][1],
           NEW list, list = IF parent \in DOMAIN tree THEN tree[parent] ELSE <<>>,
           NEW rest \in Without(list, n), tree' = Put(tree, parent, rest)
    PROVE  Detached(n, parent)
<1>0. n \in Nodes /\ n # Home /\ parent \in Ids
  <2>1. n \in Nodes /\ n # Home
    BY InsertedNodes DEF Nodes, Home
  <2>2. tree[n] \in Seq(Ids)
    BY DEF IInv, StoreInv
  <2> QED
    BY <2>1, <2>2
<1>1. /\ parent \in DOMAIN tree => list = tree[parent]
      /\ parent \notin DOMAIN tree => list = <<>>
  OBVIOUS
<1>2. list \in Seq(Ids)
  BY <1>1 DEF IInv, StoreInv
<1>3. /\ rest \in Seq(Ids) /\ Kids(rest) \subseteq Kids(list) /\ n \notin Kids(rest)
      /\ list # <<>> /\ list[1] # n =>
           /\ rest # <<>> /\ rest[1] = list[1] /\ \A k \in Kids(list) : k # n => k \in Kids(rest)
  BY <1>1, <1>2, WithoutFacts
<1>4. /\ DOMAIN tree' = DOMAIN tree \cup {parent} /\ tree'[parent] = rest
      /\ \A m \in DOMAIN tree : m # parent => tree'[m] = tree[m]
  BY DEF Put
<1>5. \A m \in DOMAIN tree' : tree'[m] \in Seq(Ids)
  BY <1>3, <1>4 DEF IInv, StoreInv
<1>6. \A m \in DOMAIN tree : Kids(tree'[m]) \subseteq Kids(tree[m]) \ (IF m = parent THEN {n} ELSE {})
  BY <1>1, <1>3, <1>4
<1>7. parent \notin DOMAIN tree => Kids(tree'[parent]) = {}
  <2>1. Kids(<<>>) = {}
    BY DEF Kids
  <2> QED
    BY <1>1, <1>3, <1>4, <2>1
<1>8. parent \in Visible => tree[parent] # <<>> /\ tree[parent][1] # n
  <2>1. SUFFICES ASSUME parent \in Visible PROVE tree[parent] # <<>> /\ tree[parent][1] # n
    OBVIOUS
  <2>2. tree[parent] # <<>>
    BY <2>1 DEF IInv, VisibleInv
  <2>3. CASE parent = Home
    BY <1>0, <2>2, <2>3 DEF IInv, VisibleInv
  <2>4. CASE parent # Home /\ n \notin Visible
    BY <2>1, <2>2, <2>4, VisibleParent
  <2>5. CASE parent # Home /\ n \in Visible
    <3>1. parent < n /\ tree[parent][1] < parent /\ tree[parent][1] \in Visible
      BY <1>0, <2>1, <2>5, VisibleParent
    <3>2. parent \in Nat /\ n \in Nat /\ tree[parent][1] \in Nat
      BY <1>0, <3>1, VisibleWalk DEF Ids, Nodes, Home
    <3> QED
      BY <2>2, <3>1, <3>2
  <2> QED
    BY <2>3, <2>4, <2>5
<1>9. \A m \in Visible : /\ tree'[m] # <<>> /\ tree'[m][1] = tree[m][1]
                         /\ Kids(tree[m]) \subseteq Kids(tree'[m]) \cup {n}
  <2>1. ASSUME NEW m \in Visible
        PROVE  /\ tree'[m] # <<>> /\ tree'[m][1] = tree[m][1]
               /\ Kids(tree[m]) \subseteq Kids(tree'[m]) \cup {n}
    <3>1. m \in DOMAIN tree /\ tree[m] # <<>>
      BY DEF IInv, VisibleInv
    <3> QED
      BY <1>1, <1>3, <1>4, <1>8, <3>1
  <2> QED
    BY <2>1
<1>10. Visible' \subseteq Visible
  <2> DEFINE S == Visible \ {Home}
  <2>1. S \subseteq Nodes
    BY VisibleWalk DEF Ids
  <2>2. \A m \in Visible : Kids(tree'[m]) \subseteq S
    BY <1>6, VisibleWalk
  <2>3. Kids(tree'[Home]) \subseteq S
    BY <2>2, VisibleWalk
  <2>4. \A m \in S : Kids(tree'[m]) \subseteq S
    BY <2>2
  <2> HIDE DEF S
  <2>5. Reach(tree') \subseteq {Home} \cup S
    BY <2>1, <2>3, <2>4, ReachLeast
  <2> QED
    BY <2>5, VisibleWalk DEF S, Visible
<1>11. n \notin Visible'
  <2>1. SUFFICES ASSUME n \in Visible' PROVE FALSE
    OBVIOUS
  <2>2. Lists(tree')
    BY <1>4, <1>6, <1>7, TreeLists DEF Lists
  <2>3. n \in Reach(tree')
    BY <2>1 DEF Visible
  <2>4. PICK m \in Reach(tree') : m \in DOMAIN tree' /\ n \in Kids(tree'[m])
    BY <1>0, <2>2, <2>3, ReachParent
  <2>5. m \in Visible
    BY <1>10, <2>4 DEF Visible
  <2>6. m \in DOMAIN tree /\ n \in Kids(tree[m]) /\ m # parent
    BY <1>6, <2>4, <2>5, VisibleWalk
  <2> QED
    BY <2>5, <2>6 DEF IInv, VisibleInv
<1> QED
  BY <1>0, <1>4, <1>5, <1>6, <1>7, <1>9, <1>10, <1>11 DEF Detached

(* DeleteNodeSubtree: the entry of a hidden node goes. *)
LEMMA DropTree ==
    ASSUME IInv, NEW n, n \notin Visible, tree' = Drop(tree, n)
    PROVE  /\ DOMAIN tree' = DOMAIN tree \ {n} /\ \A m \in DOMAIN tree' : tree'[m] = tree[m]
           /\ Visible' = Visible
<1>1. DOMAIN tree' = DOMAIN tree \ {n} /\ \A m \in DOMAIN tree' : tree'[m] = tree[m]
  BY DEF Drop
<1>2. \A m \in Visible : m \in DOMAIN tree' /\ tree'[m] = tree[m]
  BY <1>1, VisibleWalk
<1>3. Lists(tree')
  BY <1>1, <1>2, TreeLists, VisibleWalk DEF Lists
<1>4. Reach(tree') \subseteq Visible
  <2> DEFINE S == Visible \ {Home}
  <2>1. S \subseteq Nodes
    BY VisibleWalk DEF Ids
  <2>2. Kids(tree'[Home]) \subseteq S /\ \A m \in S : Kids(tree'[m]) \subseteq S
    BY <1>2, VisibleWalk
  <2> HIDE DEF S
  <2>3. Reach(tree') \subseteq {Home} \cup S
    BY <2>1, <2>2, ReachLeast
  <2> QED
    BY <2>3, VisibleWalk DEF S
<1>5. Visible \subseteq Reach(tree')
  <2> DEFINE S == Reach(tree') \ {Home}
  <2>1. S \subseteq Nodes /\ Home \in Reach(tree')
    BY <1>3, ReachStep DEF Ids
  <2>2. \A m \in Reach(tree') : Kids(tree[m]) \subseteq S
    <3>1. ASSUME NEW m \in Reach(tree') PROVE Kids(tree[m]) \subseteq S
      <4>1. m \in DOMAIN tree' /\ tree'[m] = tree[m] /\ m \in Visible
        BY <1>2, <1>4
      <4>2. Kids(tree[m]) \subseteq Visible \ {Home}
        BY <4>1, VisibleWalk
      <4> QED
        BY <1>3, <4>1, <4>2, ReachStep
    <3> QED
      BY <3>1
  <2> HIDE DEF S
  <2>3. Kids(tree[Home]) \subseteq S /\ \A m \in S : Kids(tree[m]) \subseteq S
    BY <2>1, <2>2 DEF S
  <2>4. Reach(tree) \subseteq {Home} \cup S
    BY <2>1, <2>3, ReachLeast
  <2> QED
    BY <2>1, <2>4 DEF S, Visible
<1> QED
  BY <1>1, <1>4, <1>5 DEF Visible

(* The node appears, with its name and its directory. *)
LEMMA InsertStep ==
    ASSUME IInv, NEW p \in Procs, InsertNode(p)
    PROVE  IInv'
<1> DEFINE r == proc[p]
           n == r.node
           at == r.at
<1>0. WellFormed(r) /\ HoldsInv(r) /\ r.pc = "insert" /\ r.pc \in Making
  BY Here DEF InsertNode, Making
<1>1. /\ UNCHANGED <<folderName, satellite, disk, mstore, next, seen>> /\ CountInv'
  BY DEF InsertNode, diskVars, countVars, IInv, CountInv
<1>2. CASE at \notin DOMAIN tree
  <2>1. PICK s : s = Return(r, "err") /\ Becomes(p, s) /\ UNCHANGED <<tree, inserted>>
    BY <1>2 DEF InsertNode
  <2>2. Fresh(s)
    BY <1>0, <2>1, ReturnFresh
  <2> QED
    BY <1>1, <2>1, <2>2, FreshStep DEF storeVars, diskVars, historyVars
<1>3. CASE at \in DOMAIN tree
  <2>1. /\ tree' = Put(Put(tree, n, <<at>>), at, Append(tree[at], n))
        /\ inserted' = inserted \cup {n}
    BY <1>3 DEF InsertNode
  <2>2. n \in Nodes /\ n \notin Visible /\ n \notin inserted
    BY <1>0, MakesHidden
  <2>3. /\ at \in {Home} \cup inserted /\ at \in Ids /\ n \in 1..next - 1 /\ at < n /\ at # n /\ n # Home
        /\ n \in DOMAIN disk /\ disk[n] # "none" /\ n \in DOMAIN folderName
    BY <1>0, <2>2 DEF HoldsInv, WellFormed, Nodes, Home
  <2> HIDE DEF n, at
  <2>4. /\ DOMAIN tree' = DOMAIN tree \cup {n} /\ tree'[n] = <<at>> /\ Kids(tree'[n]) = {}
        /\ \A m \in DOMAIN tree : m # n =>
             /\ tree'[m] \in Seq(Ids)
             /\ Kids(tree'[m]) \subseteq Kids(tree[m]) \cup (IF m = at THEN {n} ELSE {})
             /\ tree[m] # <<>> => tree'[m] # <<>> /\ tree'[m][1] = tree[m][1]
        /\ Visible' = Visible \cup (IF at \in Visible THEN {n} ELSE {})
    <3>1. Inserted(n, at)
      BY <1>3, <2>1, <2>2, <2>3, InsertTree
    <3> QED
      BY <3>1 DEF Inserted
  <2>5. StoreInv'
    <3>1. inserted' \subseteq 1..next - 1
      BY <2>1, <2>3 DEF IInv, StoreInv
    <3>2. Home \in DOMAIN tree' /\ DOMAIN tree' \subseteq Ids
      BY <2>2, <2>4 DEF IInv, StoreInv, Ids
    <3>3. <<at>> \in Seq(Ids)
      BY <2>3
    <3>4. \A m \in DOMAIN tree' : tree'[m] \in Seq(Ids)
      BY <2>4, <3>3
    <3>5. \A m \in DOMAIN tree' : \A k \in Kids(tree'[m]) : k \in inserted' /\ m < k
      <4>1. ASSUME NEW m \in DOMAIN tree', NEW k \in Kids(tree'[m]) PROVE k \in inserted' /\ m < k
        <5>1. m # n /\ m \in DOMAIN tree
          BY <2>4
        <5>2. k \in Kids(tree[m]) \/ (m = at /\ k = n)
          BY <2>4, <5>1
        <5> QED
          BY <2>1, <2>3, <5>1, <5>2 DEF IInv, StoreInv
      <4> QED
        BY <4>1
    <3>6. \A l, m \in DOMAIN tree' : l # m => Kids(tree'[l]) \cap Kids(tree'[m]) = {}
      <4>1. ASSUME NEW l \in DOMAIN tree', NEW m \in DOMAIN tree', l # m,
                   NEW k \in Kids(tree'[l]), k \in Kids(tree'[m])
            PROVE  FALSE
        <5>1. l \in DOMAIN tree /\ m \in DOMAIN tree /\ l # n /\ m # n
          BY <2>4, <4>1
        <5>2. n \notin Kids(tree[l]) /\ n \notin Kids(tree[m])
          BY <2>2, <5>1 DEF IInv, StoreInv
        <5>3. k \in Kids(tree[l]) \cap Kids(tree[m])
          BY <2>4, <4>1, <5>1, <5>2
        <5> QED
          BY <4>1, <5>1, <5>3 DEF IInv, StoreInv
      <4> QED
        BY <4>1
    <3> QED
      BY <1>1, <3>1, <3>2, <3>4, <3>5, <3>6 DEF IInv, StoreInv
  <2>6. VisibleInv'
    <3>1. tree'[Home][1] = Home
      BY <2>3, <2>4, VisibleWalk DEF IInv, VisibleInv
    <3>2. ASSUME NEW m \in Visible'
          PROVE  /\ m \in DOMAIN tree' /\ tree'[m] # <<>> /\ m \in DOMAIN folderName
                 /\ m \in DOMAIN disk /\ disk[m] # "none"
                 /\ \A k \in Kids(tree'[m]) : tree'[k][1] = m
      <4>1. CASE m = n
        BY <2>3, <2>4, <4>1
      <4>2. CASE m # n
        <5>1. /\ m \in Visible /\ m \in DOMAIN tree /\ tree[m] # <<>> /\ m \in DOMAIN folderName
              /\ m \in DOMAIN disk /\ disk[m] # "none"
          BY <2>4, <4>2 DEF IInv, VisibleInv
        <5>2. ASSUME NEW k \in Kids(tree'[m]) PROVE tree'[k][1] = m
          <6>1. CASE k = n
            <7>1. n \notin Kids(tree[m])
              BY <2>2, <5>1 DEF IInv, StoreInv
            <7>2. m = at
              BY <2>4, <4>2, <5>1, <6>1, <7>1
            <7> QED
              BY <2>4, <6>1, <7>2
          <6>2. CASE k # n
            <7>1. k \in Kids(tree[m])
              BY <2>4, <4>2, <5>1, <6>2
            <7>2. k \in Visible /\ k \in DOMAIN tree /\ tree[k] # <<>> /\ tree[k][1] = m
              BY <5>1, <7>1, VisibleWalk DEF IInv, VisibleInv
            <7> QED
              BY <2>4, <6>2, <7>2
          <6> QED
            BY <6>1, <6>2
        <5> QED
          BY <2>4, <4>2, <5>1, <5>2
      <4> QED
        BY <4>1, <4>2
    <3> QED
      BY <1>1, <3>1, <3>2 DEF VisibleInv
  <2>7. \A q \in Procs \ {p} : proc[q].pc \in Making => proc[q].node \notin inserted'
    BY <1>0, <2>1, OthersMake DEF n
  <2>8. inserted \subseteq inserted' /\ Visible' \cap inserted \subseteq Visible
    BY <2>1, <2>2, <2>4
  <2>9. ASSUME NEW s, Becomes(p, s), WellFormed(s), HoldsInv(s)', s.pc \notin Making
        PROVE  IInv'
    BY <1>1, <2>5, <2>6, <2>7, <2>8, <2>9, TreeStep
  <2>10. CASE IsSatellite(r)
    <3>1. PICK s : s = [r EXCEPT !.pc = "mark"] /\ Becomes(p, s)
      BY <1>3, <2>10 DEF InsertNode, at
    <3>2. /\ DOMAIN s = Slots /\ s.pc = "mark" /\ s.kind = r.kind /\ s.full = r.full
          /\ s.deadline = r.deadline /\ s.call = r.call /\ s.path = r.path /\ s.at = r.at
          /\ s.lvl = r.lvl /\ s.list = r.list /\ s.node = r.node /\ s.stack = r.stack
          /\ s.walk = r.walk
      BY <1>0, <3>1, MovedTo
    <3>3. r.path \in Paths
      BY <1>0, <2>10 DEF IsSatellite, WellFormed, Adding
    <3>4. WellFormed(s)
      BY <1>0, <3>2, <3>3 DEF WellFormed, Steps, Making, Clearing
    <3>5. \A i \in 1..Len(s.stack) :
            /\ s.stack[i].node \in inserted' \ Visible'
            /\ \A j \in 1..Len(s.stack[i].kids) : s.stack[i].kids[j] \in inserted' \ Visible'
      BY <1>0, <2>8, <3>2 DEF HoldsInv, Hidden
    <3>6. s.at \in {Home} \cup inserted' /\ Kids(s.list) \subseteq inserted' /\ s.node \in inserted'
      BY <1>0, <2>1, <3>2 DEF HoldsInv, n
    <3>7. HoldsInv(s)' /\ s.pc \notin Making
      BY <3>2, <3>5, <3>6 DEF HoldsInv, Hidden, Making
    <3> QED
      BY <2>9, <3>1, <3>4, <3>7
  <2>11. CASE ~IsSatellite(r)
    <3>1. PICK s : s = Return(r, "ok") /\ Becomes(p, s)
      BY <1>3, <2>11 DEF InsertNode, at
    <3> QED
      BY <1>0, <2>9, <3>1, ReturnFresh, FreshHolds
  <2> QED
    BY <2>10, <2>11
<1> QED
  BY <1>2, <1>3

(* The node disappears from its parent's list, or the process dies. *)
LEMMA DetachStep ==
    ASSUME IInv, NEW p \in Procs, Detach(p)
    PROVE  IInv'
<1> DEFINE r == proc[p]
           n == r.node
           parent == tree[n][1]
           list == IF parent \in DOMAIN tree THEN tree[parent] ELSE <<>>
<1>0. WellFormed(r) /\ HoldsInv(r) /\ r.pc = "detach"
  BY Here DEF Detach
<1>1. /\ UNCHANGED <<folderName, satellite, disk, mstore, next, seen, inserted>> /\ CountInv'
  BY DEF Detach, diskVars, historyVars, countVars, IInv, CountInv
<1>2. CASE Restart /\ UNCHANGED tree
  BY <1>1, <1>2, RestartStep DEF storeVars, diskVars, historyVars
<1>3. ASSUME n \in DOMAIN tree, tree[n] # <<>>, NEW rest \in Without(list, n),
             tree' = Put(tree, parent, rest), Goto(p, "rmSat")
      PROVE  IInv'
  <2>1. n \in inserted
    BY <1>0 DEF HoldsInv
  <2>2. /\ DOMAIN tree' = DOMAIN tree \cup {parent} /\ parent \in Ids
        /\ \A m \in DOMAIN tree' : tree'[m] \in Seq(Ids)
        /\ \A m \in DOMAIN tree : Kids(tree'[m]) \subseteq Kids(tree[m])
        /\ parent \notin DOMAIN tree => Kids(tree'[parent]) = {}
        /\ \A m \in Visible : tree'[m] # <<>> /\ tree'[m][1] = tree[m][1]
        /\ Visible' \subseteq Visible \ {n}
    <3>1. Detached(n, parent)
      BY <1>3, <2>1, DetachTree
    <3> QED
      BY <3>1 DEF Detached
  <2> HIDE DEF parent, list
  <2>3. StoreInv'
    <3>1. Home \in DOMAIN tree' /\ DOMAIN tree' \subseteq Ids
      BY <2>2 DEF IInv, StoreInv
    <3>2. \A m \in DOMAIN tree' : \A k \in Kids(tree'[m]) :
            m \in DOMAIN tree /\ k \in Kids(tree[m]) /\ k \in inserted /\ m < k
      BY <2>2 DEF IInv, StoreInv
    <3>3. \A l, m \in DOMAIN tree' : l # m => Kids(tree'[l]) \cap Kids(tree'[m]) = {}
      BY <3>2 DEF IInv, StoreInv
    <3> QED
      BY <1>1, <2>2, <3>1, <3>2, <3>3 DEF IInv, StoreInv
  <2>4. VisibleInv'
    <3>1. tree'[Home][1] = Home
      BY <2>2, VisibleWalk DEF IInv, VisibleInv
    <3>2. ASSUME NEW m \in Visible'
          PROVE  /\ m \in DOMAIN tree' /\ tree'[m] # <<>> /\ m \in DOMAIN folderName
                 /\ m \in DOMAIN disk /\ disk[m] # "none"
                 /\ \A k \in Kids(tree'[m]) : tree'[k][1] = m
      <4>1. m \in Visible
        BY <2>2
      <4>2. ASSUME NEW k \in Kids(tree'[m]) PROVE tree'[k][1] = m
        <5>1. m \in DOMAIN tree /\ k \in Kids(tree[m]) /\ k \in Visible /\ tree[k][1] = m
          BY <2>2, <4>1, VisibleWalk DEF IInv, VisibleInv
        <5> QED
          BY <2>2, <5>1
      <4> QED
        BY <2>2, <4>1, <4>2 DEF IInv, VisibleInv
    <3> QED
      BY <1>1, <3>1, <3>2 DEF VisibleInv
  <2>5. PICK s : s = [r EXCEPT !.pc = "rmSat"] /\ Becomes(p, s)
    BY <1>3, GotoBecomes
  <2>6. /\ DOMAIN s = Slots /\ s.pc = "rmSat" /\ s.kind = r.kind /\ s.full = r.full
        /\ s.deadline = r.deadline /\ s.call = r.call /\ s.path = r.path /\ s.at = r.at
        /\ s.lvl = r.lvl /\ s.list = r.list /\ s.node = r.node /\ s.stack = r.stack
        /\ s.walk = r.walk
    BY <1>0, <2>5, MovedTo
  <2>7. WellFormed(s)
    BY <1>0, <2>6 DEF WellFormed, Steps, Making, Clearing
  <2>8. \A i \in 1..Len(s.stack) :
          /\ s.stack[i].node \in inserted' \ Visible'
          /\ \A j \in 1..Len(s.stack[i].kids) : s.stack[i].kids[j] \in inserted' \ Visible'
    BY <1>0, <1>1, <2>2, <2>6 DEF HoldsInv, Hidden
  <2>9. HoldsInv(s)' /\ s.pc \notin Making
    BY <1>0, <1>1, <2>1, <2>2, <2>6, <2>8 DEF HoldsInv, Hidden, Making
  <2>10. \A q \in Procs \ {p} : proc[q].pc \in Making => proc[q].node \notin inserted'
    BY <1>1, OthersMake
  <2> QED
    BY <1>1, <2>2, <2>3, <2>4, <2>5, <2>7, <2>9, <2>10, TreeStep
<1> QED
  BY <1>2, <1>3 DEF Detach

(* DeleteNodeSubtree goes into a child, or removes the entry. *)
LEMMA KidStep ==
    ASSUME IInv, NEW p \in Procs, NextKid(p)
    PROVE  IInv'
<1> DEFINE r == proc[p]
           top == r.stack[1]
<1>0. WellFormed(r) /\ HoldsInv(r) /\ r.pc = "kids" /\ r.pc \in Clearing
  BY Here DEF NextKid, Clearing
<1>1. /\ UNCHANGED <<folderName, satellite, disk, mstore, next, seen, inserted>> /\ CountInv'
  BY DEF NextKid, diskVars, historyVars, countVars, IInv, CountInv
<1>2. /\ r.stack \in Seq(Frames) /\ r.stack # <<>> /\ top \in Frames /\ Tail(r.stack) \in Seq(Frames)
      /\ Hidden(top) /\ \A i \in 1..Len(Tail(r.stack)) : Hidden(Tail(r.stack)[i])
  BY <1>0, Popped DEF WellFormed, HoldsInv
<1>3. CASE top.kids # <<>> /\ UNCHANGED tree
  <2> DEFINE kids == top.kids
             f == [node |-> Head(top.kids), kids |-> <<>>]
             g == [node |-> top.node, kids |-> Tail(top.kids)]
             rest == Tail(r.stack)
  <2>1. PICK s : Becomes(p, s) /\ s = [r EXCEPT !.pc = "enter", !.stack = <<f, g>> \o rest]
    BY <1>3 DEF NextKid
  <2>2. /\ DOMAIN s = Slots /\ s.pc = "enter" /\ s.kind = r.kind /\ s.full = r.full
        /\ s.deadline = r.deadline /\ s.call = r.call /\ s.path = r.path
        /\ s.at = r.at /\ s.lvl = r.lvl /\ s.list = r.list
        /\ s.node = r.node /\ s.stack = <<f, g>> \o rest /\ s.walk = r.walk
    BY <1>0, <2>1 DEF WellFormed, Slots
  <2>3. kids \in Seq(Nodes) /\ \A j \in 1..Len(kids) : kids[j] \in inserted \ Visible
    BY <1>2 DEF Frames, Hidden
  <2>4. /\ Head(kids) \in Nodes /\ Head(kids) \in inserted \ Visible
        /\ Tail(kids) \in Seq(Nodes) /\ \A j \in 1..Len(Tail(kids)) : Tail(kids)[j] \in inserted \ Visible
    <3>1. Head(kids) = kids[1]
      OBVIOUS
    <3> HIDE DEF kids
    <3> QED
      BY <1>3, <2>3, <3>1, Popped DEF kids
  <2>5. f \in Frames /\ Hidden(f)
    BY <2>4 DEF Frames, Hidden
  <2>6. g \in Frames /\ Hidden(g)
    <3> QED
      BY <1>2, <2>4 DEF Frames, Hidden
  <2> HIDE DEF f, g, rest
  <2>7. rest \in Seq(Frames) /\ \A i \in 1..Len(rest) : Hidden(rest[i])
    BY <1>2 DEF rest
  <2>8. /\ s.stack \in Seq(Frames) /\ s.stack # <<>>
        /\ \A i \in 1..Len(s.stack) : Hidden(s.stack[i])
    BY <2>2, <2>5, <2>6, <2>7, Pushed
  <2>9. WellFormed(s)
    BY <1>0, <2>2, <2>8 DEF WellFormed, Steps, Making, Clearing
  <2>10. HoldsInv(s) /\ Owns(p, s)
    BY <1>0, <2>2, <2>8 DEF HoldsInv, Owns, Making
  <2> QED
    BY <1>1, <1>3, <2>1, <2>9, <2>10, QuietStep DEF storeVars, diskVars, historyVars
<1>4. CASE tree' = Drop(tree, top.node) /\ Goto(p, "unname")
  <2>1. top.node \in inserted \ Visible /\ top.node # Home
    BY <1>2, VisibleWalk DEF Hidden
  <2>2. /\ DOMAIN tree' = DOMAIN tree \ {top.node} /\ \A m \in DOMAIN tree' : tree'[m] = tree[m]
        /\ Visible' = Visible
    BY <1>4, <2>1, DropTree
  <2>3. StoreInv'
    BY <1>1, <2>1, <2>2 DEF IInv, StoreInv
  <2>4. VisibleInv'
    <3>1. \A m \in Visible : m \in DOMAIN tree' /\ tree'[m] = tree[m]
      BY <2>1, <2>2 DEF IInv, VisibleInv
    <3>2. \A m \in Visible : \A k \in Kids(tree[m]) : k \in Visible
      BY VisibleWalk
    <3> QED
      BY <1>1, <2>2, <3>1, <3>2, VisibleWalk DEF IInv, VisibleInv
  <2>5. PICK s : s = [r EXCEPT !.pc = "unname"] /\ Becomes(p, s)
    BY <1>4, GotoBecomes
  <2>6. /\ DOMAIN s = Slots /\ s.pc = "unname" /\ s.kind = r.kind /\ s.full = r.full
        /\ s.deadline = r.deadline /\ s.call = r.call /\ s.path = r.path /\ s.at = r.at
        /\ s.lvl = r.lvl /\ s.list = r.list /\ s.node = r.node /\ s.stack = r.stack
        /\ s.walk = r.walk
    BY <1>0, <2>5, MovedTo
  <2>7. WellFormed(s)
    BY <1>0, <2>6 DEF WellFormed, Steps, Making, Clearing
  <2>8. HoldsInv(s)' /\ s.pc \notin Making
    BY <1>0, <1>1, <2>2, <2>6 DEF HoldsInv, Hidden, Making
  <2>9. \A q \in Procs \ {p} : proc[q].pc \in Making => proc[q].node \notin inserted'
    BY <1>1, OthersMake
  <2> QED
    BY <1>1, <2>2, <2>3, <2>4, <2>5, <2>7, <2>8, <2>9, TreeStep
<1> QED
  BY <1>3, <1>4 DEF NextKid

-----------------------------------------------------------------------------
(* The inductive invariant. *)

(* An empty device. *)
LEMMA InitInv == TreeInit => IInv
<1> SUFFICES ASSUME TreeInit PROVE IInv
  OBVIOUS
<1>1. /\ DOMAIN tree = {Home} /\ tree[Home] = <<Home>> /\ DOMAIN folderName = {Home}
      /\ folderName[Home] = "home" /\ DOMAIN disk = {Home} /\ disk[Home] = "future"
      /\ DOMAIN satellite = {} /\ inserted = {} /\ next = 1 /\ mstore = Paths
  BY DEF TreeInit, CreateHome
<1>2. Kids(<<Home>>) = {} /\ <<Home>> \in Seq(Ids) /\ <<Home>> # <<>> /\ <<Home>>[1] = Home
  BY DEF Kids, Ids
<1>3. StoreInv
  <2>1. /\ folderName \in [DOMAIN folderName -> Names \cup {"home"}]
        /\ disk \in [DOMAIN disk -> {"none", "past", "future"}]
        /\ satellite \in [DOMAIN satellite -> Paths]
    BY DEF TreeInit, CreateHome
  <2>2. next \in 1..MaxNodes + 1
    BY <1>1, TreeAssumption
  <2> QED
    BY <1>1, <1>2, <2>1, <2>2 DEF StoreInv, Ids
<1>4. CountInv
  <2>1. jobs = 0 /\ crashes = 0 /\ failures = 0 /\ mixed \in BOOLEAN
    BY DEF TreeInit
  <2>2. jobs \in 0..MaxJobs /\ crashes + failures <= MaxFaults /\ crashes \in Nat /\ failures \in Nat
    BY <2>1, TreeAssumption
  <2> QED
    BY <2>1, <2>2 DEF CountInv
<1>5. Visible \subseteq {Home}
  <2>1. Kids(tree[Home]) = {}
    BY <1>1, <1>2
  <2>2. Reach(tree) \subseteq {Home} \cup {}
    BY <2>1, ReachLeast
  <2> QED
    BY <2>2 DEF Visible
<1>6. VisibleInv
  BY <1>1, <1>2, <1>5 DEF VisibleInv
<1>7. PICK s : s = Idle
  OBVIOUS
<1>8. WellFormed(s) /\ HoldsInv(s) /\ s.pc \notin Making
  BY <1>7, IdleFresh, FreshHolds
<1>9. DOMAIN proc = Procs /\ \A p \in Procs : proc[p] = s
  BY <1>7 DEF TreeInit
<1>10. ProcInv
  BY <1>8, <1>9 DEF ProcInv
<1>11. SeenInv
  BY DEF TreeInit, SeenInv
<1> QED
  BY <1>3, <1>4, <1>6, <1>10, <1>11 DEF IInv

(* Every step of a call into filesys keeps the invariant. *)
LEMMA CallStep ==
    ASSUME IInv, NEW p \in Procs, Step(p)
    PROVE  IInv'
<1>1. CASE GetChildrenForNode(p)
  BY <1>1, ListStep
<1>2. CASE FindChild(p)
  BY <1>2, FindStep
<1>3. CASE CheckSiblings(p)
  BY <1>3, SiblingsStep
<1>4. CASE MakeDir(p)
  BY <1>4, MakeDirStep
<1>5. CASE DownloadFiles(p)
  BY <1>5, DownloadStep
<1>6. CASE AddToExisting(p)
  BY <1>6, AddToStep
<1>7. CASE PutFolderName(p)
  BY <1>7, NameStep
<1>8. CASE InsertNode(p)
  BY <1>8, InsertStep
<1>9. CASE MarkFolderSatellite(p)
  BY <1>9, MarkStep
<1>10. CASE Detach(p)
  BY <1>10, DetachStep
<1>11. CASE RemoveSatelliteFolder(p)
  BY <1>11, RemoveSatelliteStep
<1>12. CASE RemoveFolder(p)
  BY <1>12, RemoveFolderStep
<1>13. CASE EnterSubtree(p)
  BY <1>13, EnterStep
<1>14. CASE NextKid(p)
  BY <1>14, KidStep
<1>15. CASE DeleteFolderName(p)
  BY <1>15, UnnameStep
<1>16. CASE DeleteSatelliteMapping(p)
  BY <1>16, UnmapStep
<1>17. CASE RemoveContent(p)
  BY <1>17, RemoveContentStep
<1>18. CASE RemoveSubtreeFolder(p)
  BY <1>18, RemoveSubtreeStep
<1>19. CASE CheckEmpty(p)
  BY <1>19, EmptyStep
<1> QED
  BY <1>1, <1>2, <1>3, <1>4, <1>5, <1>6, <1>7, <1>8, <1>9, <1>10, <1>11, <1>12, <1>13, <1>14,
     <1>15, <1>16, <1>17, <1>18, <1>19 DEF Step

(* So does every step of the system. *)
LEMMA NextInv == IInv /\ [TreeNext]_vars => IInv'
<1> SUFFICES ASSUME IInv, [TreeNext]_vars PROVE IInv'
  OBVIOUS
<1>1. CASE UNCHANGED vars
  <2>1. /\ tree' = tree /\ folderName' = folderName /\ satellite' = satellite /\ disk' = disk
        /\ mstore' = mstore /\ next' = next /\ inserted' = inserted /\ seen' = seen /\ proc' = proc
        /\ jobs' = jobs /\ crashes' = crashes /\ failures' = failures /\ mixed' = mixed
        /\ Visible' = Visible
    BY <1>1 DEF vars, storeVars, diskVars, historyVars, countVars, Visible
  <2> QED
    BY <2>1 DEF IInv, StoreInv, CountInv, VisibleInv, ProcInv, SeenInv, HoldsInv, Hidden
<1>2. ASSUME NEW p \in Workers, NEW job \in Jobs, Start(p, job) PROVE IInv'
  BY <1>2, StartStep
<1>3. ASSUME NEW p \in Procs, Step(p) PROVE IInv'
  BY <1>3, CallStep
<1>4. CASE StartReaper
  BY <1>4, StartReaperStep
<1>5. CASE Descend
  BY <1>5, DescendStep
<1>6. CASE CheckDeadline
  BY <1>6, DeadlineStep
<1>7. CASE Crash
  BY <1>7, CrashStep
<1> QED
  BY <1>1, <1>2, <1>3, <1>4, <1>5, <1>6, <1>7 DEF TreeNext, ReaperStep, Procs

(* The invariant is inductive. *)
LEMMA Inductive == TreeSpec => []IInv
  BY InitInv, NextInv, PTL DEF TreeSpec

(* The buckets, the disk and what the goroutines hold have their types: in   *)
(* particular getNodeForPath never looks beyond the end of a path and the    *)
(* reaper's traversal keeps whole levels.                                    *)
THEOREM TreeTypeCorrect == TreeSpec => []TreeTypeOK
<1>1. IInv => TreeTypeOK
  <2> SUFFICES ASSUME IInv PROVE TreeTypeOK
    OBVIOUS
  <2>1. /\ DOMAIN tree \subseteq {Home} \cup Nodes
        /\ \A n \in DOMAIN tree : tree[n] \in Seq({Home} \cup Nodes)
        /\ folderName \in [DOMAIN folderName -> Names \cup {"home"}]
        /\ satellite \in [DOMAIN satellite -> Paths]
        /\ disk \in [DOMAIN disk -> {"none", "past", "future"}]
        /\ mstore \subseteq Paths /\ next \in 1..MaxNodes + 1
    BY DEF IInv, StoreInv, Ids
  <2>2. DOMAIN folderName \cup DOMAIN satellite \cup DOMAIN disk \subseteq {Home} \cup Nodes
    BY TreeAssumption DEF IInv, StoreInv, Ids, Nodes
  <2>3. \A p \in Procs : /\ proc[p].list \in Seq({Home} \cup Nodes)
                         /\ proc[p].lvl <= Len(proc[p].path)
                         /\ proc[p].walk \in Seq(Levels)
    BY DEF IInv, ProcInv, WellFormed, Ids
  <2>4. mixed \in BOOLEAN /\ jobs \in 0..MaxJobs /\ crashes + failures \in 0..MaxFaults
    BY TreeAssumption DEF IInv, CountInv
  <2> QED
    BY <2>1, <2>2, <2>3, <2>4, InsertedNodes DEF TreeTypeOK
<1> QED
  BY <1>1, Inductive, PTL

(* Whatever the jobs do and wherever the process dies, a folder that can be  *)
(* browsed has its directory and a deadline: CreateDownloadNewFolder fills   *)
(* the directory before InsertNode, DeleteFolder detaches before it removes. *)
THEOREM BrowsedOnDisk == TreeSpec => []VisibleOnDisk
<1>1. IInv => VisibleOnDisk
  BY DEF IInv, VisibleInv, VisibleOnDisk
<1> QED
  BY <1>1, Inductive, PTL

(* Siblings of one name are always the work of two creations neither of      *)
(* which could see the other's folder when it checked the names.             *)
THEOREM TwinsByRace == TreeSpec => []TwinsOnlyByRace
<1>1. IInv => TwinsOnlyByRace
  <2> SUFFICES ASSUME IInv, NEW m \in Visible \ {Home}, NEW n \in Visible \ {Home},
                      folderName[m] = folderName[n]
               PROVE  m \notin seen[n] /\ n \notin seen[m]
    BY DEF TwinsOnlyByRace
  <2>1. m \in Nodes /\ n \in Nodes /\ m \in DOMAIN folderName /\ n \in DOMAIN folderName
    BY VisibleWalk DEF IInv, VisibleInv, Ids
  <2> QED
    BY <2>1 DEF IInv, SeenInv
<1> QED
  BY <1>1, Inductive, PTL

-----------------------------------------------------------------------------
(* The refinement: what is browsed is a FolderHierarchy. *)

(* A visible folder as the hierarchy has it. *)
Folder(n) == [id |-> n, parent |-> tree[n][1], name |-> folderName[n]]

(* What is visible has a parent and a name. *)
LEMMA FoldersVisible == IInv => VisibleFolders = {Folder(n) : n \in Visible \ {Home}}
<1> SUFFICES ASSUME IInv PROVE VisibleFolders = {Folder(n) : n \in Visible \ {Home}}
  OBVIOUS
<1>1. \A n \in Visible : n \in DOMAIN tree /\ tree[n] # <<>> /\ n \in DOMAIN folderName
  BY DEF IInv, VisibleInv
<1> QED
  BY <1>1 DEF VisibleFolders, Folder

(* And so after a step. *)
LEMMA FoldersVisibleNext == IInv' => VisibleFolders' = {Folder(n)' : n \in Visible' \ {Home}}
<1> SUFFICES ASSUME IInv' PROVE VisibleFolders' = {Folder(n)' : n \in Visible' \ {Home}}
  OBVIOUS
<1>1. \A n \in Visible' : n \in DOMAIN tree' /\ tree'[n] # <<>> /\ n \in DOMAIN folderName'
  BY DEF IInv, VisibleInv
<1> QED
  BY <1>1 DEF VisibleFolders, Folder

(* Nothing changes for who browses. *)
LEMMA SameFolders ==
    ASSUME IInv, IInv', Visible' = Visible, inserted' = inserted,
           \A n \in Visible \ {Home} : tree'[n][1] = tree[n][1] /\ folderName'[n] = folderName[n]
    PROVE  UNCHANGED Hierarchy!hierarchyVars
<1>1. \A n \in Visible \ {Home} : Folder(n)' = Folder(n)
  BY DEF Folder
<1>2. VisibleFolders' = VisibleFolders
  BY <1>1, FoldersVisible, FoldersVisibleNext
<1> QED
  BY <1>2 DEF Hierarchy!hierarchyVars

(* An empty device shows nothing. *)
LEMMA InitHierarchy == TreeInit => Hierarchy!HierarchyInit
<1> SUFFICES ASSUME TreeInit PROVE Hierarchy!HierarchyInit
  OBVIOUS
<1>1. tree[Home] = <<Home>> /\ inserted = {}
  BY DEF TreeInit, CreateHome
<1>2. Kids(tree[Home]) = {}
  BY <1>1 DEF Kids
<1>3. Visible \subseteq {Home}
  <2>1. Reach(tree) \subseteq {Home} \cup {}
    BY <1>2, ReachLeast
  <2> QED
    BY <2>1 DEF Visible
<1>4. VisibleFolders = {}
  BY <1>3 DEF VisibleFolders
<1> QED
  BY <1>1, <1>4 DEF Hierarchy!HierarchyInit

(* InsertNode adds a leaf, or a folder nobody sees. *)
LEMMA InsertRefines ==
    ASSUME IInv, IInv', NEW p \in Procs, InsertNode(p)
    PROVE  Hierarchy!HierarchyNext \/ UNCHANGED Hierarchy!hierarchyVars
<1>1. PICK n, at : n = proc[p].node /\ at = proc[p].at
  OBVIOUS
<1>2. CASE at \notin DOMAIN tree
  <2>1. tree' = tree /\ folderName' = folderName /\ inserted' = inserted
    BY <1>1, <1>2 DEF InsertNode
  <2> QED
    BY <2>1, SameTree, SameFolders
<1>3. CASE at \in DOMAIN tree
  <2>1. /\ tree' = Put(Put(tree, n, <<at>>), at, Append(tree[at], n))
        /\ inserted' = inserted \cup {n} /\ folderName' = folderName
    BY <1>1, <1>3 DEF InsertNode
  <2>2. proc[p].pc \in Making /\ proc[p].pc = "insert"
    BY DEF InsertNode, Making
  <2>3. n \in Nodes /\ n \notin Visible /\ n \notin inserted /\ n # Home
    BY <1>1, <2>2, MakesHidden DEF Nodes, Home
  <2>4. HoldsInv(proc[p])
    BY Here
  <2>5. at < n /\ n \in DOMAIN folderName /\ at \in {Home} \cup inserted
    BY <1>1, <2>2, <2>4 DEF HoldsInv
  <2>6. at # n
    BY <2>3, <2>5
  <2>7. /\ tree'[n] = <<at>>
        /\ \A m \in DOMAIN tree : m # n => (tree[m] # <<>> => tree'[m] # <<>> /\ tree'[m][1] = tree[m][1])
        /\ Visible' = Visible \cup (IF at \in Visible THEN {n} ELSE {})
    <3>1. Inserted(n, at)
      BY <1>3, <2>1, <2>3, <2>6, InsertTree
    <3> QED
      BY <3>1 DEF Inserted
  <2>8. \A m \in Visible : m # n /\ tree'[m][1] = tree[m][1] /\ folderName'[m] = folderName[m]
    BY <2>1, <2>3, <2>7 DEF IInv, VisibleInv
  <2>9. \A m \in Visible : Folder(m)' = Folder(m)
    BY <2>8 DEF Folder
  <2>10. CASE at \in Visible
    <3>1. Visible' \ {Home} = (Visible \ {Home}) \cup {n}
      BY <2>3, <2>7, <2>10
    <3>2. Folder(n)' = [id |-> n, parent |-> at, name |-> folderName[n]]
      BY <2>1, <2>7 DEF Folder
    <3>3. VisibleFolders' = VisibleFolders \cup {[id |-> n, parent |-> at, name |-> folderName[n]]}
      BY <2>9, <3>1, <3>2, FoldersVisible, FoldersVisibleNext
    <3>4. folderName[n] \in Names
      BY <2>3, <2>5 DEF IInv, StoreInv
    <3>5. at \in Hierarchy!IdsOf(VisibleFolders) \cup {Home}
      <4>1. CASE at # Home
        <5>1. Folder(at) \in VisibleFolders /\ Folder(at).id = at
          BY <2>10, <4>1, FoldersVisible DEF Folder
        <5> QED
          BY <5>1 DEF Hierarchy!IdsOf
      <4> QED
        BY <4>1
    <3>6. Hierarchy!Add(n)
      BY <2>1, <3>3, <3>4, <3>5 DEF Hierarchy!Add
    <3> QED
      BY <2>3, <3>6 DEF Hierarchy!HierarchyNext
  <2>11. CASE at \notin Visible
    <3>1. Visible' = Visible
      BY <2>7, <2>11
    <3>2. VisibleFolders' = VisibleFolders
      BY <2>9, <3>1, FoldersVisible, FoldersVisibleNext
    <3>3. Hierarchy!AddUnseen(n)
      BY <2>1, <3>2 DEF Hierarchy!AddUnseen
    <3> QED
      BY <2>3, <3>3 DEF Hierarchy!HierarchyNext
  <2> QED
    BY <2>10, <2>11
<1> QED
  BY <1>2, <1>3

(* DeleteFolder's first transaction cuts the whole subtree of a visible      *)
(* folder off, and no more; that of a hidden one changes nothing.            *)
LEMMA CutRefines ==
    ASSUME IInv, IInv', NEW n \in inserted, Detached(n, tree[n][1]), folderName' = folderName,
           inserted' = inserted
    PROVE  Hierarchy!HierarchyNext \/ UNCHANGED Hierarchy!hierarchyVars
<1>1. /\ Visible' \subseteq Visible \ {n}
      /\ \A m \in Visible : tree'[m][1] = tree[m][1] /\ Kids(tree[m]) \subseteq Kids(tree'[m]) \cup {n}
  BY DEF Detached
<1>2. /\ Lists(tree') /\ Visible' = Reach(tree') /\ Visible = Reach(tree)
  BY InsertedNodes DEF IInv, StoreInv, Lists, Visible
<1>3. /\ Home \in Visible' /\ Visible' \subseteq Ids
      /\ \A m \in Visible' : Kids(tree'[m]) \subseteq Visible'
  BY <1>2, ReachStep DEF IInv, VisibleInv
<1>4. n # Home /\ \A m \in DOMAIN tree : Home \notin Kids(tree[m])
  BY InsertedNodes DEF IInv, StoreInv, Nodes, Home
<1>5. \A m \in Visible : Folder(m)' = Folder(m)
  BY <1>1 DEF Folder
<1>6. VisibleFolders' = {Folder(m) : m \in Visible' \ {Home}}
  BY <1>1, <1>5, FoldersVisibleNext
<1>7. \A m : Folder(m).id = m /\ Folder(m).parent = tree[m][1]
  BY DEF Folder
(* What stays in sight: everything outside a set that holds n and, with a    *)
(* folder, its children.                                                     *)
<1>8. ASSUME NEW S, \A m \in Visible \ {Home} : tree[m][1] \in S => m \in S, n \in S
    \/ n \notin Visible
      PROVE  Visible \subseteq Visible' \cup S
  <2> DEFINE T == (Visible \cap (Visible' \cup S)) \ {Home}
  <2>1. T \subseteq Nodes
    BY VisibleWalk DEF Ids
  <2>2. \A m \in Visible \cap (Visible' \cup S) : Kids(tree[m]) \subseteq T
    <3>1. ASSUME NEW m \in Visible \cap (Visible' \cup S), NEW k \in Kids(tree[m]) PROVE k \in T
      <4>1. k \in Visible \ {Home} /\ tree[k][1] = m
        BY <3>1, VisibleWalk DEF IInv, VisibleInv
      <4>2. CASE m \in Visible'
        <5>1. k \in Kids(tree'[m]) \/ k = n
          BY <1>1, <3>1
        <5> QED
          BY <1>3, <1>8, <4>1, <4>2, <5>1
      <4>3. CASE m \in S
        BY <1>8, <4>1, <4>3
      <4> QED
        BY <4>2, <4>3
    <3> QED
      BY <3>1
  <2>3. Kids(tree[Home]) \subseteq T /\ \A m \in T : Kids(tree[m]) \subseteq T
    BY <1>3, <2>2, VisibleWalk
  <2> HIDE DEF T
  <2>4. Reach(tree) \subseteq {Home} \cup T
    BY <2>1, <2>3, ReachLeast
  <2> QED
    BY <1>2, <1>3, <2>4 DEF T
<1>9. CASE n \notin Visible
  <2>1. Visible \subseteq Visible' \cup {}
    BY <1>8, <1>9
  <2>2. Visible' = Visible
    BY <1>1, <2>1
  <2> QED
    BY <1>1, <2>2, SameFolders
<1>10. CASE n \in Visible
  <2> DEFINE B == Visible \ Visible'
  <2>1. \A f \in VisibleFolders : f.parent \in B => f.id \in B
    <3>1. ASSUME NEW m \in Visible \ {Home}, tree[m][1] \in B, m \in Visible' PROVE FALSE
      <4>1. PICK up \in Visible' : up \in DOMAIN tree' /\ m \in Kids(tree'[up])
        BY <1>2, <3>1, ReachParent
      <4>2. tree'[m][1] = up
        BY <4>1 DEF IInv, VisibleInv
      <4> QED
        BY <1>1, <3>1, <4>1, <4>2
    <3> QED
      BY <1>7, <3>1, FoldersVisible
  <2>2. Hierarchy!IdsOf(VisibleFolders) = Visible \ {Home}
    BY <1>7, FoldersVisible DEF Hierarchy!IdsOf
  <2>3. Hierarchy!IdsOf(VisibleFolders') = Visible' \ {Home}
    BY <1>6, <1>7 DEF Hierarchy!IdsOf
  <2>4. B \in SUBSET (Visible \ {Home}) /\ n \in B
    BY <1>1, <1>3, <1>10
  <2>5. ASSUME NEW S \in SUBSET (Visible \ {Home}), n \in S,
               \A f \in VisibleFolders : f.parent \in S => f.id \in S
        PROVE  B \subseteq S
    <3>1. \A m \in Visible \ {Home} : tree[m][1] \in S => m \in S
      BY <1>7, <2>5, FoldersVisible
    <3> QED
      BY <1>8, <2>5, <3>1
  <2>6. Hierarchy!Below(VisibleFolders, n) = {f \in VisibleFolders : f.id \in B}
    <3> DEFINE Cuts == {S \in SUBSET (Visible \ {Home}) :
                          n \in S /\ \A f \in VisibleFolders : f.parent \in S => f.id \in S}
    <3>1. Hierarchy!Below(VisibleFolders, n) = {f \in VisibleFolders : \A S \in Cuts : f.id \in S}
      BY <2>2 DEF Hierarchy!Below
    <3>2. B \in Cuts /\ \A S \in Cuts : B \subseteq S
      BY <2>1, <2>4, <2>5
    <3> QED
      BY <3>1, <3>2
  <2>7. VisibleFolders' = VisibleFolders \ {f \in VisibleFolders : f.id \in B}
    <3>1. VisibleFolders = {Folder(m) : m \in Visible \ {Home}}
      BY FoldersVisible
    <3>2. \A m \in Visible \ {Home} : Folder(m).id \in B <=> m \notin Visible'
      BY <1>7
    <3> QED
      BY <1>1, <1>6, <3>1, <3>2
  <2>8. Hierarchy!Cut(n)
    BY <2>6, <2>7 DEF Hierarchy!Cut
  <2>9. n \in Hierarchy!IdsOf(VisibleFolders) \ Hierarchy!IdsOf(VisibleFolders')
    BY <1>1, <1>4, <1>10, <2>2, <2>3
  <2> QED
    BY <2>8, <2>9 DEF Hierarchy!HierarchyNext
<1> QED
  BY <1>9, <1>10

(* A step that leaves the tree, the names and the history of inserted nodes  *)
(* alone is not seen.                                                        *)
LEMMA UnseenStep ==
    ASSUME IInv, IInv', UNCHANGED <<tree, folderName, inserted>>
    PROVE  UNCHANGED Hierarchy!hierarchyVars
  BY SameTree, SameFolders

(* DeleteFolder detaches, or the process dies. *)
LEMMA DetachRefines ==
    ASSUME IInv, IInv', NEW p \in Procs, Detach(p)
    PROVE  Hierarchy!HierarchyNext \/ UNCHANGED Hierarchy!hierarchyVars
<1> DEFINE n == proc[p].node
           parent == tree[n][1]
           list == IF parent \in DOMAIN tree THEN tree[parent] ELSE <<>>
<1>1. folderName' = folderName /\ inserted' = inserted
  BY DEF Detach, historyVars
<1>2. CASE UNCHANGED tree
  BY <1>1, <1>2, UnseenStep
<1>3. ASSUME n \in DOMAIN tree, tree[n] # <<>>, NEW rest \in Without(list, n),
             tree' = Put(tree, parent, rest)
      PROVE  Hierarchy!HierarchyNext \/ UNCHANGED Hierarchy!hierarchyVars
  <2>1. n \in inserted
    BY Here DEF Detach, HoldsInv
  <2>2. Detached(n, parent)
    BY <1>3, <2>1, DetachTree
  <2> QED
    BY <1>1, <2>1, <2>2, CutRefines
<1> QED
  BY <1>2, <1>3 DEF Detach

(* The entry of a hidden node goes: nobody sees it. *)
LEMMA KidRefines ==
    ASSUME IInv, IInv', NEW p \in Procs, NextKid(p)
    PROVE  UNCHANGED Hierarchy!hierarchyVars
<1>1. folderName' = folderName /\ inserted' = inserted
  BY DEF NextKid, historyVars
<1>2. CASE UNCHANGED tree
  BY <1>1, <1>2, UnseenStep
<1>3. CASE tree' = Drop(tree, proc[p].stack[1].node)
  <2>1. proc[p].stack[1].node \notin Visible
    <3>1. WellFormed(proc[p]) /\ HoldsInv(proc[p]) /\ proc[p].pc \in Clearing
      BY Here DEF NextKid, Clearing
    <3> QED
      BY <3>1, Popped DEF WellFormed, HoldsInv, Hidden
  <2>2. /\ DOMAIN tree' = DOMAIN tree \ {proc[p].stack[1].node} /\ Visible' = Visible
        /\ \A m \in DOMAIN tree' : tree'[m] = tree[m]
    BY <1>3, <2>1, DropTree
  <2> QED
    BY <1>1, <2>1, <2>2, VisibleWalk, SameFolders
<1> QED
  BY <1>2, <1>3 DEF NextKid

(* Names come before a node can be browsed and go after. *)
LEMMA NamesRefine ==
    ASSUME IInv, IInv', NEW p \in Procs, PutFolderName(p) \/ DeleteFolderName(p)
    PROVE  UNCHANGED Hierarchy!hierarchyVars
<1>1. tree' = tree /\ inserted' = inserted /\ Visible' = Visible
  BY SameTree DEF PutFolderName, DeleteFolderName, historyVars
<1>2. PICK n : /\ n \notin Visible
               /\ folderName' = Drop(folderName, n)
                   \/ \E name : folderName' = Put(folderName, n, name)
  <2>1. CASE PutFolderName(p)
    <3>1. proc[p].pc \in Making
      BY <2>1 DEF PutFolderName, Making
    <3> QED
      BY <2>1, <3>1, MakesHidden DEF PutFolderName
  <2>2. CASE DeleteFolderName(p)
    <3>1. WellFormed(proc[p]) /\ HoldsInv(proc[p]) /\ proc[p].pc \in Clearing
      BY <2>2, Here DEF DeleteFolderName, Clearing
    <3>2. proc[p].stack[1].node \notin Visible
      BY <3>1, Popped DEF WellFormed, HoldsInv, Hidden
    <3> QED
      BY <2>2, <3>2 DEF DeleteFolderName
  <2> QED
    BY <2>1, <2>2
<1>3. \A m \in Visible : folderName'[m] = folderName[m]
  BY <1>2 DEF Put, Drop, IInv, VisibleInv
<1> QED
  BY <1>1, <1>3, SameFolders

(* Every step of a call is a step of the hierarchy, or is not seen. *)
LEMMA CallRefines ==
    ASSUME IInv, IInv', NEW p \in Procs, Step(p)
    PROVE  Hierarchy!HierarchyNext \/ UNCHANGED Hierarchy!hierarchyVars
<1>1. CASE GetChildrenForNode(p) \/ FindChild(p) \/ EnterSubtree(p) \/ CheckEmpty(p)
  BY <1>1, UnseenStep DEF GetChildrenForNode, FindChild, EnterSubtree, CheckEmpty, storeVars,
       historyVars
<1>2. CASE CheckSiblings(p)
  BY <1>2, UnseenStep DEF CheckSiblings, storeVars
<1>3. CASE MakeDir(p) \/ DownloadFiles(p) \/ AddToExisting(p)
  BY <1>3, UnseenStep DEF MakeDir, DownloadFiles, AddToExisting, storeVars, historyVars
<1>4. CASE RemoveSatelliteFolder(p) \/ RemoveFolder(p) \/ RemoveContent(p) \/ RemoveSubtreeFolder(p)
  BY <1>4, UnseenStep
     DEF RemoveSatelliteFolder, RemoveFolder, RemoveContent, RemoveSubtreeFolder, storeVars, historyVars
<1>5. CASE MarkFolderSatellite(p) \/ DeleteSatelliteMapping(p)
  BY <1>5, UnseenStep DEF MarkFolderSatellite, DeleteSatelliteMapping, historyVars
<1>6. CASE PutFolderName(p) \/ DeleteFolderName(p)
  BY <1>6, NamesRefine
<1>7. CASE InsertNode(p)
  BY <1>7, InsertRefines
<1>8. CASE Detach(p)
  BY <1>8, DetachRefines
<1>9. CASE NextKid(p)
  BY <1>9, KidRefines
<1> QED
  BY <1>1, <1>2, <1>3, <1>4, <1>5, <1>6, <1>7, <1>8, <1>9 DEF Step

(* Every step of the system is a step of the hierarchy, or is not seen. *)
LEMMA NextRefines ==
    IInv /\ IInv' /\ [TreeNext]_vars => [Hierarchy!HierarchyNext]_(Hierarchy!hierarchyVars)
<1> SUFFICES ASSUME IInv, IInv', [TreeNext]_vars
             PROVE  Hierarchy!HierarchyNext \/ UNCHANGED Hierarchy!hierarchyVars
  OBVIOUS
<1>1. CASE UNCHANGED vars
  BY <1>1, UnseenStep DEF vars, storeVars, historyVars
<1>2. ASSUME NEW p \in Workers, NEW job \in Jobs, Start(p, job)
      PROVE  UNCHANGED Hierarchy!hierarchyVars
  BY <1>2, UnseenStep DEF Start, storeVars, historyVars
<1>3. ASSUME NEW p \in Procs, Step(p)
      PROVE  Hierarchy!HierarchyNext \/ UNCHANGED Hierarchy!hierarchyVars
  BY <1>3, CallRefines
<1>4. CASE StartReaper \/ Descend \/ CheckDeadline \/ Crash
  BY <1>4, UnseenStep DEF StartReaper, Descend, CheckDeadline, Crash, storeVars, historyVars
<1> QED
  BY <1>1, <1>2, <1>3, <1>4 DEF TreeNext, ReaperStep, Procs

(* Browsing from home shows a FolderHierarchy: whole folders appear as       *)
(* leaves, whole subtrees disappear at once and nothing removed comes back,  *)
(* for any jobs, goroutines and crashes (filesys.go, InsertNode, DeleteFolder). *)
THEOREM BrowsingAtomic == TreeSpec => BrowsedAtomically
<1>1. TreeInit => Hierarchy!HierarchyInit
  BY InitHierarchy
<1>2. IInv /\ IInv' /\ [TreeNext]_vars => [Hierarchy!HierarchyNext]_(Hierarchy!hierarchyVars)
  BY NextRefines
<1> QED
  BY <1>1, <1>2, Inductive, PTL DEF TreeSpec, BrowsedAtomically, Hierarchy!HierarchySpec
===============================================================================
