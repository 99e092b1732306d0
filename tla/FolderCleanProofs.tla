-------------------------- MODULE FolderCleanProofs --------------------------
(***************************************************************************)
(* Proof that FolderTree leaves nothing behind as long as no deletion runs *)
(* beside another job and the process does not die.  The argument follows  *)
(* the walk of DeleteNodeSubtree: whatever the buckets and the disk know   *)
(* can be browsed, belongs to a creation that has not inserted its node    *)
(* yet, or hangs below the stack of the one deletion under way.            *)
(***************************************************************************)
EXTENDS FolderTreeProofs

(* No deletion has run beside another job, and the process has not died. *)
Calm == ~mixed /\ crashes = 0

Resting == {"idle", "descend", "check"}
Cutting == {"rmSat", "rmDir"} \cup Clearing
Deletes == {"delete", "walk"}

(* A deletion does its work in a call that deletes, and the reaper makes no  *)
(* other calls.                                                              *)
RoleInv ==
    /\ proc[Reaper].call \in {"none"} \cup Deletes
    /\ \A p \in Procs : proc[p].pc \in {"detach", "empty"} \cup Cutting => proc[p].call \in Deletes

(* Beside a deletion nobody looks anything up or makes anything. *)
SoloInv == \A p, q \in Procs : Deleting(p) /\ p # q => proc[q].pc \in Resting

(* Where a call has got to, and what it has found there, can be browsed. *)
Browses(r) ==
    /\ r.pc \in {"list", "match", "empty"} \cup Making => r.at \in Visible
    /\ r.pc = "match" => Kids(r.list) \subseteq Visible
    /\ r.pc \in {"addto", "mark", "detach"} => r.node \in Visible

(* The nodes of U and everything below them. *)
Hang(t, U) ==
    LET walks == {S \in SUBSET Nodes : /\ U \subseteq S
                                      /\ \A n \in S : n \in DOMAIN t => Kids(t[n]) \subseteq S}
    IN  {n \in Nodes : \A S \in walks : n \in S}

(* The node a goroutine works on, and the one at the top of its stack, while *)
(* it is at one of the places pcs.                                           *)
Own(r, pcs) == IF r.pc \in pcs THEN {r.node} ELSE {}
Top(r, pcs) == IF r.pc \in pcs THEN {r.stack[1].node} ELSE {}

(* The children that a frame of the walk still has to visit. *)
Queued(f) == {f.kids[j] : j \in 1..Len(f.kids)}

(* The nodes that the walk is in, and the ones it has not reached yet. *)
Opened(r) ==
    {n \in Nodes : /\ r.pc \in Clearing
                   /\ \E i \in 1..Len(r.stack) : (i > 1 \/ r.pc = "kids") /\ n = r.stack[i].node}
Unopened(r) ==
    Own(r, {"rmSat", "rmDir"}) \cup Top(r, {"enter"})
    \cup {n \in Nodes : r.pc \in Clearing /\ \E i \in 1..Len(r.stack) : n \in Queued(r.stack[i])}

(* What the deletion that r is in has still to delete. *)
Doomed(r) == Opened(r) \cup Hang(tree, Unopened(r))

(* The walk of DeleteNodeSubtree: the children of a node that it is in are   *)
(* gone, are still to be visited, or are being visited.                      *)
WalkInv(r) ==
    r.pc \in Clearing =>
        /\ r.pc # "kids" => r.stack[1].kids = <<>>
        /\ r.pc \notin {"enter", "kids"} => r.stack[1].node \notin DOMAIN tree
        /\ \A i \in 1..Len(r.stack) :
             (i > 1 \/ r.pc = "kids") /\ r.stack[i].node \in DOMAIN tree =>
                \A k \in Kids(tree[r.stack[i].node]) \cap DOMAIN tree :
                    k \in Queued(r.stack[i]) \/ (i > 1 /\ k = r.stack[i - 1].node)

(* The nodes that have a name, a directory or a satellite mapping and no     *)
(* entry in the tree: not yet, or no longer.                                 *)
Naming(r) == Own(r, {"insert"}) \cup Top(r, {"unname"})
Filling(r) == Own(r, {"fetch", "name", "insert"}) \cup Top(r, {"unname", "unmap", "content", "dir"})
Mapping(r) == Top(r, {"unname", "unmap"})

(* Nothing else is left behind. *)
LeftInv ==
    /\ \A n \in DOMAIN tree : n \in Visible \/ \E p \in Procs : n \in Doomed(proc[p])
    /\ \A n \in DOMAIN folderName : n \in DOMAIN tree \/ \E p \in Procs : n \in Naming(proc[p])
    /\ \A n \in DOMAIN disk : n \in DOMAIN tree \/ \E p \in Procs : n \in Filling(proc[p])
    /\ \A n \in DOMAIN satellite : n \in DOMAIN tree \/ \E p \in Procs : n \in Mapping(proc[p])

CalmInv ==
    Calm => /\ SoloInv
            /\ \A p \in Procs : Browses(proc[p]) /\ WalkInv(proc[p])
            /\ LeftInv

(* The same when a deletion is the only job there is. *)
Tidy(r) ==
    /\ Browses(r) /\ WalkInv(r)
    /\ DOMAIN tree \subseteq Visible \cup Doomed(r)
    /\ DOMAIN folderName \subseteq DOMAIN tree \cup Naming(r)
    /\ DOMAIN disk \subseteq DOMAIN tree \cup Filling(r)
    /\ DOMAIN satellite \subseteq DOMAIN tree \cup Mapping(r)

-----------------------------------------------------------------------------
(* Facts about the operators. *)

(* What hangs below U holds U, and the children of its members. *)
LEMMA HangStep ==
    ASSUME NEW t, Lists(t), NEW U, U \subseteq Nodes
    PROVE  /\ U \subseteq Hang(t, U) /\ Hang(t, U) \subseteq Nodes
           /\ \A n \in Hang(t, U) : n \in DOMAIN t => Kids(t[n]) \subseteq Hang(t, U)
<1>1. U \subseteq Hang(t, U) /\ Hang(t, U) \subseteq Nodes
  BY DEF Hang
<1>2. ASSUME NEW n \in Hang(t, U), n \in DOMAIN t, NEW k \in Kids(t[n]) PROVE k \in Hang(t, U)
  <2>1. k \in Nodes
    BY <1>2 DEF Lists
  <2>2. ASSUME NEW S \in SUBSET Nodes, U \subseteq S,
               \A m \in S : m \in DOMAIN t => Kids(t[m]) \subseteq S
        PROVE  k \in S
    BY <1>2, <2>2 DEF Hang
  <2> QED
    BY <2>1, <2>2 DEF Hang
<1> QED
  BY <1>1, <1>2

(* It is the least such set. *)
LEMMA HangLeast ==
    ASSUME NEW t, NEW U, NEW S, S \subseteq Nodes, U \subseteq S,
           \A m \in S : m \in DOMAIN t => Kids(t[m]) \subseteq S
    PROVE  Hang(t, U) \subseteq S
  BY DEF Hang

LEMMA HangNone == \A t : Hang(t, {}) = {}
<1> TAKE t
<1>1. Hang(t, {}) \subseteq {}
  BY HangLeast
<1> QED
  BY <1>1

(* A goroutine that neither makes nor deletes has nothing of its own. *)
Light(r) == r.pc \notin {"fetch", "name", "insert"} \cup Cutting

LEMMA LightNothing ==
    ASSUME NEW r, Light(r)
    PROVE  /\ Doomed(r) = {} /\ Doomed(r)' = {} /\ WalkInv(r) /\ WalkInv(r)'
           /\ Naming(r) = {} /\ Filling(r) = {} /\ Mapping(r) = {}
<1>1. /\ r.pc \notin Clearing /\ r.pc \notin {"rmSat", "rmDir"} /\ r.pc # "enter"
      /\ r.pc \notin {"fetch", "name", "insert"}
      /\ r.pc \notin {"unname", "unmap", "content", "dir"}
  BY DEF Light, Cutting, Clearing
<1>2. Opened(r) = {} /\ Unopened(r) = {}
  BY <1>1 DEF Opened, Unopened, Own, Top
<1>3. Doomed(r) = {} /\ Doomed(r)' = {}
  BY <1>2, HangNone DEF Doomed
<1>4. Naming(r) = {} /\ Filling(r) = {} /\ Mapping(r) = {}
  BY <1>1 DEF Naming, Filling, Mapping, Own, Top
<1> QED
  BY <1>1, <1>3, <1>4 DEF WalkInv

LEMMA RestingLight ==
    ASSUME NEW r, r.pc \in Resting
    PROVE  Light(r) /\ Browses(r) /\ Browses(r)'
  BY DEF Resting, Light, Cutting, Clearing, Browses, Making
-----------------------------------------------------------------------------
(* Who does what beside whom. *)

(* A goroutine that goes on from r to s stays in a call of its kind. *)
Continues(r, s) ==
    /\ s.call \in Deletes => r.call \in Deletes
    /\ r.call \in Deletes => s.call \in {"none"} \cup Deletes
    /\ s.pc \in {"detach", "empty"} \cup Cutting => s.call \in Deletes

(* What its call returns to is of its kind. *)
LEMMA ReturnContinues ==
    ASSUME NEW r, WellFormed(r), r.pc \notin Resting, NEW res
    PROVE  Continues(r, Return(r, res))
<1>1. r.call \in {"create", "actual", "delete", "walk"}
  BY DEF WellFormed, Resting
<1>2. \A call, path : Call(r, call, path).call = call
  BY DEF Call, WellFormed, Slots
<1>3. Idle.call = "none" /\ AfterCheck(r, res).call = "none"
  BY DEF AfterCheck, Idle
<1>4. CreateNext(r).call = "create" /\ CreateNext([r EXCEPT !.path = <<>>]).call = "create"
  BY <1>2 DEF CreateNext, Call, WellFormed, Slots
<1>5. CASE r.call \in {"create", "actual"}
  <2>1. Return(r, res).call \in {"none", "create"}
    BY <1>3, <1>4, <1>5 DEF Return, AfterCreate
  <2>2. Return(r, res).call \notin Deletes /\ r.call \notin Deletes
    BY <1>5, <2>1 DEF Deletes
  <2>3. Fresh(Return(r, res))
    BY ReturnFresh DEF Resting
  <2>4. Return(r, res).pc \notin {"detach", "empty"} \cup Cutting
    BY <2>3 DEF Fresh, Cutting, Clearing
  <2> QED
    BY <2>2, <2>4 DEF Continues
<1>6. CASE r.call \in Deletes
  <2>1. Return(r, res) = AfterDelete(r, res)
    BY <1>6 DEF Return, Deletes
  <2>2. AfterDelete(r, res).call \in {"none", "delete", "walk"}
    BY <1>2, <1>3 DEF AfterDelete
  <2>3. Fresh(Return(r, res))
    BY ReturnFresh DEF Resting
  <2>4. Return(r, res).pc \notin {"detach", "empty"} \cup Cutting
    BY <2>3 DEF Fresh, Cutting, Clearing
  <2> QED
    BY <1>6, <2>1, <2>2, <2>4 DEF Continues, Deletes
<1> QED
  BY <1>1, <1>5, <1>6 DEF Deletes

(* What has started a call has browsed nothing but home. *)
LEMMA FreshLight ==
    ASSUME NEW r, Fresh(r)
    PROVE  Light(r) /\ Browses(r)'
<1>1. Home \in Visible'
  BY DEF Visible, Reach
<1> QED
  BY <1>1 DEF Fresh, Light, Browses, Making, Cutting, Clearing

(* A deletion stays alone. *)
LEMMA RoleStep ==
    ASSUME IInv, RoleInv, NEW p \in Procs, proc[p].pc \notin Resting, NEW s, Becomes(p, s),
           Continues(proc[p], s)
    PROVE  RoleInv' /\ (SoloInv => SoloInv')
<1>1. DOMAIN proc' = Procs /\ proc'[p] = s /\ \A q \in Procs \ {p} : proc'[q] = proc[q]
  BY DEF IInv, ProcInv, Becomes
<1>2. WellFormed(proc[p]) /\ proc[p].pc # "idle" /\ Reaper \in Procs
  BY Here DEF Resting, Procs
<1>3. proc[p].call # "none"
  BY <1>2 DEF WellFormed, Resting
<1>4. RoleInv'
  BY <1>1, <1>2, <1>3 DEF RoleInv, Continues
<1>5. ASSUME SoloInv, NEW a \in Procs, NEW b \in Procs, Deleting(a)', a # b
      PROVE  proc'[b].pc \in Resting
  <2>1. Deleting(a)
    BY <1>1, <1>2, <1>5 DEF Deleting, Active, Continues, Deletes
  <2>2. b # p
    BY <1>5, <2>1 DEF SoloInv
  <2> QED
    BY <1>1, <1>5, <2>1, <2>2 DEF SoloInv
<1> QED
  BY <1>4, <1>5 DEF SoloInv

(* Calm does not come back. *)
LEMMA CalmStep ==
    ASSUME IInv, crashes' = crashes, mixed' = mixed
    PROVE  Calm' = Calm
  BY DEF Calm

(* A step of a deletion: nobody else has anything of its own. *)
LEMMA DeletionStep ==
    ASSUME IInv, RoleInv, CalmInv, NEW p \in Procs, proc[p].pc \in {"detach"} \cup Cutting,
           NEW s, Becomes(p, s), Continues(proc[p], s), crashes' = crashes, mixed' = mixed,
           Calm /\ Tidy(proc[p]) => Tidy(s)'
    PROVE  RoleInv' /\ CalmInv'
<1>1. DOMAIN proc' = Procs /\ proc'[p] = s /\ \A q \in Procs \ {p} : proc'[q] = proc[q]
  BY DEF IInv, ProcInv, Becomes
<1>2. proc[p].pc \notin Resting /\ Deleting(p)
  BY DEF RoleInv, Resting, Cutting, Clearing, Deleting, Active, Deletes
<1>3. RoleInv' /\ (SoloInv => SoloInv')
  BY <1>2, RoleStep
<1> SUFFICES ASSUME Calm' PROVE CalmInv'
  BY <1>3 DEF CalmInv
<1>4. Calm /\ SoloInv /\ LeftInv /\ Browses(proc[p]) /\ WalkInv(proc[p])
  BY CalmStep DEF CalmInv
<1>5. \A q \in Procs \ {p} : proc[q].pc \in Resting
  BY <1>2, <1>4 DEF SoloInv
<1>6. ASSUME NEW q \in Procs \ {p}
      PROVE  /\ Doomed(proc[q]) = {} /\ Naming(proc[q]) = {} /\ Filling(proc[q]) = {}
             /\ Mapping(proc[q]) = {}
    BY <1>5, RestingLight, LightNothing
<1>7. Tidy(proc[p])
  BY <1>4, <1>6 DEF LeftInv, Tidy
<1>8. Tidy(s)'
  BY <1>4, <1>7
<1>9. \A q \in Procs : Browses(proc[q])' /\ WalkInv(proc[q])'
  <2>1. SUFFICES ASSUME NEW q \in Procs PROVE Browses(proc[q])' /\ WalkInv(proc[q])'
    OBVIOUS
  <2>2. CASE q = p
    BY <1>1, <1>8, <2>2 DEF Tidy, Browses, WalkInv
  <2>3. CASE q # p
    <3>1. PICK x : x = proc[q] /\ x = proc'[q]
      BY <1>1, <2>3
    <3>2. Browses(x)' /\ WalkInv(x)'
      BY <1>5, <2>3, <3>1, RestingLight, LightNothing
    <3> QED
      BY <3>1, <3>2 DEF Browses, WalkInv
  <2> QED
    BY <2>2, <2>3
<1>10. LeftInv'
  BY <1>1, <1>8 DEF LeftInv, Tidy, Doomed, Naming, Filling, Mapping
<1> QED
  BY <1>3, <1>4, <1>9, <1>10 DEF CalmInv

-----------------------------------------------------------------------------
(* The steps of a deletion. *)

(* What the invariants say of a goroutine in the walk. *)
LEMMA InWalk ==
    ASSUME IInv, NEW p \in Procs, proc[p].pc \in Clearing
    PROVE  /\ WellFormed(proc[p]) /\ proc[p].stack \in Seq(Frames) /\ proc[p].stack # <<>>
           /\ Len(proc[p].stack) \in Nat /\ Len(proc[p].stack) >= 1
           /\ proc[p].stack[1].node \in Nodes /\ proc[p].stack[1].node \notin Visible
<1>1. WellFormed(proc[p]) /\ HoldsInv(proc[p])
  BY Here
<1>2. proc[p].stack \in Seq(Frames) /\ proc[p].stack # <<>>
  BY <1>1 DEF WellFormed
<1>3. proc[p].stack[1] \in Frames /\ 1 \in 1..Len(proc[p].stack)
  BY <1>2, Popped
<1> QED
  BY <1>1, <1>2, <1>3 DEF HoldsInv, Hidden, Frames

(* Its call goes on. *)
LEMMA SameCall ==
    ASSUME IInv, RoleInv, NEW p \in Procs, proc[p].pc \in {"detach"} \cup Cutting,
           NEW s, s.call = proc[p].call
    PROVE  Continues(proc[p], s)
  BY DEF RoleInv, Continues

(* From the deletion of the entry on, the walk below the top stays the same. *)
LEMMA SweepSame ==
    ASSUME NEW r, NEW s, r.pc \in {"unname", "unmap", "content", "dir"},
           s.pc \in {"unname", "unmap", "content", "dir"}, s.stack = r.stack, tree' = tree,
           WalkInv(r)
    PROVE  Doomed(s)' = Doomed(r) /\ WalkInv(s)' /\ Browses(s)'
<1>1. r.pc \in Clearing /\ s.pc \in Clearing /\ r.pc # "kids" /\ s.pc # "kids"
  BY DEF Clearing
<1>2. Opened(s) = Opened(r) /\ Unopened(s) = Unopened(r)
  BY <1>1 DEF Opened, Unopened, Own, Top
<1>3. Browses(s)'
  BY DEF Browses, Making
<1> QED
  BY <1>1, <1>2, <1>3 DEF Doomed, WalkInv

(* The content of a satellite folder goes; the node is below nothing now. *)
LEMMA CleanRemoveSatellite ==
    ASSUME IInv, RoleInv, CalmInv, NEW p \in Procs, RemoveSatelliteFolder(p)
    PROVE  RoleInv' /\ CalmInv'
<1> DEFINE r == proc[p]
<1>1. /\ r.pc = "rmSat" /\ r.pc \in {"detach"} \cup Cutting /\ Goto(p, "rmDir")
      /\ UNCHANGED <<tree, folderName, satellite, disk, crashes, mixed>> /\ Visible' = Visible
  BY SameTree DEF RemoveSatelliteFolder, storeVars, countVars, Cutting
<1>2. PICK s : s = [r EXCEPT !.pc = "rmDir"] /\ Becomes(p, s)
  BY <1>1, GotoBecomes
<1>3. s.pc = "rmDir" /\ s.call = r.call /\ s.node = r.node /\ s.stack = r.stack
  BY <1>2, Here, MovedTo
<1>4. ASSUME Tidy(r) PROVE Tidy(s)'
  <2>1. Unopened(s) = Unopened(r) /\ Opened(s) = Opened(r)
    BY <1>1, <1>3 DEF Unopened, Opened, Own, Top, Clearing
  <2>2. Browses(s)' /\ WalkInv(s)'
    BY <1>3 DEF Browses, WalkInv, Making, Clearing
  <2>3. Naming(r) = {} /\ Filling(r) = {} /\ Mapping(r) = {}
    BY <1>1 DEF Naming, Filling, Mapping, Own, Top
  <2> QED
    BY <1>1, <1>4, <2>1, <2>2, <2>3 DEF Tidy, Doomed
<1> QED
  BY <1>1, <1>2, <1>3, <1>4, SameCall, DeletionStep

(* So does its directory, and the walk begins. *)
LEMMA CleanRemoveFolder ==
    ASSUME IInv, RoleInv, CalmInv, NEW p \in Procs, RemoveFolder(p)
    PROVE  RoleInv' /\ CalmInv'
<1> DEFINE r == proc[p]
           f == [node |-> r.node, kids |-> <<>>]
<1>1. /\ r.pc = "rmDir" /\ r.pc \in {"detach"} \cup Cutting /\ disk' = Drop(disk, r.node)
      /\ UNCHANGED <<tree, folderName, satellite, crashes, mixed>> /\ Visible' = Visible
  BY SameTree DEF RemoveFolder, storeVars, countVars, Cutting
<1>2. PICK s : s = [r EXCEPT !.pc = "enter", !.stack = <<f>>] /\ Becomes(p, s)
  BY DEF RemoveFolder
<1>3. s.pc = "enter" /\ s.call = r.call /\ s.node = r.node /\ s.stack = <<f>>
  BY <1>2, Here DEF WellFormed, Slots
<1>4. f.node = r.node /\ f.kids = <<>>
  OBVIOUS
<1> HIDE DEF f
<1>5. ASSUME Tidy(r) PROVE Tidy(s)'
  <2>1. Len(s.stack) = 1 /\ s.stack[1] = f
    BY <1>3
  <2>2. Queued(f) = {}
    BY <1>4 DEF Queued
  <2>3. Unopened(r) = {r.node} /\ Opened(r) = {}
    BY <1>1 DEF Unopened, Opened, Own, Top, Clearing
  <2>4. Unopened(s) = {r.node}
    BY <1>3, <1>4, <2>1, <2>2 DEF Unopened, Own, Top, Clearing
  <2>5. Browses(s)' /\ WalkInv(s)'
    BY <1>3, <1>4, <2>1 DEF Browses, WalkInv, Making, Clearing
  <2>6. Naming(r) = {} /\ Filling(r) = {} /\ Mapping(r) = {}
    BY <1>1 DEF Naming, Filling, Mapping, Own, Top
  <2>7. DOMAIN disk' \subseteq DOMAIN disk
    BY <1>1 DEF Drop
  <2> QED
    BY <1>1, <1>5, <2>3, <2>4, <2>5, <2>6, <2>7 DEF Tidy, Doomed
<1> QED
  BY <1>1, <1>2, <1>3, <1>5, SameCall, DeletionStep

(* The name of a node goes after its entry. *)
LEMMA CleanUnname ==
    ASSUME IInv, RoleInv, CalmInv, NEW p \in Procs, DeleteFolderName(p)
    PROVE  RoleInv' /\ CalmInv'
<1> DEFINE r == proc[p]
           n == r.stack[1].node
<1>1. /\ r.pc = "unname" /\ r.pc \in {"detach"} \cup Cutting /\ Goto(p, "unmap")
      /\ folderName' = Drop(folderName, n)
      /\ UNCHANGED <<tree, satellite, disk, crashes, mixed>> /\ Visible' = Visible
  BY SameTree DEF DeleteFolderName, diskVars, countVars, Cutting, Clearing
<1>2. PICK s : s = [r EXCEPT !.pc = "unmap"] /\ Becomes(p, s)
  BY <1>1, GotoBecomes
<1>3. s.pc = "unmap" /\ s.call = r.call /\ s.node = r.node /\ s.stack = r.stack
  BY <1>2, Here, MovedTo
<1>4. ASSUME Tidy(r) PROVE Tidy(s)'
  <2>1. Doomed(s)' = Doomed(r) /\ WalkInv(s)' /\ Browses(s)'
    BY <1>1, <1>3, <1>4, SweepSame DEF Tidy
  <2>2. Naming(r) = {n} /\ Naming(s) = {} /\ Filling(r) = Filling(s) /\ Mapping(r) = Mapping(s)
    BY <1>1, <1>3 DEF Naming, Filling, Mapping, Own, Top
  <2>3. DOMAIN folderName' = DOMAIN folderName \ {n}
    BY <1>1 DEF Drop
  <2> QED
    BY <1>1, <1>4, <2>1, <2>2, <2>3 DEF Tidy
<1> QED
  BY <1>1, <1>2, <1>3, <1>4, SameCall, DeletionStep

(* Then its satellite mapping, if it has one. *)
LEMMA CleanUnmap ==
    ASSUME IInv, RoleInv, CalmInv, NEW p \in Procs, DeleteSatelliteMapping(p)
    PROVE  RoleInv' /\ CalmInv'
<1> DEFINE r == proc[p]
           n == r.stack[1].node
<1>1. /\ r.pc = "unmap" /\ r.pc \in {"detach"} \cup Cutting
      /\ UNCHANGED <<tree, folderName, disk, crashes, mixed>> /\ Visible' = Visible
  BY SameTree DEF DeleteSatelliteMapping, diskVars, countVars, Cutting, Clearing
<1>2. PICK s : /\ Becomes(p, s) /\ s.pc \in {"content", "dir"}
               /\ s.call = r.call /\ s.node = r.node /\ s.stack = r.stack
               /\ DOMAIN satellite' = DOMAIN satellite \ {n}
  <2>1. CASE /\ n \in DOMAIN satellite /\ satellite' = Drop(satellite, n)
             /\ Becomes(p, [r EXCEPT !.pc = "content", !.content = satellite[n]])
    <3>1. PICK s : Becomes(p, s) /\ s = [r EXCEPT !.pc = "content", !.content = satellite[n]]
      BY <2>1
    <3>2. s.pc = "content" /\ s.call = r.call /\ s.node = r.node /\ s.stack = r.stack
      BY <3>1, Here DEF WellFormed, Slots
    <3>3. DOMAIN satellite' = DOMAIN satellite \ {n}
      BY <2>1 DEF Drop
    <3> QED
      BY <3>1, <3>2, <3>3
  <2>2. CASE n \notin DOMAIN satellite /\ Goto(p, "dir") /\ UNCHANGED satellite
    <3>1. PICK s : Becomes(p, s) /\ s = [r EXCEPT !.pc = "dir"]
      BY <2>2, GotoBecomes
    <3>2. s.pc = "dir" /\ s.call = r.call /\ s.node = r.node /\ s.stack = r.stack
      BY <3>1, Here, MovedTo
    <3> QED
      BY <2>2, <3>1, <3>2
  <2> QED
    BY <2>1, <2>2 DEF DeleteSatelliteMapping
<1>3. ASSUME Tidy(r) PROVE Tidy(s)'
  <2>1. Doomed(s)' = Doomed(r) /\ WalkInv(s)' /\ Browses(s)'
    BY <1>1, <1>2, <1>3, SweepSame DEF Tidy
  <2>2. /\ Mapping(r) = {n} /\ Mapping(s) = {} /\ Naming(r) = {} /\ Naming(s) = {}
        /\ Filling(r) = Filling(s)
    BY <1>1, <1>2 DEF Naming, Filling, Mapping, Own, Top
  <2> QED
    BY <1>1, <1>2, <1>3, <2>1, <2>2 DEF Tidy
<1> QED
  BY <1>1, <1>2, <1>3, SameCall, DeletionStep

(* And the content that the mapping named. *)
LEMMA CleanRemoveContent ==
    ASSUME IInv, RoleInv, CalmInv, NEW p \in Procs, RemoveContent(p)
    PROVE  RoleInv' /\ CalmInv'
<1> DEFINE r == proc[p]
<1>1. /\ r.pc = "content" /\ r.pc \in {"detach"} \cup Cutting
      /\ UNCHANGED <<tree, folderName, satellite, disk, crashes, mixed>> /\ Visible' = Visible
  BY SameTree DEF RemoveContent, storeVars, countVars, Cutting, Clearing
<1>2. PICK s : s = [r EXCEPT !.pc = "dir", !.content = <<>>] /\ Becomes(p, s)
  BY DEF RemoveContent
<1>3. s.pc = "dir" /\ s.call = r.call /\ s.node = r.node /\ s.stack = r.stack
  BY <1>2, Here DEF WellFormed, Slots
<1>4. ASSUME Tidy(r) PROVE Tidy(s)'
  <2>1. Doomed(s)' = Doomed(r) /\ WalkInv(s)' /\ Browses(s)'
    BY <1>1, <1>3, <1>4, SweepSame DEF Tidy
  <2>2. Naming(r) = Naming(s) /\ Filling(r) = Filling(s) /\ Mapping(r) = Mapping(s)
    BY <1>1, <1>3 DEF Naming, Filling, Mapping, Own, Top
  <2> QED
    BY <1>1, <1>4, <2>1, <2>2 DEF Tidy
<1> QED
  BY <1>1, <1>2, <1>3, <1>4, SameCall, DeletionStep

-----------------------------------------------------------------------------
(* The walk of DeleteNodeSubtree. *)

(* What hangs below a node that has no entry is the node itself. *)
LEMMA HangGone ==
    ASSUME NEW t, Lists(t), NEW U, U \subseteq Nodes, NEW n \in Nodes, n \notin DOMAIN t
    PROVE  Hang(t, {n} \cup U) \subseteq {n} \cup Hang(t, U)
<1> DEFINE S == {n} \cup Hang(t, U)
<1>1. S \subseteq Nodes /\ {n} \cup U \subseteq S
  BY HangStep
<1>2. \A m \in S : m \in DOMAIN t => Kids(t[m]) \subseteq S
  BY HangStep
<1> HIDE DEF S
<1>3. Hang(t, {n} \cup U) \subseteq S
  BY <1>1, <1>2, HangLeast
<1> QED
  BY <1>3 DEF S

(* A call of DeleteNodeSubtree returns whose node has no entry any more. *)
LEMMA CleanLeave ==
    ASSUME Lists(tree), NEW r, WellFormed(r), r.pc \in {"enter", "dir"}, r.call \in Deletes,
           r.stack[1].node \notin DOMAIN tree, WalkInv(r), DOMAIN tree \subseteq Visible \cup Doomed(r),
           NEW res, NEW s, s = Leave(r, res)
    PROVE  /\ WalkInv(s) /\ DOMAIN tree \subseteq Visible \cup Doomed(s)
           /\ Naming(s) = {} /\ Filling(s) = {} /\ Mapping(s) = {}
           /\ Browses(s) /\ Browses(s)' /\ Continues(r, s)
<1> DEFINE st == r.stack
           n == st[1].node
<1>1. /\ st \in Seq(Frames) /\ st # <<>> /\ r.pc \in Clearing /\ r.pc # "kids" /\ r.pc \notin Resting
      /\ st[1].kids = <<>>
  BY DEF WellFormed, Clearing, Resting, WalkInv
<1>2. /\ Len(st) \in Nat /\ Len(st) >= 1 /\ st[1] \in Frames /\ Len(Tail(st)) = Len(st) - 1
      /\ \A i \in 1..Len(Tail(st)) : Tail(st)[i] = st[i + 1] /\ i + 1 \in 2..Len(st)
      /\ \A i \in 2..Len(st) : st[i] = Tail(st)[i - 1] /\ i - 1 \in 1..Len(Tail(st))
  BY <1>1
<1>3. n \in Nodes /\ Queued(st[1]) = {}
  BY <1>1, <1>2 DEF Frames, Queued
<1> DEFINE Q == {m \in Nodes : \E i \in 1..Len(st) : m \in Queued(st[i])}
<1>4. Unopened(r) \subseteq {n} \cup Q
  BY <1>1 DEF Unopened, Own, Top
<1>5. DOMAIN tree \subseteq Visible \cup Opened(r) \cup Hang(tree, Q)
  <2>1. Unopened(r) = {n} \cup Q \/ Unopened(r) = Q
    BY <1>1 DEF Unopened, Own, Top
  <2>2. Hang(tree, {n} \cup Q) \subseteq {n} \cup Hang(tree, Q)
    BY <1>3, HangGone
  <2>3. Hang(tree, Unopened(r)) \subseteq {n} \cup Hang(tree, Q)
    BY <2>1, <2>2
  <2> QED
    BY <2>3 DEF Doomed
<1>6. CASE Tail(st) = <<>>
  <2>1. s = Return(r, res)
    BY <1>6 DEF Leave
  <2>2. Fresh(s) /\ Continues(r, s)
    BY <1>1, <2>1, ReturnFresh, ReturnContinues DEF Resting
  <2>3. Light(s) /\ s.pc \in {"idle", "list", "descend", "check"} /\ s.at = Home
    BY <2>2, FreshLight DEF Fresh
  <2>4. Browses(s) /\ Browses(s)'
    BY <2>3 DEF Browses, Making, Visible, Reach
  <2>5. Len(st) = 1
    <3>1. PICK u : u = Tail(st)
      OBVIOUS
    <3>2. Len(u) = Len(st) - 1 /\ Len(st) \in Nat
      BY <1>2, <3>1
    <3>3. u = <<>>
      BY <1>6, <3>1
    <3> QED
      BY <3>2, <3>3
  <2>6. Opened(r) = {}
    BY <1>1, <2>5 DEF Opened
  <2>7. Q = {}
    BY <1>3, <2>5
  <2>8. DOMAIN tree \subseteq Visible
    BY <1>5, <2>6, <2>7, HangNone
  <2> QED
    BY <2>2, <2>3, <2>4, <2>8, LightNothing
<1>7. CASE Tail(st) # <<>>
  <2>1. s = [r EXCEPT !.stack = Tail(@), !.pc = "kids"]
    BY <1>7 DEF Leave
  <2>2. s.pc = "kids" /\ s.stack = Tail(st) /\ s.call = r.call /\ s.pc \in Clearing
    BY <2>1 DEF WellFormed, Slots, Clearing
  <2>3. Opened(s) = Opened(r)
    BY <1>1, <1>2, <2>2 DEF Opened
  <2>4. Unopened(s) = Q
    <3>1. \A m : (\E i \in 1..Len(st) : m \in Queued(st[i])) <=>
                   \E i \in 1..Len(Tail(st)) : m \in Queued(Tail(st)[i])
      <4>1. \A i \in 1..Len(st) : i = 1 \/ i \in 2..Len(st)
        BY <1>2
      <4>2. \A i \in 2..Len(st) : i \in 1..Len(st)
        BY <1>2
      <4> QED
        BY <1>2, <1>3, <4>1, <4>2
    <3> QED
      BY <2>2, <3>1 DEF Unopened, Own, Top
  <2>5. WalkInv(s)
    <3>1. ASSUME NEW i \in 1..Len(Tail(st)), Tail(st)[i].node \in DOMAIN tree,
                 NEW k \in Kids(tree[Tail(st)[i].node]) \cap DOMAIN tree
          PROVE  k \in Queued(Tail(st)[i]) \/ (i > 1 /\ k = Tail(st)[i - 1].node)
      <4>1. Tail(st)[i] = st[i + 1] /\ i + 1 \in 1..Len(st) /\ i + 1 > 1 /\ (i + 1) - 1 = i
        BY <1>2
      <4>2. k \in Queued(st[i + 1]) \/ k = st[i].node
        BY <1>1, <3>1, <4>1 DEF WalkInv
      <4>3. i = 1 => k # st[i].node
        BY <3>1
      <4>4. i > 1 => i - 1 \in 1..Len(Tail(st)) /\ Tail(st)[i - 1] = st[i]
        BY <1>2, <4>1
      <4> QED
        BY <4>1, <4>2, <4>3, <4>4
    <3> QED
      BY <2>2, <3>1 DEF WalkInv
  <2>6. Naming(s) = {} /\ Filling(s) = {} /\ Mapping(s) = {}
    BY <2>2 DEF Naming, Filling, Mapping, Own, Top
  <2>7. Browses(s) /\ Browses(s)' /\ Continues(r, s)
    BY <2>2 DEF Browses, Making, Continues
  <2> QED
    BY <1>5, <2>3, <2>4, <2>5, <2>6, <2>7 DEF Doomed
<1> QED
  BY <1>6, <1>7

(* The directory of a node that is gone goes too, and its call returns. *)
LEMMA CleanRemoveSubtree ==
    ASSUME IInv, RoleInv, CalmInv, NEW p \in Procs, RemoveSubtreeFolder(p)
    PROVE  RoleInv' /\ CalmInv'
<1> DEFINE r == proc[p]
           n == r.stack[1].node
<1>1. /\ r.pc = "dir" /\ r.pc \in {"detach"} \cup Cutting /\ disk' = Drop(disk, n)
      /\ UNCHANGED <<tree, folderName, satellite, crashes, mixed>> /\ Visible' = Visible
  BY SameTree DEF RemoveSubtreeFolder, storeVars, countVars, Cutting, Clearing
<1>2. PICK s : s = Leave(r, "ok") /\ Becomes(p, s)
  BY DEF RemoveSubtreeFolder
<1>3. WellFormed(r) /\ r.call \in Deletes /\ Lists(tree)
  BY <1>1, Here, TreeLists DEF RoleInv
<1>4. Continues(r, s)
  <2>1. Fresh(Return(r, "ok")) /\ Continues(r, Return(r, "ok"))
    BY <1>1, <1>3, ReturnFresh, ReturnContinues DEF Resting
  <2>2. [r EXCEPT !.stack = Tail(@), !.pc = "kids"].call = r.call
    BY <1>3 DEF WellFormed, Slots
  <2> QED
    BY <1>2, <1>3, <2>1, <2>2 DEF Leave, Continues
<1>5. ASSUME Tidy(r) PROVE Tidy(s)'
  <2>1. n \notin DOMAIN tree
    BY <1>1, <1>5 DEF Tidy, WalkInv, Clearing
  <2>2. /\ WalkInv(s) /\ DOMAIN tree \subseteq Visible \cup Doomed(s)
        /\ Naming(s) = {} /\ Filling(s) = {} /\ Mapping(s) = {} /\ Browses(s)'
    BY <1>1, <1>2, <1>3, <1>5, <2>1, CleanLeave DEF Tidy
  <2>3. Naming(r) = {} /\ Filling(r) = {n} /\ Mapping(r) = {}
    BY <1>1 DEF Naming, Filling, Mapping, Own, Top
  <2>4. DOMAIN disk' = DOMAIN disk \ {n}
    BY <1>1 DEF Drop
  <2>5. WalkInv(s)' /\ Doomed(s)' = Doomed(s)
    BY <1>1, <2>2 DEF WalkInv, Doomed
  <2> QED
    BY <1>1, <1>5, <2>2, <2>3, <2>4, <2>5 DEF Tidy
<1> QED
  BY <1>1, <1>2, <1>4, <1>5, DeletionStep

(* All children of a list are in the list of the children. *)
LEMMA KidsQueued ==
    ASSUME NEW list \in Seq(Ids), NEW f, f.kids = Children(list)
    PROVE  Kids(list) \subseteq Queued(f)
<1>1. CASE list = <<>>
  BY <1>1 DEF Kids
<1>2. CASE list # <<>>
  <2>1. SUFFICES ASSUME NEW i \in 2..Len(list) PROVE list[i] \in Queued(f)
    BY DEF Kids
  <2>2. /\ f.kids = Tail(list) /\ Len(Tail(list)) = Len(list) - 1 /\ Len(list) \in Nat
        /\ i - 1 \in 1..Len(Tail(list)) /\ Tail(list)[i - 1] = list[i]
    BY <1>2, <2>1 DEF Children
  <2> QED
    BY <2>2 DEF Queued
<1> QED
  BY <1>1, <1>2

(* DeleteNodeSubtree reads the children of a node: all of them are to be     *)
(* visited.                                                                  *)
LEMMA CleanEnter ==
    ASSUME IInv, RoleInv, CalmInv, NEW p \in Procs, EnterSubtree(p)
    PROVE  RoleInv' /\ CalmInv'
<1> DEFINE r == proc[p]
           st == r.stack
           n == st[1].node
<1>1. /\ r.pc = "enter" /\ r.pc \in {"detach"} \cup Cutting /\ r.pc \in Clearing
      /\ UNCHANGED <<tree, folderName, satellite, disk, crashes, mixed>> /\ Visible' = Visible
  BY SameTree DEF EnterSubtree, storeVars, diskVars, countVars, Cutting, Clearing
<1>2. /\ WellFormed(r) /\ st \in Seq(Frames) /\ st # <<>> /\ n \in Nodes /\ r.call \in Deletes
      /\ Lists(tree) /\ Len(st) \in Nat /\ Len(st) >= 1
  BY <1>1, InWalk, TreeLists DEF RoleInv
<1>3. Naming(r) = {} /\ Filling(r) = {} /\ Mapping(r) = {}
  BY <1>1 DEF Naming, Filling, Mapping, Own, Top
<1>4. CASE n \notin DOMAIN tree
  <2>1. PICK s : s = Leave(r, "err") /\ Becomes(p, s)
    BY <1>4 DEF EnterSubtree
  <2>2. Continues(r, s)
    <3>1. Continues(r, Return(r, "err"))
      BY <1>1, <1>2, ReturnContinues DEF Resting
    <3>2. [r EXCEPT !.stack = Tail(@), !.pc = "kids"].call = r.call
      BY <1>2 DEF WellFormed, Slots
    <3> QED
      BY <1>2, <2>1, <3>1, <3>2 DEF Leave, Continues
  <2>3. ASSUME Tidy(r) PROVE Tidy(s)'
    <3>1. /\ WalkInv(s) /\ DOMAIN tree \subseteq Visible \cup Doomed(s) /\ Browses(s)'
      BY <1>1, <1>2, <1>4, <2>1, <2>3, CleanLeave DEF Tidy
    <3>2. WalkInv(s)' /\ Doomed(s)' = Doomed(s)
      BY <1>1, <3>1 DEF WalkInv, Doomed
    <3> QED
      BY <1>1, <1>3, <2>3, <3>1, <3>2 DEF Tidy
  <2> QED
    BY <1>1, <2>1, <2>2, <2>3, DeletionStep
<1>5. CASE n \in DOMAIN tree
  <2> DEFINE f == [node |-> n, kids |-> Children(tree[n])]
  <2>1. PICK s : Becomes(p, s) /\ s = [r EXCEPT !.pc = "kids", !.stack = <<f>> \o Tail(st)]
    BY <1>5 DEF EnterSubtree
  <2>2. s.pc = "kids" /\ s.call = r.call /\ s.stack = <<f>> \o Tail(st) /\ s.pc \in Clearing
    BY <1>2, <2>1 DEF WellFormed, Slots, Clearing
  <2>3. f.node = n /\ f.kids = Children(tree[n])
    OBVIOUS
  <2>4. Kids(tree[n]) \subseteq Queued(f) /\ Queued(f) \subseteq Nodes
    <3>1. tree[n] \in Seq(Ids) /\ Kids(tree[n]) \subseteq Nodes
      BY <1>2, <1>5 DEF IInv, StoreInv, Lists
    <3> HIDE DEF f
    <3>2. Kids(tree[n]) \subseteq Queued(f)
      BY <2>3, <3>1, KidsQueued
    <3>3. \A j \in 1..Len(Children(tree[n])) : Children(tree[n])[j] \in Kids(tree[n])
      BY <3>1, ChildrenKids
    <3> QED
      BY <2>3, <3>1, <3>2, <3>3 DEF Queued
  <2> HIDE DEF f
  <2>5. /\ Len(s.stack) = Len(st) /\ s.stack[1] = f
        /\ \A i \in 2..Len(st) : s.stack[i] = st[i]
    <3>1. /\ Len(Tail(st)) = Len(st) - 1 /\ Tail(st) \in Seq(Frames)
          /\ \A i \in 2..Len(st) : Tail(st)[i - 1] = st[i]
      BY <1>2
    <3>2. PICK u \in Seq(Frames) : u = Tail(st)
      BY <3>1
    <3>3. /\ Len(<<f>> \o u) = Len(u) + 1 /\ (<<f>> \o u)[1] = f
          /\ \A i \in 2..Len(u) + 1 : (<<f>> \o u)[i] = u[i - 1]
      BY <3>2
    <3>4. Len(u) + 1 = Len(st)
      BY <1>2, <3>1, <3>2
    <3> QED
      BY <2>2, <3>1, <3>2, <3>3, <3>4
  <2>6. ASSUME Tidy(r) PROVE Tidy(s)'
    <3>1. st[1].kids = <<>> /\ Queued(st[1]) = {}
      BY <1>1, <2>6 DEF Tidy, WalkInv, Queued
    <3>2. \A i \in 1..Len(st) : i = 1 \/ i \in 2..Len(st)
      BY <1>2
    <3>3. Opened(r) \cup {n} \subseteq Opened(s)
      <4>1. 1 \in 1..Len(s.stack) /\ s.stack[1].node = n
        BY <1>2, <2>3, <2>5
      <4>2. ASSUME NEW m \in Opened(r) PROVE m \in Opened(s)
        <5>1. PICK i \in 1..Len(st) : i > 1 /\ m = st[i].node /\ m \in Nodes
          BY <1>1 DEF Opened
        <5>2. i \in 1..Len(s.stack) /\ m = s.stack[i].node
          BY <2>5, <3>2, <5>1
        <5> QED
          BY <2>2, <5>1, <5>2 DEF Opened
      <4> QED
        BY <1>2, <2>2, <4>1, <4>2 DEF Opened
    <3>4. Unopened(r) \subseteq {n} \cup Unopened(s)
      <4>1. ASSUME NEW i \in 1..Len(st), NEW m \in Queued(st[i]), m \in Nodes PROVE m \in Unopened(s)
        <5>1. i \in 2..Len(st)
          BY <3>1, <3>2
        <5>2. i \in 1..Len(s.stack) /\ m \in Queued(s.stack[i])
          BY <2>5, <4>1, <5>1
        <5> QED
          BY <2>2, <4>1, <5>2 DEF Unopened
      <4> QED
        BY <1>1, <4>1 DEF Unopened, Own, Top
    <3>5. Kids(tree[n]) \subseteq Unopened(s) /\ Unopened(s) \subseteq Nodes
      <4>1. 1 \in 1..Len(s.stack)
        BY <1>2, <2>5
      <4> QED
        BY <2>2, <2>4, <2>5, <4>1 DEF Unopened, Own, Top
    <3>6. Hang(tree, Unopened(r)) \subseteq {n} \cup Hang(tree, Unopened(s))
      <4> DEFINE S == {n} \cup Hang(tree, Unopened(s))
      <4>1. S \subseteq Nodes /\ Unopened(r) \subseteq S
        BY <1>2, <3>4, <3>5, HangStep
      <4>2. \A m \in S : m \in DOMAIN tree => Kids(tree[m]) \subseteq S
        BY <1>2, <3>5, HangStep
      <4> HIDE DEF S
      <4>3. Hang(tree, Unopened(r)) \subseteq S
        BY <4>1, <4>2, HangLeast
      <4> QED
        BY <4>3 DEF S
    <3>7. WalkInv(s)'
      <4>1. ASSUME NEW i \in 1..Len(st), s.stack[i].node \in DOMAIN tree,
                   NEW k \in Kids(tree[s.stack[i].node]) \cap DOMAIN tree
            PROVE  k \in Queued(s.stack[i]) \/ (i > 1 /\ k = s.stack[i - 1].node)
        <5>1. CASE i = 1
          BY <2>3, <2>4, <2>5, <4>1, <5>1
        <5>2. CASE i \in 2..Len(st)
          <6>1. s.stack[i] = st[i] /\ i > 1
            BY <2>5, <5>2
          <6>2. k \in Queued(st[i]) \/ k = st[i - 1].node
            BY <1>1, <2>6, <4>1, <6>1 DEF Tidy, WalkInv
          <6>3. i - 1 \in 1..Len(st) /\ (i - 1 = 1 \/ i - 1 \in 2..Len(st))
            BY <1>2, <5>2
          <6>4. st[i - 1].node = s.stack[i - 1].node
            BY <2>3, <2>5, <6>3
          <6> QED
            BY <6>1, <6>2, <6>4
        <5> QED
          BY <3>2, <5>1, <5>2
      <4> QED
        BY <1>1, <2>2, <2>5, <4>1 DEF WalkInv
    <3>8. Browses(s)'
      BY <2>2 DEF Browses, Making
    <3> QED
      BY <1>1, <1>3, <2>6, <3>3, <3>6, <3>7, <3>8 DEF Tidy, Doomed
  <2> QED
    BY <1>1, <2>1, <2>2, <2>6, SameCall, DeletionStep
<1> QED
  BY <1>4, <1>5

(* The walk goes down to the next child. *)
LEMMA CleanDown ==
    ASSUME IInv, RoleInv, CalmInv, NEW p \in Procs, NextKid(p), proc[p].stack[1].kids # <<>>
    PROVE  RoleInv' /\ CalmInv'
<1> DEFINE r == proc[p]
           st == r.stack
           kids == st[1].kids
           f == [node |-> Head(kids), kids |-> <<>>]
           g == [node |-> st[1].node, kids |-> Tail(kids)]
<1>1. /\ r.pc = "kids" /\ r.pc \in {"detach"} \cup Cutting /\ r.pc \in Clearing
      /\ UNCHANGED <<tree, folderName, satellite, disk, crashes, mixed>> /\ Visible' = Visible
  BY SameTree DEF NextKid, storeVars, diskVars, countVars, Cutting, Clearing
<1>2. /\ WellFormed(r) /\ st \in Seq(Frames) /\ st # <<>> /\ Lists(tree) /\ Len(st) \in Nat
      /\ Len(st) >= 1 /\ st[1] \in Frames
  BY <1>1, InWalk, TreeLists
<1>3. PICK s : Becomes(p, s) /\ s = [r EXCEPT !.pc = "enter", !.stack = <<f, g>> \o Tail(st)]
  BY DEF NextKid
<1>4. s.pc = "enter" /\ s.call = r.call /\ s.stack = <<f, g>> \o Tail(st) /\ s.pc \in Clearing
  BY <1>2, <1>3 DEF WellFormed, Slots, Clearing
<1>5. f.node = Head(kids) /\ f.kids = <<>> /\ g.node = st[1].node /\ g.kids = Tail(kids)
  OBVIOUS
<1>6. /\ Queued(st[1]) = {f.node} \cup Queued(g) /\ Queued(f) = {} /\ f.node \in Nodes
  <2>1. PICK ks, rest : ks = kids /\ rest = Tail(ks)
    OBVIOUS
  <2>2. ks \in Seq(Nodes) /\ ks # <<>> /\ st[1].kids = ks
    BY <1>2, <2>1 DEF Frames
  <2>3. f.node = Head(ks) /\ f.kids = <<>> /\ g.kids = rest
    BY Zenon, <1>5, <2>1
  <2>4. Head(ks) = ks[1] /\ ks[1] \in Nodes /\ 1 \in 1..Len(ks) /\ Len(ks) \in Nat
    BY <2>2
  <2>5. Len(rest) = Len(ks) - 1 /\ \A j \in 1..Len(rest) : rest[j] = ks[j + 1]
    <3>1. Len(Tail(ks)) = Len(ks) - 1 /\ \A j \in 1..Len(Tail(ks)) : Tail(ks)[j] = ks[j + 1]
      BY <2>2
    <3> QED
      BY Zenon, <2>1, <3>1
  <2> HIDE DEF f, g, st, r, kids
  <2>6. Queued(st[1]) = {ks[j] : j \in 1..Len(ks)} /\ Queued(g) = {rest[j] : j \in 1..Len(rest)}
    BY Zenon, <2>2, <2>3 DEF Queued
  <2>7. ASSUME NEW j \in 1..Len(ks) PROVE ks[j] = ks[1] \/ ks[j] \in {rest[i] : i \in 1..Len(rest)}
    <3>1. CASE j # 1
      <4>1. j - 1 \in 1..Len(rest) /\ (j - 1) + 1 = j
        BY <2>4, <2>5, <3>1
      <4>2. rest[j - 1] = ks[j]
        BY <2>5, <4>1
      <4> QED
        BY <4>1, <4>2
    <3> QED
      BY <3>1
  <2>8. ASSUME NEW j \in 1..Len(rest) PROVE rest[j] \in {ks[i] : i \in 1..Len(ks)}
    <3>1. j + 1 \in 1..Len(ks) /\ rest[j] = ks[j + 1]
      BY <2>4, <2>5
    <3> QED
      BY <3>1
  <2>9. {ks[j] : j \in 1..Len(ks)} = {ks[1]} \cup {rest[j] : j \in 1..Len(rest)}
    BY <2>4, <2>7, <2>8
  <2>10. Queued(f) = {}
    BY <2>3 DEF Queued
  <2> QED
    BY Zenon, <2>3, <2>4, <2>6, <2>9, <2>10
<1> HIDE DEF f, g, kids
<1>7. /\ Len(s.stack) = Len(st) + 1 /\ s.stack[1] = f /\ s.stack[2] = g
      /\ \A i \in 3..Len(st) + 1 : s.stack[i] = st[i - 1]
  <2>1. /\ Len(Tail(st)) = Len(st) - 1 /\ Tail(st) \in Seq(Frames)
        /\ \A i \in 2..Len(st) : Tail(st)[i - 1] = st[i]
    BY <1>2
  <2>2. PICK u \in Seq(Frames) : u = Tail(st)
    BY <2>1
  <2>3. /\ Len(<<f, g>> \o u) = Len(u) + 2 /\ (<<f, g>> \o u)[1] = f /\ (<<f, g>> \o u)[2] = g
        /\ \A i \in 3..Len(u) + 2 : (<<f, g>> \o u)[i] = u[i - 2]
    BY <2>2
  <2>4. Len(u) + 2 = Len(st) + 1
    BY <1>2, <2>1, <2>2
  <2>5. \A i \in 3..Len(st) + 1 : i - 1 \in 2..Len(st) /\ (i - 1) - 1 = i - 2
    BY <1>2
  <2>6. \A i \in 3..Len(st) + 1 : Tail(st)[i - 2] = st[i - 1]
    BY <2>1, <2>5
  <2> QED
    BY <1>4, <2>2, <2>3, <2>4, <2>6
<1>8. /\ \A i \in 1..Len(st) : i + 1 \in 2..Len(st) + 1 /\ (i + 1) - 1 = i
      /\ \A i \in 2..Len(st) + 1 : i > 1 /\ i \in 1..Len(s.stack) /\ i - 1 \in 1..Len(st)
      /\ \A i \in 1..Len(s.stack) : i > 1 => i \in 2..Len(st) + 1
      /\ \A i \in 2..Len(st) + 1 : i = 2 \/ i \in 3..Len(st) + 1
  <2>1. PICK l \in Nat : l = Len(st) /\ l >= 1
    BY <1>2
  <2>2. /\ \A i \in 1..l : i + 1 \in 2..l + 1 /\ (i + 1) - 1 = i
        /\ \A i \in 2..l + 1 : i > 1 /\ i \in 1..l + 1 /\ i - 1 \in 1..l
        /\ \A i \in 1..l + 1 : i > 1 => i \in 2..l + 1
        /\ \A i \in 2..l + 1 : i = 2 \/ i \in 3..l + 1
    BY <2>1
  <2>3. Len(s.stack) = l + 1
    BY <1>7, <2>1
  <2> HIDE DEF st, r
  <2> QED
    BY <2>1, <2>2, <2>3
<1>9. \A i \in 2..Len(st) + 1 : s.stack[i].node = st[i - 1].node
  BY <1>5, <1>7, <1>8
<1>10. ASSUME Tidy(r) PROVE Tidy(s)'
  <2>1. Opened(r) \subseteq Opened(s)
    <3>1. SUFFICES ASSUME NEW m \in Opened(r) PROVE m \in Opened(s)
      OBVIOUS
    <3>2. PICK i \in 1..Len(st) : m = st[i].node /\ m \in Nodes
      BY DEF Opened
    <3>3. i + 1 > 1 /\ i + 1 \in 1..Len(s.stack) /\ m = s.stack[i + 1].node
      BY <1>8, <1>9, <3>2
    <3> QED
      BY <1>4, <3>2, <3>3 DEF Opened
  <2>2. Unopened(r) \subseteq Unopened(s)
    <3>1. SUFFICES ASSUME NEW m \in Unopened(r) PROVE m \in Unopened(s)
      OBVIOUS
    <3>2. PICK i \in 1..Len(st) : m \in Queued(st[i]) /\ m \in Nodes
      BY <1>1 DEF Unopened, Own, Top
    <3>3. CASE m = f.node
      BY <1>4, <1>7, <3>3 DEF Unopened, Top
    <3>4. CASE i = 1 /\ m # f.node
      <4>1. m \in Queued(s.stack[2]) /\ 2 \in 1..Len(s.stack)
        BY <1>2, <1>6, <1>7, <3>2, <3>4
      <4> QED
        BY <1>4, <3>2, <4>1 DEF Unopened
    <3>5. CASE i # 1
      <4>1. i + 1 \in 3..Len(st) + 1 /\ i + 1 \in 1..Len(s.stack) /\ (i + 1) - 1 = i
        BY <1>2, <1>8, <3>5
      <4>2. m \in Queued(s.stack[i + 1])
        BY <1>7, <3>2, <4>1
      <4> QED
        BY <1>4, <3>2, <4>1, <4>2 DEF Unopened
    <3> QED
      BY <3>3, <3>4, <3>5
  <2>3. Hang(tree, Unopened(r)) \subseteq Hang(tree, Unopened(s))
    <3>1. Unopened(s) \subseteq Nodes
      BY <1>4, <1>6, <1>7 DEF Unopened, Own, Top
    <3> QED
      BY <1>2, <2>2, <3>1, HangStep, HangLeast
  <2>4. WalkInv(s)'
    <3>1. ASSUME NEW i \in 2..Len(st) + 1, s.stack[i].node \in DOMAIN tree,
                 NEW k \in Kids(tree[s.stack[i].node]) \cap DOMAIN tree
          PROVE  k \in Queued(s.stack[i]) \/ k = s.stack[i - 1].node
      <4>1. i - 1 \in 1..Len(st) /\ s.stack[i].node = st[i - 1].node
        BY <1>8, <1>9
      <4>2. k \in Queued(st[i - 1]) \/ (i - 1 > 1 /\ k = st[(i - 1) - 1].node)
        BY <1>1, <1>10, <3>1, <4>1 DEF Tidy, WalkInv
      <4>3. CASE i = 2
        BY <1>6, <1>7, <4>2, <4>3
      <4>4. CASE i \in 3..Len(st) + 1
        <5>1. i - 1 \in 2..Len(st) + 1
          BY <1>2, <4>4
        <5>2. s.stack[i - 1].node = st[(i - 1) - 1].node /\ s.stack[i] = st[i - 1]
          BY <1>7, <1>9, <4>4, <5>1
        <5> QED
          BY <4>2, <5>2
      <4> QED
        BY <1>8, <4>3, <4>4
    <3>2. s.stack[1].kids = <<>>
      BY <1>5, <1>7
    <3> QED
      BY <1>1, <1>4, <1>8, <3>1, <3>2 DEF WalkInv
  <2>5. Browses(s)'
    BY <1>4 DEF Browses, Making
  <2>6. Naming(r) = {} /\ Filling(r) = {} /\ Mapping(r) = {}
    BY <1>1 DEF Naming, Filling, Mapping, Own, Top
  <2> QED
    BY <1>1, <1>10, <2>1, <2>3, <2>4, <2>5, <2>6 DEF Tidy, Doomed
<1> QED
  BY <1>1, <1>3, <1>4, <1>10, SameCall, DeletionStep

(* No child is left: the entry goes, and nothing that hung below it is lost  *)
(* from sight.                                                               *)
LEMMA CleanDrop ==
    ASSUME IInv, RoleInv, CalmInv, NEW p \in Procs, NextKid(p), proc[p].stack[1].kids = <<>>
    PROVE  RoleInv' /\ CalmInv'
<1> DEFINE r == proc[p]
           st == r.stack
           top == st[1].node
<1>1. /\ r.pc = "kids" /\ r.pc \in {"detach"} \cup Cutting /\ r.pc \in Clearing
      /\ tree' = Drop(tree, top) /\ Goto(p, "unname")
      /\ UNCHANGED <<folderName, satellite, disk, crashes, mixed>>
  BY DEF NextKid, diskVars, countVars, Cutting, Clearing
<1>2. /\ WellFormed(r) /\ st \in Seq(Frames) /\ st # <<>> /\ Lists(tree) /\ Len(st) \in Nat
      /\ Len(st) >= 1 /\ top \in Nodes /\ top \notin Visible
  BY <1>1, InWalk, TreeLists
<1>3. /\ DOMAIN tree' = DOMAIN tree \ {top} /\ \A m \in DOMAIN tree' : tree'[m] = tree[m]
      /\ Visible' = Visible
  BY <1>1, <1>2, DropTree
<1>4. PICK s : s = [r EXCEPT !.pc = "unname"] /\ Becomes(p, s)
  BY <1>1, GotoBecomes
<1>5. s.pc = "unname" /\ s.call = r.call /\ s.stack = st /\ s.pc \in Clearing
  BY <1>2, <1>4, MovedTo DEF Clearing
<1>6. ASSUME Tidy(r) PROVE Tidy(s)'
  <2>1. Queued(st[1]) = {} /\ 1 \in 1..Len(st)
    BY <1>2 DEF Queued
  <2>2. top \in DOMAIN tree => Kids(tree[top]) \cap DOMAIN tree = {}
    BY <1>1, <1>6, <2>1 DEF Tidy, WalkInv
  <2>3. Opened(r) \subseteq {top} \cup Opened(s)
    <3>1. \A i \in 1..Len(st) : i = 1 \/ i > 1
      BY <1>2
    <3> QED
      BY <1>1, <1>5, <3>1 DEF Opened
  <2>4. Unopened(s) = Unopened(r) /\ Unopened(s) \subseteq Nodes
    BY <1>1, <1>5 DEF Unopened, Own, Top
  <2>5. Hang(tree, Unopened(s)) \cap DOMAIN tree \subseteq {top} \cup Hang(tree', Unopened(s))
    <3> DEFINE S == {top} \cup Hang(tree', Unopened(s)) \cup (Nodes \ DOMAIN tree)
    <3>1. Lists(tree')
      BY <1>2, <1>3 DEF Lists, Nodes, Home
    <3>2. S \subseteq Nodes /\ Unopened(s) \subseteq S
      BY <1>2, <2>4, <3>1, HangStep
    <3>3. ASSUME NEW m \in S, m \in DOMAIN tree PROVE Kids(tree[m]) \subseteq S
      <4>1. Kids(tree[m]) \subseteq Nodes
        BY <1>2, <3>3 DEF Lists
      <4>2. CASE m = top
        BY <2>2, <3>3, <4>1, <4>2
      <4>3. CASE m # top
        BY <1>3, <2>4, <3>1, <3>3, <4>3, HangStep
      <4> QED
        BY <4>2, <4>3
    <3> HIDE DEF S
    <3>4. Hang(tree, Unopened(s)) \subseteq S
      BY <3>2, <3>3, HangLeast
    <3> QED
      BY <3>4 DEF S
  <2>6. DOMAIN tree' \subseteq Visible' \cup Doomed(s)'
    BY <1>3, <1>6, <2>3, <2>4, <2>5 DEF Tidy, Doomed
  <2>7. WalkInv(s)'
    <3>1. ASSUME NEW i \in 1..Len(st), i > 1, st[i].node \in DOMAIN tree',
                 NEW k \in Kids(tree'[st[i].node]) \cap DOMAIN tree'
          PROVE  k \in Queued(st[i]) \/ k = st[i - 1].node
      BY <1>1, <1>3, <1>6, <3>1 DEF Tidy, WalkInv
    <3> QED
      BY <1>3, <1>5, <3>1 DEF WalkInv
  <2>8. Browses(s)'
    BY <1>5 DEF Browses, Making
  <2>9. /\ Naming(r) = {} /\ Filling(r) = {} /\ Mapping(r) = {}
        /\ Naming(s) = {top} /\ Filling(s) = {top} /\ Mapping(s) = {top}
    BY <1>1, <1>5 DEF Naming, Filling, Mapping, Own, Top
  <2> QED
    BY <1>1, <1>3, <1>6, <2>6, <2>7, <2>8, <2>9 DEF Tidy
<1> QED
  BY <1>1, <1>4, <1>5, <1>6, SameCall, DeletionStep

(* DeleteFolder detaches a folder that can be browsed: what could be browsed *)
(* below it hangs below it still.                                            *)
LEMMA CleanDetach ==
    ASSUME IInv, RoleInv, CalmInv, NEW p \in Procs, Detach(p)
    PROVE  Calm => RoleInv' /\ CalmInv'
<1> SUFFICES ASSUME Calm PROVE RoleInv' /\ CalmInv'
  OBVIOUS
<1> DEFINE r == proc[p]
           n == r.node
           parent == tree[n][1]
           list == IF parent \in DOMAIN tree THEN tree[parent] ELSE <<>>
<1>1. /\ r.pc = "detach" /\ r.pc \in {"detach"} \cup Cutting
      /\ UNCHANGED <<folderName, satellite, disk, crashes, mixed>>
  BY DEF Detach, diskVars, countVars
<1>2. n \in Visible /\ n \in inserted /\ WellFormed(r)
  BY <1>1, Here DEF CalmInv, Browses, HoldsInv
<1>3. n \in DOMAIN tree /\ tree[n] # <<>> /\ n \in Nodes /\ n # Home
  BY <1>2, InsertedNodes DEF IInv, VisibleInv, Nodes, Home
<1>4. PICK rest \in Without(list, n) : tree' = Put(tree, parent, rest)
  BY <1>3 DEF Detach
<1>5. Goto(p, "rmSat")
  BY <1>3 DEF Detach
<1>6. Detached(n, parent) /\ parent \in Visible
  BY <1>2, <1>3, <1>4, DetachTree, VisibleParent
<1>7. DOMAIN tree' = DOMAIN tree
  BY <1>4, <1>6, VisibleWalk DEF Put
<1>8. PICK s : s = [r EXCEPT !.pc = "rmSat"] /\ Becomes(p, s)
  BY <1>5, GotoBecomes
<1>9. s.pc = "rmSat" /\ s.call = r.call /\ s.node = n
  BY <1>2, <1>8, MovedTo
<1>10. ASSUME Tidy(r) PROVE Tidy(s)'
  <2>1. Light(r)
    BY <1>1 DEF Light, Cutting, Clearing
  <2>2. /\ DOMAIN tree \subseteq Visible /\ DOMAIN folderName \subseteq DOMAIN tree
        /\ DOMAIN disk \subseteq DOMAIN tree /\ DOMAIN satellite \subseteq DOMAIN tree
    BY <1>10, <2>1, LightNothing DEF Tidy
  <2>3. Unopened(s) = {n}
    BY <1>3, <1>9 DEF Unopened, Own, Top, Clearing
  <2>4. Lists(tree')
    <3>1. \A m \in DOMAIN tree : Kids(tree'[m]) \subseteq Kids(tree[m])
      BY <1>6 DEF Detached
    <3> QED
      BY <1>7, <3>1, TreeLists DEF Lists
  <2>5. Visible \subseteq Visible' \cup Hang(tree', {n})
    <3> DEFINE S == (Visible' \cup Hang(tree', {n})) \cap Nodes
    <3>1. Home \in Visible' /\ Visible' \subseteq Ids /\ Visible' \subseteq Visible
      BY <1>6, <2>4, ReachStep DEF Visible, Detached
    <3>2. \A m \in Visible' : m \in DOMAIN tree' => Kids(tree'[m]) \subseteq Visible'
      BY <2>4, ReachStep DEF Visible
    <3>3. {n} \subseteq Hang(tree', {n}) /\ Hang(tree', {n}) \subseteq Nodes
      BY <1>3, <2>4, HangStep
    <3>4. \A m \in Hang(tree', {n}) : m \in DOMAIN tree' => Kids(tree'[m]) \subseteq Hang(tree', {n})
      BY <1>3, <2>4, HangStep
    <3>5. \A m \in DOMAIN tree : Kids(tree[m]) \subseteq Kids(tree'[m]) \cup {n} /\ Kids(tree[m]) \subseteq Nodes
      BY <1>6, <2>2, TreeLists DEF Detached, Lists
    <3>6. ASSUME NEW m \in Visible' \cup Hang(tree', {n}), m \in DOMAIN tree
          PROVE  Kids(tree[m]) \subseteq S
      BY <1>7, <3>2, <3>3, <3>4, <3>5, <3>6
    <3>7. Kids(tree[Home]) \subseteq S
      BY <3>1, <3>6 DEF IInv, StoreInv
    <3>8. S \subseteq Nodes /\ \A m \in S : m \in DOMAIN tree => Kids(tree[m]) \subseteq S
      BY <3>6
    <3> HIDE DEF S
    <3>9. Reach(tree) \subseteq {Home} \cup S
      BY <3>7, <3>8, ReachLeast
    <3> QED
      BY <3>1, <3>9 DEF S, Visible
  <2>6. Browses(s)' /\ WalkInv(s)'
    BY <1>9 DEF Browses, WalkInv, Making, Clearing
  <2> QED
    BY <1>1, <1>7, <2>2, <2>3, <2>5, <2>6 DEF Tidy, Doomed
<1> QED
  BY <1>1, <1>8, <1>9, <1>10, SameCall, DeletionStep

LEMMA CleanNextKid ==
    ASSUME IInv, RoleInv, CalmInv, NEW p \in Procs, NextKid(p)
    PROVE  RoleInv' /\ CalmInv'
  BY CleanDown, CleanDrop

-----------------------------------------------------------------------------
(* Steps that only look. *)

(* A goroutine that holds nothing of its own, before and after. *)
LEMMA LookStep ==
    ASSUME IInv, CalmInv, NEW p \in Procs, Light(proc[p]), NEW s, Becomes(p, s), Light(s),
           UNCHANGED <<tree, folderName, satellite>>,
           Calm' => Calm /\ disk' = disk /\ SoloInv' /\ Browses(s)'
    PROVE  CalmInv'
<1> SUFFICES ASSUME Calm' PROVE CalmInv'
  BY DEF CalmInv
<1>1. DOMAIN proc' = Procs /\ proc'[p] = s /\ \A q \in Procs \ {p} : proc'[q] = proc[q]
  BY DEF IInv, ProcInv, Becomes
<1>2. /\ UNCHANGED <<tree, folderName, satellite, disk>> /\ Visible' = Visible
      /\ LeftInv /\ SoloInv' /\ Browses(s)'
      /\ \A q \in Procs : Browses(proc[q]) /\ WalkInv(proc[q])
  BY SameTree DEF CalmInv
<1>3. \A q \in Procs : Browses(proc[q])' /\ WalkInv(proc[q])'
  <2>1. SUFFICES ASSUME NEW q \in Procs PROVE Browses(proc[q])' /\ WalkInv(proc[q])'
    OBVIOUS
  <2>2. CASE q = p
    <3>1. Browses(s)' /\ WalkInv(s)'
      BY <1>2, LightNothing
    <3> QED
      BY <1>1, <2>2, <3>1 DEF Browses, WalkInv
  <2>3. CASE q # p
    BY <1>1, <1>2, <2>3 DEF Browses, WalkInv
  <2> QED
    BY <2>2, <2>3
<1>4. /\ Doomed(proc[p]) = {} /\ Naming(proc[p]) = {} /\ Filling(proc[p]) = {}
      /\ Mapping(proc[p]) = {}
  BY LightNothing
<1>5. \A q \in Procs \ {p} : Doomed(proc[q])' = Doomed(proc[q])
  BY <1>1, <1>2 DEF Doomed
<1>6. LeftInv'
  <2>1. \A n \in DOMAIN tree' : n \in Visible' \/ \E q \in Procs : n \in Doomed(proc[q])'
    BY <1>2, <1>4, <1>5 DEF LeftInv
  <2>2. \A n \in DOMAIN folderName' : n \in DOMAIN tree' \/ \E q \in Procs : n \in Naming(proc'[q])
    BY <1>1, <1>2, <1>4 DEF LeftInv
  <2>3. \A n \in DOMAIN disk' : n \in DOMAIN tree' \/ \E q \in Procs : n \in Filling(proc'[q])
    BY <1>1, <1>2, <1>4 DEF LeftInv
  <2>4. \A n \in DOMAIN satellite' : n \in DOMAIN tree' \/ \E q \in Procs : n \in Mapping(proc'[q])
    BY <1>1, <1>2, <1>4 DEF LeftInv
  <2> QED
    BY <2>1, <2>2, <2>3, <2>4 DEF LeftInv, Naming, Filling, Mapping
<1> QED
  BY <1>2, <1>3, <1>6 DEF CalmInv

(* The same within a call. *)
LEMMA LookOn ==
    ASSUME IInv, RoleInv, CalmInv, NEW p \in Procs, proc[p].pc \notin Resting, Light(proc[p]),
           NEW s, Becomes(p, s), Continues(proc[p], s), Light(s),
           UNCHANGED <<tree, folderName, satellite, crashes, mixed>>,
           Calm => disk' = disk /\ Browses(s)'
    PROVE  RoleInv' /\ CalmInv'
<1>1. RoleInv' /\ (SoloInv => SoloInv')
  BY RoleStep
<1>2. Calm' = Calm /\ (Calm => SoloInv)
  BY CalmStep DEF CalmInv
<1> QED
  BY <1>1, <1>2, LookStep

(* In particular when a call returns. *)
LEMMA LookReturns ==
    ASSUME IInv, RoleInv, CalmInv, NEW p \in Procs, proc[p].pc \notin Resting, Light(proc[p]),
           NEW res, Becomes(p, Return(proc[p], res)),
           UNCHANGED <<tree, folderName, satellite, crashes, mixed>>, Calm => disk' = disk
    PROVE  RoleInv' /\ CalmInv'
<1>1. PICK s : s = Return(proc[p], res)
  OBVIOUS
<1>2. WellFormed(proc[p]) /\ Becomes(p, s)
  BY <1>1, Here
<1>3. Fresh(s) /\ Continues(proc[p], s)
  BY <1>1, <1>2, ReturnFresh, ReturnContinues DEF Resting
<1>4. Light(s) /\ Browses(s)'
  BY <1>3, FreshLight
<1> QED
  BY <1>2, <1>3, <1>4, LookOn

LEMMA CleanList ==
    ASSUME IInv, RoleInv, CalmInv, NEW p \in Procs, GetChildrenForNode(p)
    PROVE  RoleInv' /\ CalmInv'
<1> DEFINE r == proc[p]
<1>1. /\ r.pc = "list" /\ r.pc \notin Resting /\ Light(r)
      /\ UNCHANGED <<tree, folderName, satellite, disk, crashes, mixed>> /\ Visible' = Visible
  BY SameTree DEF GetChildrenForNode, Resting, Light, Cutting, Clearing, storeVars, diskVars, countVars
<1>2. CASE r.at \notin DOMAIN tree
  BY <1>1, <1>2, LookReturns DEF GetChildrenForNode
<1>3. CASE r.at \in DOMAIN tree
  <2>1. PICK s : Becomes(p, s) /\ s = [r EXCEPT !.pc = "match", !.list = tree[r.at]]
    BY <1>3 DEF GetChildrenForNode
  <2>2. s.pc = "match" /\ s.call = r.call /\ s.at = r.at /\ s.list = tree[r.at]
    BY <2>1, Here DEF WellFormed, Slots
  <2>3. Light(s) /\ Continues(r, s)
    <3>1. r.call \in {"create", "actual", "delete", "walk"}
      BY <1>1, Here DEF WellFormed, Resting
    <3> QED
      BY <2>2 DEF Light, Continues, Cutting, Clearing
  <2>4. Calm => Browses(s)'
    <3>1. Calm => r.at \in Visible
      BY <1>1 DEF CalmInv, Browses
    <3>2. Calm => Kids(s.list) \subseteq Visible
      BY <2>2, <3>1, VisibleWalk
    <3> QED
      BY <1>1, <2>2, <3>1, <3>2 DEF Browses, Making
  <2> QED
    BY <1>1, <2>1, <2>3, <2>4, LookOn
<1> QED
  BY <1>2, <1>3

(* One level of a path is found: the child can be browsed. *)
LEMMA CleanFind ==
    ASSUME IInv, RoleInv, CalmInv, NEW p \in Procs, FindChild(p)
    PROVE  RoleInv' /\ CalmInv'
<1> DEFINE r == proc[p]
           child == ChildNamed(r.list, Goal(r)[r.lvl + 1])
           found == [r EXCEPT !.at = child, !.lvl = @ + 1, !.list = <<>>]
<1>1. /\ r.pc = "match" /\ r.pc \notin Resting /\ Light(r)
      /\ UNCHANGED <<tree, folderName, satellite, disk, crashes, mixed>> /\ Visible' = Visible
  BY SameTree DEF FindChild, Resting, Light, Cutting, Clearing, storeVars, diskVars, countVars
<1>2. WellFormed(r)
  BY Here
<1>3. Calm => child \in Visible
  <2>1. Calm => Kids(r.list) \subseteq Visible
    BY <1>1 DEF CalmInv, Browses
  <2>2. child \in {Home} \cup Kids(r.list) /\ Home \in Visible
    BY ChildOfList, VisibleWalk
  <2> QED
    BY <2>1, <2>2
<1>4. ASSUME NEW res, Becomes(p, Return(r, res)) PROVE RoleInv' /\ CalmInv'
  BY <1>1, <1>4, LookReturns
<1>5. ASSUME NEW c \in {"list", "addto", "detach", "empty"}, NEW n \in {r.node, child}, NEW s,
             s = [found EXCEPT !.pc = c, !.node = n], Becomes(p, s),
             c \in {"detach", "empty"} => r.call \in Deletes,
             c \in {"addto", "detach"} => n = child
      PROVE  RoleInv' /\ CalmInv'
  <2>1. s.pc = c /\ s.call = r.call /\ s.at = child /\ s.list = <<>> /\ s.node = n
    BY <1>2, <1>5 DEF WellFormed, Slots
  <2>2. Light(s) /\ Continues(r, s)
    BY <1>5, <2>1 DEF Light, Continues, Cutting, Clearing
  <2>3. Calm => Browses(s)'
    BY <1>1, <1>3, <1>5, <2>1 DEF Browses, Making
  <2> QED
    BY <1>1, <1>5, <2>2, <2>3, LookOn
<1>6. Becomes(p, IF child = Home THEN Return(r, "err")
                 ELSE IF r.call = "create" \/ found.lvl < Len(Goal(r))
                      THEN [found EXCEPT !.pc = "list"]
                 ELSE CASE r.call = "actual" -> IF r.kind # "addto" THEN Return(r, "ok")
                                                ELSE [found EXCEPT !.pc = "addto", !.node = child]
                        [] r.call = "delete" -> [found EXCEPT !.pc = "detach", !.node = child]
                        [] r.call = "walk" -> [found EXCEPT !.pc = "empty"])
  BY DEF FindChild
<1>7. \A c : [found EXCEPT !.pc = c] = [found EXCEPT !.pc = c, !.node = r.node]
  BY <1>2 DEF WellFormed, Slots
<1>8. r.call \in {"create", "actual", "delete", "walk"}
  BY <1>1, <1>2 DEF WellFormed, Resting
<1> HIDE DEF r, child, found
<1>9. CASE child = Home
  BY <1>4, <1>6, <1>9
<1>10. CASE child # Home /\ (r.call = "create" \/ found.lvl < Len(Goal(r)))
  BY <1>5, <1>6, <1>7, <1>10
<1>11. CASE child # Home /\ ~(r.call = "create" \/ found.lvl < Len(Goal(r)))
  <2>1. CASE r.kind = "addto" /\ r.call = "actual"
    BY <1>5, <1>6, <1>11, <2>1
  <2>2. CASE r.kind # "addto" /\ r.call = "actual"
    BY <1>4, <1>6, <1>11, <2>2
  <2>3. CASE r.call = "delete"
    BY <1>5, <1>6, <1>11, <2>3 DEF Deletes
  <2>4. CASE r.call = "walk"
    BY <1>5, <1>6, <1>7, <1>11, <2>4 DEF Deletes
  <2> QED
    BY <1>8, <1>11, <2>1, <2>2, <2>3, <2>4
<1> QED
  BY <1>9, <1>10, <1>11

(* The parent is still the one that was browsed. *)
LEMMA CleanSiblings ==
    ASSUME IInv, RoleInv, CalmInv, NEW p \in Procs, CheckSiblings(p)
    PROVE  RoleInv' /\ CalmInv'
<1> DEFINE r == proc[p]
<1>1. /\ r.pc = "match" /\ r.pc \notin Resting /\ Light(r)
      /\ UNCHANGED <<tree, folderName, satellite, disk, crashes, mixed>> /\ Visible' = Visible
  BY SameTree DEF CheckSiblings, Resting, Light, Cutting, Clearing, storeVars, diskVars, countVars
<1>2. CASE \E res : Becomes(p, Return(r, res))
  BY <1>1, <1>2, LookReturns
<1>3. CASE Becomes(p, [r EXCEPT !.pc = "mkdir", !.node = next, !.list = <<>>])
  <2>1. PICK s : Becomes(p, s) /\ s = [r EXCEPT !.pc = "mkdir", !.node = next, !.list = <<>>]
    BY <1>3
  <2>2. s.pc = "mkdir" /\ s.call = r.call /\ s.at = r.at
    BY <2>1, Here DEF WellFormed, Slots
  <2>3. Light(s) /\ Continues(r, s)
    BY <2>2 DEF Light, Continues, Cutting, Clearing
  <2>4. Calm => Browses(s)'
    <3>1. Calm => r.at \in Visible
      BY <1>1 DEF CalmInv, Browses
    <3> QED
      BY <1>1, <2>2, <3>1 DEF Browses, Making
  <2> QED
    BY <1>1, <2>1, <2>3, <2>4, LookOn
<1> QED
  BY <1>2, <1>3 DEF CheckSiblings

LEMMA CleanEmpty ==
    ASSUME IInv, RoleInv, CalmInv, NEW p \in Procs, CheckEmpty(p)
    PROVE  RoleInv' /\ CalmInv'
<1>1. /\ proc[p].pc = "empty" /\ proc[p].pc \notin Resting /\ Light(proc[p])
      /\ UNCHANGED <<tree, folderName, satellite, disk, crashes, mixed>>
  BY DEF CheckEmpty, Resting, Light, Cutting, Clearing, storeVars, diskVars, countVars
<1>2. \E res : Becomes(p, Return(proc[p], res))
  BY DEF CheckEmpty
<1> QED
  BY <1>1, <1>2, LookReturns

(* The folder that was found has its directory. *)
LEMMA CleanAddTo ==
    ASSUME IInv, RoleInv, CalmInv, NEW p \in Procs, AddToExisting(p)
    PROVE  RoleInv' /\ CalmInv'
<1> DEFINE r == proc[p]
<1>1. /\ r.pc = "addto" /\ r.pc \notin Resting /\ Light(r) /\ Becomes(p, Idle)
      /\ UNCHANGED <<tree, folderName, satellite, crashes, mixed>>
  BY DEF AddToExisting, Resting, Light, Cutting, Clearing, storeVars
<1>2. Calm => disk' = disk
  <2>1. Calm => r.node \in Visible
    BY <1>1 DEF CalmInv, Browses
  <2>2. Calm => r.node \in DOMAIN disk
    BY <2>1 DEF IInv, VisibleInv
  <2> QED
    BY <2>2 DEF AddToExisting
<1>3. PICK s : s = Idle
  OBVIOUS
<1>4. Light(s) /\ Browses(s)'
  BY <1>3, IdleFresh, FreshLight
<1>5. Continues(r, s)
  BY <1>3, <1>1 DEF Continues, Idle, Deletes, Cutting, Clearing
<1> QED
  BY <1>1, <1>2, <1>3, <1>4, <1>5, LookOn

-----------------------------------------------------------------------------
(* The steps of a creation. *)

(* A goroutine that deletes nothing. *)
LEMMA NotCutting ==
    ASSUME NEW r, r.pc \notin Cutting
    PROVE  Doomed(r) = {} /\ WalkInv(r)' /\ Mapping(r) = {}
<1>1. /\ r.pc \notin Clearing /\ r.pc \notin {"rmSat", "rmDir"} /\ r.pc # "enter"
      /\ r.pc \notin {"unname", "unmap"}
  BY DEF Cutting, Clearing
<1>2. Opened(r) = {} /\ Unopened(r) = {} /\ Mapping(r) = {}
  BY <1>1 DEF Opened, Unopened, Mapping, Own, Top
<1> QED
  BY <1>1, <1>2, HangNone DEF Doomed, WalkInv

(* Beside a creation nobody deletes: what the store knows is browsed, or     *)
(* some goroutine is making it.                                              *)
LEMMA MakingStep ==
    ASSUME IInv, RoleInv, CalmInv, NEW p \in Procs, proc[p].pc \in Making \cup {"mark"},
           NEW s, Becomes(p, s), Continues(proc[p], s), crashes' = crashes, mixed' = mixed,
           Calm => /\ Browses(s)' /\ Visible \subseteq Visible' /\ DOMAIN tree \subseteq DOMAIN tree'
                   /\ DOMAIN tree \subseteq Visible => DOMAIN tree' \subseteq Visible'
                   /\ DOMAIN folderName' \subseteq
                        DOMAIN tree' \cup Naming(s) \cup (DOMAIN folderName \ Naming(proc[p]))
                   /\ DOMAIN disk' \subseteq
                        DOMAIN tree' \cup Filling(s) \cup (DOMAIN disk \ Filling(proc[p]))
                   /\ DOMAIN satellite' \subseteq DOMAIN tree' \cup DOMAIN satellite
    PROVE  RoleInv' /\ CalmInv'
<1>1. DOMAIN proc' = Procs /\ proc'[p] = s /\ \A q \in Procs \ {p} : proc'[q] = proc[q]
  BY DEF IInv, ProcInv, Becomes
<1>2. proc[p].pc \notin Resting /\ proc[p].call = "create" /\ WellFormed(proc[p])
  BY Here DEF WellFormed, Making, Resting
<1>3. RoleInv' /\ (SoloInv => SoloInv')
  BY <1>2, RoleStep
<1> SUFFICES ASSUME Calm' PROVE CalmInv'
  BY <1>3 DEF CalmInv
<1>4. Calm /\ SoloInv /\ LeftInv /\ \A q \in Procs : Browses(proc[q])
  BY CalmStep DEF CalmInv
<1>5. \A q \in Procs : proc[q].pc \notin Cutting
  <2>1. SUFFICES ASSUME NEW q \in Procs, proc[q].pc \in Cutting PROVE FALSE
    OBVIOUS
  <2>2. Deleting(q)
    BY <2>1 DEF RoleInv, Deleting, Active, Deletes, Cutting, Clearing
  <2>3. q # p
    BY <1>2, <2>2 DEF Deleting
  <2> QED
    BY <1>2, <1>4, <2>2, <2>3 DEF SoloInv
<1>6. s.pc \notin Cutting
  BY <1>2 DEF Continues, Deletes
<1>7. \A q \in Procs : Browses(proc[q])' /\ WalkInv(proc[q])'
  <2>1. SUFFICES ASSUME NEW q \in Procs PROVE Browses(proc[q])' /\ WalkInv(proc[q])'
    OBVIOUS
  <2>2. CASE q = p
    <3>1. Browses(s)' /\ WalkInv(s)'
      BY <1>4, <1>6, NotCutting
    <3> QED
      BY <1>1, <2>2, <3>1 DEF Browses, WalkInv
  <2>3. CASE q # p
    <3>1. PICK x : x = proc[q] /\ x = proc'[q]
      BY <1>1, <2>3
    <3>2. WalkInv(x)'
      BY <1>5, <3>1, NotCutting
    <3>3. Browses(x)'
      BY <1>4, <3>1 DEF Browses
    <3> QED
      BY <3>1, <3>2, <3>3 DEF Browses, WalkInv
  <2> QED
    BY <2>2, <2>3
<1>8. \A q \in Procs : Doomed(proc[q]) = {} /\ Mapping(proc[q]) = {}
  BY <1>5, NotCutting
<1>9. DOMAIN tree \subseteq Visible /\ DOMAIN satellite \subseteq DOMAIN tree
  BY <1>4, <1>8 DEF LeftInv
<1>10. LeftInv'
  <2>1. DOMAIN tree' \subseteq Visible'
    BY <1>4, <1>9
  <2>2. \A n \in DOMAIN folderName' : n \in DOMAIN tree' \/ \E q \in Procs : n \in Naming(proc'[q])
    <3>1. SUFFICES ASSUME NEW n \in DOMAIN folderName', n \notin DOMAIN tree', n \notin Naming(s)
                   PROVE  \E q \in Procs : n \in Naming(proc'[q])
      BY <1>1
    <3>2. n \in DOMAIN folderName /\ n \notin Naming(proc[p]) /\ n \notin DOMAIN tree
      BY <1>4, <3>1
    <3>3. PICK q \in Procs : n \in Naming(proc[q])
      BY <1>4, <3>2 DEF LeftInv
    <3> QED
      BY <1>1, <3>2, <3>3
  <2>3. \A n \in DOMAIN disk' : n \in DOMAIN tree' \/ \E q \in Procs : n \in Filling(proc'[q])
    <3>1. SUFFICES ASSUME NEW n \in DOMAIN disk', n \notin DOMAIN tree', n \notin Filling(s)
                   PROVE  \E q \in Procs : n \in Filling(proc'[q])
      BY <1>1
    <3>2. n \in DOMAIN disk /\ n \notin Filling(proc[p]) /\ n \notin DOMAIN tree
      BY <1>4, <3>1
    <3>3. PICK q \in Procs : n \in Filling(proc[q])
      BY <1>4, <3>2 DEF LeftInv
    <3> QED
      BY <1>1, <3>2, <3>3
  <2>4. DOMAIN satellite' \subseteq DOMAIN tree'
    BY <1>4, <1>9
  <2> QED
    BY <2>1, <2>2, <2>3, <2>4 DEF LeftInv, Naming, Filling, Mapping
<1> QED
  BY <1>3, <1>4, <1>7, <1>10 DEF CalmInv

(* The directory is there, and this creation knows it. *)
LEMMA CleanMakeDir ==
    ASSUME IInv, RoleInv, CalmInv, NEW p \in Procs, MakeDir(p)
    PROVE  RoleInv' /\ CalmInv'
<1> DEFINE r == proc[p]
<1>1. /\ r.pc = "mkdir" /\ r.pc \in Making /\ disk' = Put(disk, r.node, "none")
      /\ UNCHANGED <<tree, folderName, satellite, crashes, mixed>> /\ Visible' = Visible
  BY SameTree DEF MakeDir, Making, storeVars, countVars
<1>2. PICK s : s = [r EXCEPT !.pc = "fetch"] /\ Becomes(p, s)
  BY GotoBecomes DEF MakeDir
<1>3. s.pc = "fetch" /\ s.call = r.call /\ s.at = r.at /\ s.node = r.node /\ r.call = "create"
  BY <1>1, <1>2, Here, MovedTo DEF WellFormed
<1>4. Continues(r, s)
  BY <1>3 DEF Continues, Deletes, Cutting, Clearing
<1>5. Calm => Browses(s)'
  <2>1. Calm => r.at \in Visible
    BY <1>1 DEF CalmInv, Browses
  <2> QED
    BY <1>1, <1>3, <2>1 DEF Browses, Making
<1>6. DOMAIN disk' \subseteq DOMAIN disk \cup Filling(s)
  BY <1>1, <1>3 DEF Put, Filling, Own
<1>7. Naming(r) = {} /\ Filling(r) = {}
  BY <1>1 DEF Naming, Filling, Own, Top
<1> HIDE DEF r
<1> QED
  BY <1>1, <1>2, <1>4, <1>5, <1>6, <1>7, MakingStep DEF r

(* The files arrive; or they do not, and the directory goes again. *)
LEMMA CleanDownload ==
    ASSUME IInv, RoleInv, CalmInv, NEW p \in Procs, DownloadFiles(p)
    PROVE  RoleInv' /\ CalmInv'
<1> DEFINE r == proc[p]
<1>1. /\ r.pc = "fetch" /\ r.pc \in Making /\ r.pc \notin Resting
      /\ UNCHANGED <<tree, folderName, satellite, crashes, mixed>> /\ Visible' = Visible
  BY SameTree DEF DownloadFiles, Making, Resting, storeVars
<1>2. Naming(r) = {} /\ Filling(r) = {r.node}
  BY <1>1 DEF Naming, Filling, Own, Top
<1>3. CASE disk' = Put(disk, r.node, r.deadline) /\ Goto(p, "name")
  <2>1. PICK s : s = [r EXCEPT !.pc = "name"] /\ Becomes(p, s)
    BY <1>3, GotoBecomes
  <2>2. s.pc = "name" /\ s.call = r.call /\ s.at = r.at /\ s.node = r.node /\ r.call = "create"
    BY <1>1, <2>1, Here, MovedTo DEF WellFormed
  <2>3. Continues(r, s)
    BY <2>2 DEF Continues, Deletes, Cutting, Clearing
  <2>4. Calm => Browses(s)'
    <3>1. Calm => r.at \in Visible
      BY <1>1 DEF CalmInv, Browses
    <3> QED
      BY <1>1, <2>2, <3>1 DEF Browses, Making
  <2>5. Filling(s) = {r.node}
    BY <2>2 DEF Filling, Own, Top
  <2>6. DOMAIN disk' \subseteq Filling(s) \cup (DOMAIN disk \ Filling(r))
    BY <1>2, <1>3, <2>5 DEF Put
  <2> HIDE DEF r
  <2> QED
    BY <1>1, <1>2, <2>1, <2>3, <2>4, <2>6, MakingStep DEF r
<1>4. CASE disk' = Drop(disk, r.node) /\ Becomes(p, Return(r, "err"))
  <2>1. PICK s : s = Return(r, "err") /\ Becomes(p, s)
    BY <1>4
  <2>2. Fresh(s) /\ Continues(r, s)
    BY <1>1, <2>1, Here, ReturnFresh, ReturnContinues DEF Resting
  <2>3. Browses(s)'
    BY <2>2, FreshLight
  <2>4. DOMAIN disk' \subseteq DOMAIN disk \ Filling(r)
    BY <1>2, <1>4 DEF Drop
  <2> HIDE DEF r
  <2> QED
    BY <1>1, <1>2, <2>1, <2>2, <2>3, <2>4, MakingStep DEF r
<1> QED
  BY <1>3, <1>4 DEF DownloadFiles, StoreDeadline

(* The name is there. *)
LEMMA CleanName ==
    ASSUME IInv, RoleInv, CalmInv, NEW p \in Procs, PutFolderName(p)
    PROVE  RoleInv' /\ CalmInv'
<1> DEFINE r == proc[p]
<1>1. /\ r.pc = "name" /\ r.pc \in Making /\ DOMAIN folderName' = DOMAIN folderName \cup {r.node}
      /\ UNCHANGED <<tree, satellite, disk, crashes, mixed>> /\ Visible' = Visible
  BY SameTree DEF PutFolderName, Making, Put, diskVars, countVars
<1>2. PICK s : s = [r EXCEPT !.pc = "insert"] /\ Becomes(p, s)
  BY GotoBecomes DEF PutFolderName
<1>3. s.pc = "insert" /\ s.call = r.call /\ s.at = r.at /\ s.node = r.node /\ r.call = "create"
  BY <1>1, <1>2, Here, MovedTo DEF WellFormed
<1>4. Continues(r, s)
  BY <1>3 DEF Continues, Deletes, Cutting, Clearing
<1>5. Calm => Browses(s)'
  <2>1. Calm => r.at \in Visible
    BY <1>1 DEF CalmInv, Browses
  <2> QED
    BY <1>1, <1>3, <2>1 DEF Browses, Making
<1>6. Naming(r) = {} /\ Naming(s) = {r.node} /\ Filling(r) = {r.node} /\ Filling(s) = {r.node}
  BY <1>1, <1>3 DEF Naming, Filling, Own, Top
<1> HIDE DEF r
<1> QED
  BY <1>1, <1>2, <1>4, <1>5, <1>6, MakingStep DEF r

(* The node can be browsed as soon as it is in the tree. *)
LEMMA CleanInsert ==
    ASSUME IInv, RoleInv, CalmInv, NEW p \in Procs, InsertNode(p)
    PROVE  RoleInv' /\ CalmInv'
<1> DEFINE r == proc[p]
           n == r.node
           at == r.at
<1>1. /\ r.pc = "insert" /\ r.pc \in Making /\ r.pc \notin Resting
      /\ UNCHANGED <<folderName, satellite, disk, crashes, mixed>>
  BY DEF InsertNode, Making, Resting, diskVars, countVars
<1>2. WellFormed(r) /\ HoldsInv(r) /\ r.call = "create"
  BY <1>1, Here DEF WellFormed
<1>3. PICK s : /\ Becomes(p, s)
               /\ (s = [r EXCEPT !.pc = "mark"] /\ at \in DOMAIN tree) \/ \E res : s = Return(r, res)
  BY DEF InsertNode
<1>4. Continues(r, s)
  <2>1. CASE s = [r EXCEPT !.pc = "mark"]
    BY <1>2, <2>1, MovedTo DEF Continues, Deletes, Cutting, Clearing
  <2> QED
    BY <1>1, <1>2, <1>3, <2>1, ReturnContinues
<1>5. ASSUME Calm
      PROVE  /\ Inserted(n, at) /\ at \in Visible
  <2>1. at \in Visible /\ at \in DOMAIN tree
    BY <1>1, <1>5, VisibleWalk DEF CalmInv, Browses
  <2>2. n \in Nodes /\ n \notin inserted /\ at # n
    BY <1>1, <1>2, <2>1, MakesHidden
  <2>3. tree' = Put(Put(tree, n, <<at>>), at, Append(tree[at], n))
    BY <2>1 DEF InsertNode
  <2> QED
    BY <2>1, <2>2, <2>3, InsertTree
<1>6. ASSUME Calm
      PROVE  DOMAIN tree' = DOMAIN tree \cup {n} /\ Visible' = Visible \cup {n}
  BY <1>5, <1>6 DEF Inserted
<1>7. Calm => Browses(s)'
  <2>1. CASE s = [r EXCEPT !.pc = "mark"]
    BY <1>2, <1>6, <2>1, MovedTo DEF Browses, Making
  <2>2. CASE \E res : s = Return(r, res)
    <3>1. Fresh(s)
      BY <1>1, <1>2, <2>2, ReturnFresh DEF Resting
    <3> QED
      BY <3>1, FreshLight
  <2> QED
    BY <1>3, <2>1, <2>2
<1>8. Naming(r) = {n} /\ Filling(r) = {n}
  BY <1>1 DEF Naming, Filling, Own, Top
<1> HIDE DEF r, n, at
<1>9. Calm => /\ DOMAIN tree \subseteq DOMAIN tree' /\ Visible \subseteq Visible'
              /\ DOMAIN tree \subseteq Visible => DOMAIN tree' \subseteq Visible'
              /\ DOMAIN folderName' \subseteq DOMAIN tree' \cup (DOMAIN folderName \ Naming(r))
              /\ DOMAIN disk' \subseteq DOMAIN tree' \cup (DOMAIN disk \ Filling(r))
  BY <1>1, <1>6, <1>8
<1> QED
  BY <1>1, <1>3, <1>4, <1>7, <1>9, MakingStep DEF r

(* A satellite mapping is for a folder that can be browsed. *)
LEMMA CleanMark ==
    ASSUME IInv, RoleInv, CalmInv, NEW p \in Procs, MarkFolderSatellite(p)
    PROVE  RoleInv' /\ CalmInv'
<1> DEFINE r == proc[p]
<1>1. /\ r.pc = "mark" /\ r.pc \notin Resting
      /\ DOMAIN satellite' = DOMAIN satellite \cup {r.node}
      /\ UNCHANGED <<tree, folderName, disk, crashes, mixed>> /\ Visible' = Visible
  BY SameTree DEF MarkFolderSatellite, Resting, Put, diskVars, countVars
<1>2. PICK s : s = Return(r, "ok") /\ Becomes(p, s)
  BY DEF MarkFolderSatellite
<1>3. Fresh(s) /\ Continues(r, s)
  BY <1>1, <1>2, Here, ReturnFresh, ReturnContinues DEF Resting
<1>4. Browses(s)'
  BY <1>3, FreshLight
<1>5. Calm => r.node \in DOMAIN tree
  BY <1>1, VisibleWalk DEF CalmInv, Browses
<1>6. Naming(r) = {} /\ Filling(r) = {}
  BY <1>1 DEF Naming, Filling, Own, Top
<1> HIDE DEF r
<1> QED
  BY <1>1, <1>2, <1>3, <1>4, <1>5, <1>6, MakingStep DEF r

-----------------------------------------------------------------------------
(* Jobs begin, the reaper goes on, the process dies. *)

(* Between two calls, or into one that Overlaps lets through. *)
LEMMA BeginStep ==
    ASSUME IInv, RoleInv, CalmInv, NEW p \in Procs, proc[p].pc \in Resting, NEW s, Becomes(p, s),
           Fresh(s), p = Reaper => s.call \in {"none"} \cup Deletes,
           UNCHANGED <<tree, folderName, satellite, disk, crashes>>, Calm' => Calm,
           Calm' => (s.call = "none" /\ s.pc \in Resting) \/ ~Overlaps(p, s.call \in Deletes)
    PROVE  RoleInv' /\ CalmInv'
<1>1. DOMAIN proc' = Procs /\ proc'[p] = s /\ \A q \in Procs \ {p} : proc'[q] = proc[q]
  BY DEF IInv, ProcInv, Becomes
<1>2. Light(proc[p]) /\ Light(s) /\ Browses(s)' /\ s.pc \notin {"detach", "empty"} \cup Cutting
  <2>1. s.pc \notin {"detach", "empty"} \cup Cutting
    BY DEF Fresh, Cutting, Clearing
  <2> QED
    BY <2>1, RestingLight, FreshLight
<1>3. RoleInv'
  <2>1. proc'[Reaper].call \in {"none"} \cup Deletes
    BY <1>1 DEF RoleInv, Procs
  <2>2. \A q \in Procs : proc'[q].pc \in {"detach", "empty"} \cup Cutting => proc'[q].call \in Deletes
    BY <1>1, <1>2 DEF RoleInv
  <2> QED
    BY <2>1, <2>2 DEF RoleInv
<1>4. ASSUME Calm' PROVE SoloInv'
  <2>1. SoloInv
    BY <1>4 DEF CalmInv
  <2>2. SUFFICES ASSUME NEW a \in Procs, NEW b \in Procs, Deleting(a)', a # b
                 PROVE  proc'[b].pc \in Resting
    BY DEF SoloInv
  <2>3. CASE s.call = "none" /\ s.pc \in Resting
    BY <1>1, <2>1, <2>2, <2>3 DEF SoloInv, Deleting, Active
  <2>4. CASE ~Overlaps(p, s.call \in Deletes)
    <3>1. ASSUME NEW q \in Procs \ {p} PROVE ~Active(q) \/ (s.call \notin Deletes /\ ~Deleting(q))
      BY <2>4 DEF Overlaps
    <3>2. CASE a = p
      <4>1. s.call \in Deletes
        BY <1>1, <2>2, <3>2 DEF Deleting, Deletes
      <4>2. ~Active(b)
        BY <2>2, <3>1, <3>2, <4>1
      <4> QED
        BY <1>1, <2>2, <3>2, <4>2 DEF Active, Resting
    <3>3. CASE a # p
      <4>1. Deleting(a) /\ Active(a)
        BY <1>1, <2>2, <3>3 DEF Deleting, Active
      <4> QED
        BY <3>1, <3>3, <4>1
    <3> QED
      BY <3>2, <3>3
  <2> QED
    BY <1>4, <2>3, <2>4
<1>5. CalmInv'
  BY <1>2, <1>4, LookStep
<1> QED
  BY <1>3, <1>5

LEMMA CleanStart ==
    ASSUME IInv, RoleInv, CalmInv, NEW p \in Workers, NEW job \in Jobs, Start(p, job)
    PROVE  RoleInv' /\ CalmInv'
<1> DEFINE r == [Idle EXCEPT !.kind = job.kind, !.full = job.path, !.deadline = job.deadline]
<1>1. p \in Procs /\ p # Reaper /\ proc[p].pc \in Resting
  BY TreeAssumption DEF Start, Active, Procs, Workers, Reaper, Resting
<1>2. DOMAIN r = Slots /\ r.kind = job.kind /\ r.full = job.path
  BY DEF Idle, Slots
<1>3. PICK s : Becomes(p, s) /\ s = CASE job.kind \in {"download", "addto"} -> DownloadCall(r)
                                       [] job.kind \in {"noovo", "mstore"} -> SatelliteCall(r)
                                       [] OTHER -> DeleteCall(r)
  BY DEF Start
<1> HIDE DEF r
<1>4. \A call, path : Call(r, call, path).call = call /\ Call(r, call, path).pc = "list"
  BY <1>2 DEF Call, Slots
<1>5. Fresh(s)
  <2>1. IInv'
    BY StartStep
  <2>2. proc'[p] = s
    BY <1>1, <1>3 DEF IInv, ProcInv, Becomes
  <2>3. WellFormed(s)
    BY <1>1, <2>1, <2>2 DEF IInv, ProcInv, WellFormed
  <2>4. PICK call, path : s = Call(r, call, path)
    BY <1>3 DEF DownloadCall, SatelliteCall, DeleteCall
  <2>5. s.pc = "list" /\ s.at = Home /\ s.node = Home /\ s.list = <<>> /\ s.stack = <<>>
    BY <1>2, <2>4 DEF Call, Slots
  <2> QED
    BY <2>3, <2>5 DEF Fresh
<1>6. s.call \in Deletes <=> IsDelete(job)
  <2>1. job.kind \in {"download", "addto", "noovo", "mstore", "delete", "recursive"}
    BY TreeAssumption DEF JobTypes
  <2>2. CASE IsDelete(job)
    <3>1. s = Call(r, "delete", r.full)
      BY <1>3, <2>2 DEF IsDelete, DeleteCall
    <3> QED
      BY <1>4, <2>2, <3>1 DEF Deletes
  <2>3. CASE ~IsDelete(job)
    <3>1. s \in {Call(r, "create", r.full), Call(r, "actual", r.full)}
      BY <1>3, <2>1, <2>3 DEF IsDelete, DownloadCall, SatelliteCall
    <3> QED
      BY <1>4, <2>3, <3>1 DEF Deletes
  <2> QED
    BY <2>2, <2>3
<1>7. UNCHANGED <<tree, folderName, satellite, disk, crashes>>
  BY DEF Start, storeVars, diskVars
<1>8. Calm' => Calm /\ ~Overlaps(p, IsDelete(job))
  BY <1>7 DEF Start, Calm, IInv, CountInv
<1>9. Overlaps(p, s.call \in Deletes) = Overlaps(p, IsDelete(job))
  BY <1>6 DEF Overlaps
<1> QED
  BY <1>1, <1>3, <1>5, <1>7, <1>8, <1>9, BeginStep

LEMMA CleanStartReaper ==
    ASSUME IInv, RoleInv, CalmInv, StartReaper
    PROVE  RoleInv' /\ CalmInv'
<1>1. /\ Reaper \in Procs /\ proc[Reaper].pc \in Resting
      /\ UNCHANGED <<tree, folderName, satellite, disk, crashes, mixed>> /\ Calm' = Calm
  BY CalmStep DEF StartReaper, Active, Procs, Resting, storeVars, diskVars, countVars
<1>2. PICK s : Becomes(Reaper, s) /\ s = [Idle EXCEPT !.pc = "descend", !.kind = "expiry"]
  BY DEF StartReaper
<1>3. /\ s.call = "none" /\ s.pc = "descend" /\ s.at = Home /\ s.node = Home /\ s.list = <<>>
      /\ s.stack = <<>>
  BY <1>2 DEF Idle
<1>4. WellFormed(s)
  <2>1. IInv'
    BY StartReaperStep
  <2>2. proc'[Reaper] = s
    BY <1>1, <1>2 DEF IInv, ProcInv, Becomes
  <2> QED
    BY <1>1, <2>1, <2>2 DEF IInv, ProcInv, WellFormed
<1>5. Fresh(s)
  BY <1>3, <1>4 DEF Fresh
<1> QED
  BY <1>1, <1>2, <1>3, <1>5, BeginStep DEF Resting

LEMMA CleanDescend ==
    ASSUME IInv, RoleInv, CalmInv, Descend
    PROVE  RoleInv' /\ CalmInv'
<1>1. /\ Reaper \in Procs /\ proc[Reaper].pc \in Resting
      /\ UNCHANGED <<tree, folderName, satellite, disk, crashes, mixed>> /\ Calm' = Calm
  BY CalmStep DEF Descend, Procs, Resting, storeVars, diskVars, countVars
<1>2. PICK s : /\ Becomes(Reaper, s)
               /\ \/ s = Idle
                  \/ \E todo : s = [Idle EXCEPT !.kind = "expiry", !.pc = "check", !.walk = todo]
  BY DEF Descend
<1>3. /\ s.call = "none" /\ s.pc \in {"idle", "check"} /\ s.at = Home /\ s.node = Home
      /\ s.list = <<>> /\ s.stack = <<>>
  <2>1. CASE s = Idle
    BY <2>1 DEF Idle
  <2>2. CASE \E todo : s = [Idle EXCEPT !.kind = "expiry", !.pc = "check", !.walk = todo]
    <3>1. PICK todo : s = [Idle EXCEPT !.kind = "expiry", !.pc = "check", !.walk = todo]
      BY <2>2
    <3> QED
      BY <3>1 DEF Idle
  <2> QED
    BY <1>2, <2>1, <2>2
<1>4. WellFormed(s)
  <2>1. IInv'
    BY DescendStep
  <2>2. proc'[Reaper] = s
    BY <1>1, <1>2 DEF IInv, ProcInv, Becomes
  <2> QED
    BY <1>1, <2>1, <2>2 DEF IInv, ProcInv, WellFormed
<1>5. Fresh(s)
  BY <1>3, <1>4 DEF Fresh
<1> QED
  BY <1>1, <1>2, <1>3, <1>5, BeginStep DEF Resting

(* An expired folder: the reaper begins to delete, alone if it stays calm. *)
LEMMA CleanDeadline ==
    ASSUME IInv, RoleInv, CalmInv, CheckDeadline
    PROVE  RoleInv' /\ CalmInv'
<1> DEFINE r == proc[Reaper]
           n == Head(r.walk[1].nodes)
           name == IF n \in DOMAIN folderName THEN folderName[n] ELSE NoName
           here == [r EXCEPT !.full = Append(r.walk[1].prefix, name)]
<1>1. /\ Reaper \in Procs /\ r.pc \in Resting /\ WellFormed(r)
      /\ UNCHANGED <<tree, folderName, satellite, disk, crashes>>
  BY Here DEF CheckDeadline, Procs, Resting, storeVars, diskVars
<1>2. PICK s : /\ Becomes(Reaper, s)
               /\ \/ (\E res : s = AfterCheck(here, res)) /\ mixed' = mixed
                  \/ /\ s = Call(here, "delete", here.full)
                     /\ mixed' = (mixed \/ Overlaps(Reaper, TRUE))
  BY DEF CheckDeadline
<1>3. DOMAIN here = Slots
  BY <1>1 DEF WellFormed
<1> HIDE DEF here
<1>4. CASE (\E res : s = AfterCheck(here, res)) /\ mixed' = mixed
  <2>1. /\ s.call = "none" /\ s.pc \in Resting /\ s.at = Home /\ s.node = Home
        /\ s.list = <<>> /\ s.stack = <<>> /\ s.pc \in {"idle", "descend", "check"}
    BY <1>4 DEF AfterCheck, Idle, Resting
  <2>2. WellFormed(s)
    <3>1. IInv'
      BY DeadlineStep
    <3>2. proc'[Reaper] = s
      BY <1>1, <1>2 DEF IInv, ProcInv, Becomes
    <3> QED
      BY <1>1, <3>1, <3>2 DEF IInv, ProcInv, WellFormed
  <2>3. Fresh(s)
    BY <2>1, <2>2 DEF Fresh
  <2>4. Calm' = Calm
    BY <1>1, <1>4, CalmStep
  <2> QED
    BY <1>1, <1>2, <2>1, <2>3, <2>4, BeginStep
<1>5. CASE /\ s = Call(here, "delete", here.full)
           /\ mixed' = (mixed \/ Overlaps(Reaper, TRUE))
  <2>1. /\ s.call = "delete" /\ s.pc = "list" /\ s.at = Home /\ s.node = Home
        /\ s.list = <<>> /\ s.stack = <<>>
    BY <1>3, <1>5 DEF Call, Slots
  <2>2. WellFormed(s)
    <3>1. IInv'
      BY DeadlineStep
    <3>2. proc'[Reaper] = s
      BY <1>1, <1>2 DEF IInv, ProcInv, Becomes
    <3> QED
      BY <1>1, <3>1, <3>2 DEF IInv, ProcInv, WellFormed
  <2>3. Fresh(s)
    BY <2>1, <2>2 DEF Fresh
  <2>4. Calm' => Calm /\ ~Overlaps(Reaper, TRUE)
    BY <1>1, <1>5 DEF Calm, IInv, CountInv
  <2>5. (s.call \in Deletes) = TRUE
    BY <2>1 DEF Deletes
  <2> QED
    BY <1>1, <1>2, <2>1, <2>3, <2>4, <2>5, BeginStep
<1> QED
  BY <1>2, <1>4, <1>5

(* After a crash nobody is in a call. *)
LEMMA RestartRole ==
    ASSUME IInv, Restart
    PROVE  RoleInv'
<1>1. \A p \in Procs : proc'[p] = Idle
  BY DEF Restart
<1>2. Idle.pc = "idle" /\ Idle.call = "none" /\ Reaper \in Procs
  BY DEF Idle, Procs
<1> QED
  BY <1>1, <1>2 DEF RoleInv, Cutting, Clearing

LEMMA CleanCrash ==
    ASSUME IInv, RoleInv, CalmInv, Crash
    PROVE  RoleInv' /\ CalmInv'
<1>1. ~Calm'
  BY DEF Crash, Calm, IInv, CountInv
<1> QED
  BY <1>1, RestartRole DEF Crash, CalmInv

(* b.Get(node)[0:nodeLength] panics only when it is not calm. *)
LEMMA CleanDetachAny ==
    ASSUME IInv, RoleInv, CalmInv, NEW p \in Procs, Detach(p)
    PROVE  RoleInv' /\ CalmInv'
<1>1. CASE Calm
  BY <1>1, CleanDetach
<1>2. CASE ~Calm
  <2>1. proc[p].pc = "detach" /\ Calm' = Calm
    BY CalmStep DEF Detach, countVars
  <2>2. CASE Restart
    BY <1>2, <2>1, <2>2, RestartRole DEF CalmInv
  <2>3. CASE Goto(p, "rmSat")
    <3>1. PICK s : s = [proc[p] EXCEPT !.pc = "rmSat"] /\ Becomes(p, s)
      BY <2>3, GotoBecomes
    <3>2. Continues(proc[p], s)
      BY <2>1, <3>1, Here, MovedTo, SameCall
    <3>3. RoleInv'
      BY <2>1, <3>1, <3>2, RoleStep DEF Resting
    <3> QED
      BY <1>2, <2>1, <3>3 DEF CalmInv
  <2> QED
    BY <2>2, <2>3 DEF Detach
<1> QED
  BY <1>1, <1>2

-----------------------------------------------------------------------------
(* The invariant, and what it says between jobs. *)

LEMMA CleanInit == TreeInit => RoleInv /\ CalmInv
<1> SUFFICES ASSUME TreeInit PROVE RoleInv /\ CalmInv
  OBVIOUS
<1>1. PICK s : s = Idle
  OBVIOUS
<1>2. \A p \in Procs : proc[p] = s
  BY <1>1 DEF TreeInit
<1>3. s.pc = "idle" /\ s.call = "none" /\ Reaper \in Procs /\ s.pc \in Resting
  BY <1>1 DEF Idle, Procs, Resting
<1>4. RoleInv
  BY <1>2, <1>3 DEF RoleInv, Cutting, Clearing
<1>5. SoloInv
  BY <1>2, <1>3 DEF SoloInv
<1>6. Browses(s) /\ WalkInv(s)
  BY <1>3, RestingLight, LightNothing
<1>7. DOMAIN tree = {Home} /\ DOMAIN folderName = {Home} /\ DOMAIN disk = {Home} /\ DOMAIN satellite = {}
  BY DEF TreeInit, CreateHome
<1>8. LeftInv
  <2>1. Home \in Visible
    BY DEF Visible, Reach
  <2> QED
    BY <1>7, <2>1 DEF LeftInv
<1> QED
  BY <1>2, <1>4, <1>5, <1>6, <1>8 DEF CalmInv

LEMMA CleanStep ==
    ASSUME IInv, RoleInv, CalmInv, NEW p \in Procs, Step(p)
    PROVE  RoleInv' /\ CalmInv'
<1>1. CASE GetChildrenForNode(p) \/ FindChild(p) \/ CheckSiblings(p) \/ CheckEmpty(p) \/ AddToExisting(p)
  BY <1>1, CleanList, CleanFind, CleanSiblings, CleanEmpty, CleanAddTo
<1>2. CASE MakeDir(p) \/ DownloadFiles(p) \/ PutFolderName(p) \/ InsertNode(p) \/ MarkFolderSatellite(p)
  BY <1>2, CleanMakeDir, CleanDownload, CleanName, CleanInsert, CleanMark
<1>3. CASE Detach(p) \/ RemoveSatelliteFolder(p) \/ RemoveFolder(p) \/ EnterSubtree(p) \/ NextKid(p)
  BY <1>3, CleanDetachAny, CleanRemoveSatellite, CleanRemoveFolder, CleanEnter, CleanNextKid
<1>4. CASE \/ DeleteFolderName(p) \/ DeleteSatelliteMapping(p) \/ RemoveContent(p)
           \/ RemoveSubtreeFolder(p)
  BY <1>4, CleanUnname, CleanUnmap, CleanRemoveContent, CleanRemoveSubtree
<1> QED
  BY <1>1, <1>2, <1>3, <1>4 DEF Step

LEMMA CleanNext == IInv /\ RoleInv /\ CalmInv /\ [TreeNext]_vars => RoleInv' /\ CalmInv'
<1> SUFFICES ASSUME IInv, RoleInv, CalmInv, [TreeNext]_vars PROVE RoleInv' /\ CalmInv'
  OBVIOUS
<1>1. CASE UNCHANGED vars
  <2>1. /\ UNCHANGED <<tree, folderName, satellite, disk, proc, mixed, crashes>>
        /\ Visible' = Visible
    BY <1>1, SameTree DEF vars, storeVars, diskVars, countVars
  <2>2. RoleInv' /\ SoloInv' = SoloInv /\ Calm' = Calm
    BY <2>1 DEF RoleInv, SoloInv, Calm, Deleting, Active
  <2>3. \A r : Browses(r)' = Browses(r) /\ WalkInv(r)' = WalkInv(r) /\ Doomed(r)' = Doomed(r)
    BY <2>1 DEF Browses, WalkInv, Doomed
  <2>4. LeftInv => LeftInv'
    BY <2>1, <2>3 DEF LeftInv, Doomed, Naming, Filling, Mapping
  <2>5. (\A p \in Procs : Browses(proc[p]) /\ WalkInv(proc[p]))
           => \A p \in Procs : Browses(proc[p])' /\ WalkInv(proc[p])'
    BY <2>1 DEF Browses, WalkInv
  <2> QED
    BY <2>2, <2>4, <2>5 DEF CalmInv
<1>2. ASSUME NEW p \in Workers, NEW job \in Jobs, Start(p, job) PROVE RoleInv' /\ CalmInv'
  BY <1>2, CleanStart
<1>3. ASSUME NEW p \in Procs, Step(p) PROVE RoleInv' /\ CalmInv'
  BY <1>3, CleanStep
<1>4. CASE StartReaper \/ Descend \/ CheckDeadline \/ Crash
  BY <1>4, CleanStartReaper, CleanDescend, CleanDeadline, CleanCrash
<1> QED
  BY <1>1, <1>2, <1>3, <1>4 DEF TreeNext, ReaperStep, Procs

(* Between jobs nobody holds anything of its own. *)
LEMMA NothingHeld == IInv /\ RoleInv /\ CalmInv => NoLeftovers
<1> SUFFICES ASSUME IInv, CalmInv, RoleInv, Calm, \A p \in Workers : ~Active(p), ~Deleting(Reaper)
             PROVE  /\ DOMAIN tree = Visible /\ DOMAIN folderName = Visible /\ DOMAIN disk = Visible
                    /\ DOMAIN satellite \subseteq Visible
  BY DEF NoLeftovers, Calm
<1>1. proc[Reaper].pc \in Resting
  <2>1. WellFormed(proc[Reaper])
    BY Here DEF Procs
  <2>2. proc[Reaper].pc = "idle" \/ proc[Reaper].call = "none"
    BY DEF RoleInv, Deleting, Active, Deletes
  <2> QED
    BY <2>1, <2>2 DEF WellFormed, Resting
<1>2. \A p \in Procs : proc[p].pc \in Resting
  BY <1>1 DEF Procs, Active, Resting
<1>3. ASSUME NEW p \in Procs
      PROVE  /\ Doomed(proc[p]) = {} /\ Naming(proc[p]) = {} /\ Filling(proc[p]) = {}
             /\ Mapping(proc[p]) = {}
  BY <1>2, RestingLight, LightNothing
<1>4. /\ DOMAIN tree \subseteq Visible /\ DOMAIN folderName \subseteq DOMAIN tree
      /\ DOMAIN disk \subseteq DOMAIN tree /\ DOMAIN satellite \subseteq DOMAIN tree
  BY <1>3 DEF CalmInv, LeftInv
<1>5. Visible \subseteq DOMAIN tree /\ Visible \subseteq DOMAIN folderName /\ Visible \subseteq DOMAIN disk
  BY DEF IInv, VisibleInv
<1> QED
  BY <1>4, <1>5

(* What a step was found for is still there when the step is taken. *)
Undisturbed ==
    ~mixed /\ crashes = 0 =>
        \A p \in Procs :
            /\ proc[p].pc = "detach" =>
                 /\ proc[p].node \in DOMAIN tree /\ tree[proc[p].node] # <<>>
                 /\ tree[proc[p].node][1] \in DOMAIN tree
            /\ proc[p].pc = "insert" => proc[p].at \in DOMAIN tree
            /\ proc[p].pc = "addto" => proc[p].node \in DOMAIN disk

(* DeleteFolder slices an entry that is missing, and panics, or stores an    *)
(* empty entry for a parent that is gone, InsertNode is rolled back, and a   *)
(* download into an existing folder makes its directory anew, only after a   *)
(* deletion ran beside another job or the process died.                      *)
THEOREM PanicsOnlyByOverlap == TreeSpec => []Undisturbed
<1>1. TreeSpec => [](IInv /\ RoleInv /\ CalmInv)
  BY CleanInit, CleanNext, Inductive, PTL DEF TreeSpec
<1>2. IInv /\ CalmInv => Undisturbed
  <2> SUFFICES ASSUME IInv, CalmInv, Calm, NEW p \in Procs
               PROVE  /\ proc[p].pc = "detach" =>
                           /\ proc[p].node \in DOMAIN tree /\ tree[proc[p].node] # <<>>
                           /\ tree[proc[p].node][1] \in DOMAIN tree
                      /\ proc[p].pc = "insert" => proc[p].at \in DOMAIN tree
                      /\ proc[p].pc = "addto" => proc[p].node \in DOMAIN disk
    BY DEF Undisturbed, Calm
  <2>1. Browses(proc[p]) /\ HoldsInv(proc[p])
    BY Here DEF CalmInv
  <2>2. ASSUME proc[p].pc = "detach"
        PROVE  /\ proc[p].node \in DOMAIN tree /\ tree[proc[p].node] # <<>>
               /\ tree[proc[p].node][1] \in DOMAIN tree
    <3>1. proc[p].node \in Visible /\ proc[p].node # Home
      BY <2>1, <2>2, InsertedNodes DEF Browses, HoldsInv, Nodes, Home
    <3> QED
      BY <3>1, VisibleParent, VisibleWalk DEF IInv, VisibleInv
  <2>3. proc[p].pc = "insert" => proc[p].at \in DOMAIN tree
    BY <2>1, VisibleWalk DEF Browses, Making
  <2>4. proc[p].pc = "addto" => proc[p].node \in DOMAIN disk
    BY <2>1 DEF Browses, IInv, VisibleInv
  <2> QED
    BY <2>2, <2>3, <2>4
<1> QED
  BY <1>1, <1>2, PTL

(* While the process has not died and no deletion ran beside another job,    *)
(* nothing is left behind between jobs, whatever the jobs were and however   *)
(* deep the folders lay: DeleteNodeSubtree takes every entry, name, mapping  *)
(* and directory below the folder that DeleteFolder detached, a creation     *)
(* that fails takes its directory along, and AddToExisting makes none.       *)
THEOREM NothingLeftBehind == TreeSpec => []NoLeftovers
<1>1. TreeSpec => [](IInv /\ RoleInv /\ CalmInv)
  BY CleanInit, CleanNext, Inductive, PTL DEF TreeSpec
<1> QED
  BY <1>1, NothingHeld, PTL
==============================================================================
