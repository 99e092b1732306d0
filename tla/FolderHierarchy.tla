--------------------------- MODULE FolderHierarchy ---------------------------
(***************************************************************************)
(* What the legacy folder store promises to whoever browses it: a tree of  *)
(* named folders under home that changes only by one new leaf or by the    *)
(* removal of one folder with everything below it, and in which a removed  *)
(* folder never comes back.  FolderTree implements it.                     *)
(***************************************************************************)
EXTENDS Naturals, FiniteSets

CONSTANTS
    Home,       \* the root, which is always there
    Ids,        \* the folders that may ever exist
    Names       \* folder names

VARIABLES
    folders,    \* the folders there are: records [id, parent, name]
    known       \* the ids that were ever added

hierarchyVars == <<folders, known>>

IdsOf(fs) == {f.id : f \in fs}

(* Folder n of fs and everything below it: what is in every set that holds n *)
(* and the children of its members.                                          *)
Below(fs, n) ==
    LET Cuts == {S \in SUBSET IdsOf(fs) :
                    n \in S /\ \A f \in fs : f.parent \in S => f.id \in S}
    IN  {f \in fs : \A S \in Cuts : f.id \in S}

HierarchyInit == folders = {} /\ known = {}

(* A new folder appears, as a leaf, below home or below another folder. *)
Add(n) ==
    /\ known' = known \cup {n}
    /\ \E parent \in IdsOf(folders) \cup {Home}, name \in Names :
          folders' = folders \cup {[id |-> n, parent |-> parent, name |-> name]}

(* A folder that nobody can see: it was put below one that is gone. *)
AddUnseen(n) ==
    /\ known' = known \cup {n}
    /\ UNCHANGED folders

(* A folder goes, and everything below it. *)
Cut(n) ==
    /\ folders' = folders \ Below(folders, n)
    /\ UNCHANGED known

HierarchyNext ==
    \/ \E n \in Ids \ known : Add(n) \/ AddUnseen(n)
    \/ \E n \in IdsOf(folders) \ IdsOf(folders') : Cut(n)

HierarchySpec == HierarchyInit /\ [][HierarchyNext]_hierarchyVars
=============================================================================
