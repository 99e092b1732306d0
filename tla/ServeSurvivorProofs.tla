------------------------- MODULE ServeSurvivorProofs -------------------------
(***************************************************************************)
(* Proof that ServeMetadata's reply holds every child that no deletion has *)
(* touched, with all its files and all their data, whatever happens to the *)
(* other children.  What is deleted can only disappear, so an untouched    *)
(* child is found complete at every step of the handler; its part of the   *)
(* reply grows field by field from where its head was written.             *)
(***************************************************************************)
EXTENDS ServeMetadataProofs

Listing == {"name", "stat", "leaf", "readdir"}
Sending == {"file", "open", "data"}

(* Nothing of an untouched folder is gone. *)
KeptInv ==
    /\ doomed \in [Folders -> {"no", "top", "sub"}]
    /\ \A f \in Folders : doomed[f] = "no" =>
         f \in listed /\ f \in entry /\ f \in named /\ f \in dir /\ meta[f] = Files

(* An untouched folder is listed; behind the handler's index it is among the *)
(* children, with all its files in their order.                              *)
ListedInv ==
    req.kind = "list" =>
        /\ req.pc \in Listing \cup Sending \cup {"child", "done"}
        /\ \A f \in Folders : doomed[f] = "no" => \E j \in 1..Len(req.list) : req.list[j] = f
        /\ req.pc \in Listing =>
             \A j \in 1..Len(req.list) : j < req.i /\ doomed[req.list[j]] = "no" =>
                \E c \in 1..Len(req.children) : req.children[c].id = req.list[j]
        /\ req.pc \in Sending \cup {"child"} =>
             \A f \in Folders : doomed[f] = "no" =>
                \E c \in 1..Len(req.children) : req.children[c].id = f
        /\ \A c \in 1..Len(req.children) : doomed[req.children[c].id] = "no" =>
             req.children[c].files = [m \in Files |-> m]

(* The first d files stand in reply o without a gap, from start[1] up to     *)
(* start[d + 1].                                                             *)
FilesAt(o, start, d) ==
    \A m \in 1..d : /\ start[m + 1] - start[m] - 2 \in Nat
                    /\ FileAt(o, m, start[m], start[m + 1] - start[m] - 2)

(* At the end of reply o stand the name and the length of file m, and k      *)
(* buffers of it.                                                            *)
DataAt(o, m, p, k) ==
    /\ p + 1 + k = Len(o)
    /\ o[p] = Field("name", m) /\ o[p + 1] = Field("length", FileSizes[m])
    /\ \A j \in 1..k : /\ (j - 1) * Buffer < FileSizes[m]
                       /\ o[p + 1 + j] = Data(m, Chunk(FileSizes[m], j))

(* How far a handler r has got in file m, the p-th field of reply o. *)
SentOf(r, o, m, p) ==
    CASE r.pc = "file" -> p = Len(o) + 1
      [] r.pc = "open" -> DataAt(o, m, p, 0)
      [] r.pc = "data" -> \E k \in Nat : /\ DataAt(o, m, p, k)
                                         /\ r.size = IF k * Buffer < FileSizes[m]
                                                     THEN FileSizes[m] - k * Buffer ELSE 0

(* Reply o ends with the part of child f that handler r has sent: its head   *)
(* at i and d files from start[1] on.                                        *)
PartFrom(r, o, f, d, i, start) ==
    /\ Len(r.files) = Len(FileSizes) - d
    /\ \A q \in 1..Len(r.files) : r.files[q] = d + q
    /\ HeadAt(o, f, i)
    /\ Len(start) = d + 1 /\ start[1] = i + 4
    /\ FilesAt(o, start, d)
    /\ SentOf(r, o, d + 1, start[d + 1])
PartAt(r, o, f) ==
    \E d \in 0..Len(FileSizes), i \in 1..Len(o), start \in Seq(1..Len(o) + 1) :
        PartFrom(r, o, f, d, i, start)

Framed(o, f) == \E i \in 1..Len(o) : FrameAt(o, f, i)

(* The untouched children behind the handler's index are in the reply, the   *)
(* one it is at as far as it was sent.                                       *)
SentInv ==
    req.kind = "list" /\ faults = 0 =>
        /\ req.pc \in Sending \cup {"child"} =>
             \A c \in 1..Len(req.children) :
                c < req.i /\ doomed[req.children[c].id] = "no" => Framed(out, req.children[c].id)
        /\ req.pc = "done" => \A f \in Folders : doomed[f] = "no" => Framed(out, f)
        /\ req.pc \in Sending /\ doomed[req.children[req.i].id] = "no" =>
             PartAt(req, out, req.children[req.i].id)

-----------------------------------------------------------------------------
Covers(s, S) == \A x \in S : \E j \in 1..Len(s) : s[j] = x

(* A listing of a set of numbers holds every one of them: it is one to one,  *)
(* and as long as the set.                                                   *)
LEMMA ListingWhole ==
    ASSUME NEW n \in Nat, NEW S, S \subseteq 1..n, NEW s \in Listings(S)
    PROVE  Covers(s, S)
<1>1. IsFiniteSet(1..n)
  BY FS_Interval
<1>2. IsFiniteSet(S)
  BY <1>1, FS_Subset
<1>3. PICK k \in Nat : k = Cardinality(S)
  BY <1>2, FS_CardinalityType
<1>4. s \in [1..k -> S] /\ \A i, j \in 1..k : i < j => s[i] < s[j]
  BY <1>3 DEF Listings
<1>5. \A i, j \in 1..k : s[i] = s[j] => i = j
  <2>1. ASSUME NEW i \in 1..k PROVE s[i] \in Int
    <3>1. s[i] \in S
      BY <1>4
    <3>2. s[i] \in 1..n
      BY <3>1
    <3> QED
      BY <3>2
  <2> QED
    BY <1>4, <2>1
<1>6. s \in Injection(1..k, S)
  BY <1>4, <1>5 DEF Injection, IsInjective
<1>7. Cardinality(1..k) = k
  BY FS_Interval
<1>8. s \in Surjection(1..k, S)
  BY <1>2, <1>3, <1>6, <1>7, FS_Injection
<1>9. s \in Seq(S) /\ Len(s) = k
  BY <1>4
<1> QED
  BY <1>8, <1>9 DEF Surjection, Covers

(* The listing of all numbers up to n is those numbers in order: the first j *)
(* elements are below the j-th, and the others above it.                     *)
LEMMA ListingIdentity ==
    ASSUME NEW n \in Nat, NEW s \in Listings(1..n)
    PROVE  s = [m \in 1..n |-> m]
<1>1. Cardinality(1..n) = n
  BY FS_Interval
<1>2. s \in [1..n -> 1..n] /\ \A i, j \in 1..n : i < j => s[i] < s[j]
  BY <1>1 DEF Listings
<1>3. ASSUME NEW i \in 1..n, NEW j \in 1..n, i <= j PROVE s[i] <= s[j]
  <2>1. s[i] \in Nat /\ s[j] \in Nat /\ (i = j \/ i < j)
    BY <1>2, <1>3
  <2>2. i < j => s[i] < s[j]
    BY <1>2
  <2> QED
    BY <2>1, <2>2
<1>4. ASSUME NEW i \in 1..n, NEW j \in 1..n, s[i] = s[j] PROVE i = j
  <2>1. s[i] \in Nat /\ s[j] \in Nat /\ (i = j \/ i < j \/ j < i)
    BY <1>2
  <2>2. (i < j => s[i] < s[j]) /\ (j < i => s[j] < s[i])
    BY <1>2
  <2> QED
    BY <1>4, <2>1, <2>2
<1>5. ASSUME NEW j \in 1..n PROVE s[j] = j
  <2>1. PICK v \in 1..n : v = s[j]
    BY <1>2
  <2>2. \A i \in 1..j : i \in 1..n /\ s[i] \in 1..v
    <3>1. \A i \in 1..j : i \in 1..n /\ i <= j
      OBVIOUS
    <3>2. \A i \in 1..j : s[i] \in 1..n /\ s[i] <= v
      BY <1>2, <1>3, <2>1, <3>1
    <3> QED
      BY <3>1, <3>2
  <2>3. \A i \in j..n : i \in 1..n /\ s[i] \in v..n
    <3>1. \A i \in j..n : i \in 1..n /\ j <= i
      OBVIOUS
    <3>2. \A i \in j..n : s[i] \in 1..n /\ v <= s[i]
      BY <1>2, <1>3, <2>1, <3>1
    <3> QED
      BY <3>1, <3>2
  <2>4. j <= v
    <3> DEFINE g == [i \in 1..j |-> s[i]]
    <3>1. g \in [1..j -> 1..v] /\ \A a, b \in 1..j : g[a] = g[b] => a = b
      BY <1>4, <2>2
    <3>2. g \in Injection(1..j, 1..v)
      BY <3>1 DEF Injection, IsInjective
    <3>3. IsFiniteSet(1..v) /\ Cardinality(1..v) = v /\ Cardinality(1..j) = j
      BY FS_Interval
    <3> QED
      BY <3>2, <3>3, FS_Injection
  <2>5. v <= j
    <3> DEFINE g == [i \in j..n |-> s[i]]
    <3>1. g \in [j..n -> v..n] /\ \A a, b \in j..n : g[a] = g[b] => a = b
      BY <1>4, <2>3
    <3>2. g \in Injection(j..n, v..n)
      BY <3>1 DEF Injection, IsInjective
    <3>3. /\ IsFiniteSet(v..n) /\ Cardinality(v..n) = n - v + 1
          /\ Cardinality(j..n) = n - j + 1
      BY FS_Interval
    <3>4. Cardinality(j..n) <= Cardinality(v..n)
      BY <3>2, <3>3, FS_Injection
    <3> QED
      BY <3>3, <3>4
  <2> QED
    BY <2>1, <2>4, <2>5
<1> QED
  BY <1>2, <1>5

-----------------------------------------------------------------------------
(* Numbers that the proofs keep needing. *)
LEMMA Sizes == Len(FileSizes) \in Nat /\ Buffer \in Nat \ {0}
  BY ServeAssumption

LEMMA SizeOf == ASSUME NEW m \in Files PROVE m \in Nat \ {0} /\ FileSizes[m] \in Nat
  BY ServeAssumption DEF Files

LEMMA Widened ==
    ASSUME NEW a \in Nat, NEW b \in Nat, a <= b, NEW i \in 1..a, NEW start \in Seq(1..a + 1)
    PROVE  i \in 1..b /\ start \in Seq(1..b + 1)
  OBVIOUS

LEMMA Appended ==
    ASSUME NEW S, NEW q \in Seq(S), NEW e \in S
    PROVE  /\ Append(q, e) \in Seq(S) /\ Len(Append(q, e)) = Len(q) + 1
           /\ \A j \in 1..Len(q) : Append(q, e)[j] = q[j]
           /\ Append(q, e)[Len(q) + 1] = e
  OBVIOUS

(* What stands in a reply stays there when more is written. *)
LEMMA Longer ==
    ASSUME NEW o \in Seq(Fields), NEW x \in Seq(Fields)
    PROVE  /\ o \o x \in Seq(Fields) /\ Len(o \o x) = Len(o) + Len(x)
           /\ \A i \in 1..Len(o) : (o \o x)[i] = o[i]
           /\ \A i \in 1..Len(x) : (o \o x)[Len(o) + i] = x[i]
  OBVIOUS

LEMMA FileStays ==
    ASSUME NEW o \in Seq(Fields), NEW x \in Seq(Fields), NEW m, NEW p \in Nat \ {0}, NEW k \in Nat,
           FileAt(o, m, p, k)
    PROVE  FileAt(o \o x, m, p, k)
<1>1. p \in 1..Len(o) /\ p + 1 \in 1..Len(o) /\ \A j \in 1..k : p + 1 + j \in 1..Len(o)
  BY DEF FileAt
<1>2. Len(o) <= Len(o \o x) /\ Len(o \o x) \in Nat
  BY Longer
<1>3. (o \o x)[p] = o[p] /\ (o \o x)[p + 1] = o[p + 1]
  BY <1>1, Longer
<1>4. \A j \in 1..k : (o \o x)[p + 1 + j] = o[p + 1 + j]
  BY <1>1, Longer
<1>5. p + 1 + k <= Len(o \o x)
  BY <1>2 DEF FileAt
<1> QED
  BY <1>3, <1>4, <1>5 DEF FileAt

LEMMA HeadStays ==
    ASSUME NEW o \in Seq(Fields), NEW x \in Seq(Fields), NEW f, NEW i \in Nat \ {0}, HeadAt(o, f, i)
    PROVE  HeadAt(o \o x, f, i)
<1>1. i \in 1..Len(o) /\ i + 1 \in 1..Len(o) /\ i + 2 \in 1..Len(o) /\ i + 3 \in 1..Len(o)
  BY DEF HeadAt
<1>2. Len(o) <= Len(o \o x) /\ Len(o \o x) \in Nat
  BY Longer
<1> QED
  BY <1>1, <1>2, Longer DEF HeadAt

LEMMA FrameStays ==
    ASSUME NEW o \in Seq(Fields), NEW x \in Seq(Fields), NEW f, Framed(o, f)
    PROVE  Framed(o \o x, f)
<1>1. PICK i \in 1..Len(o) : FrameAt(o, f, i)
  BY DEF Framed
<1>2. HeadAt(o \o x, f, i)
  BY <1>1, HeadStays DEF FrameAt
<1>3. PICK start \in [Files -> {p \in 1..Len(o) : o[p].type = "name"}] :
         \A m \in Files :
            /\ m = 1 => start[m] = i + 4
            /\ \E k \in 0..Len(o) : /\ FileAt(o, m, start[m], k)
                                    /\ m + 1 \in Files => start[m + 1] = start[m] + 2 + k
  BY <1>1 DEF FrameAt
<1>4. Len(o) <= Len(o \o x) /\ Len(o \o x) \in Nat /\ \A p \in 1..Len(o) : (o \o x)[p] = o[p]
  BY Longer
<1>5. start \in [Files -> {p \in 1..Len(o \o x) : (o \o x)[p].type = "name"}]
  BY <1>3, <1>4
<1>6. ASSUME NEW m \in Files
      PROVE  /\ m = 1 => start[m] = i + 4
             /\ \E k \in 0..Len(o \o x) : /\ FileAt(o \o x, m, start[m], k)
                                          /\ m + 1 \in Files => start[m + 1] = start[m] + 2 + k
  <2>1. PICK k \in 0..Len(o) : /\ FileAt(o, m, start[m], k)
                               /\ m + 1 \in Files => start[m + 1] = start[m] + 2 + k
    BY <1>3
  <2>2. FileAt(o \o x, m, start[m], k)
    BY <1>3, <2>1, FileStays
  <2> QED
    BY <1>3, <1>4, <2>1, <2>2
<1>7. FrameAt(o \o x, f, i)
  BY <1>2, <1>5, <1>6 DEF FrameAt
<1> QED
  BY <1>4, <1>7 DEF Framed

-----------------------------------------------------------------------------
(* One turn of writeFile's loop: the next buffer takes what is left, at most *)
(* a buffer of it.                                                           *)
LEMMA NextChunk ==
    ASSUME NEW size \in Nat, NEW k \in Nat, k * Buffer < size
    PROVE  /\ Chunk(size, k + 1) = IF size - k * Buffer < Buffer THEN size - k * Buffer ELSE Buffer
           /\ Chunk(size, k + 1) \in Nat
           /\ size - k * Buffer - Chunk(size, k + 1)
                = IF (k + 1) * Buffer < size THEN size - (k + 1) * Buffer ELSE 0
<1>1. Buffer \in Nat \ {0}
  BY ServeAssumption
<1>2. k * Buffer \in Nat /\ (k + 1) * Buffer = k * Buffer + Buffer
  BY <1>1
<1>3. (k + 1) - 1 = k
  OBVIOUS
<1>4. Chunk(size, k + 1) = IF size - k * Buffer < Buffer THEN size - k * Buffer ELSE Buffer
  BY <1>3 DEF Chunk
<1> QED
  BY <1>1, <1>2, <1>4

LEMMA FilesStay ==
    ASSUME NEW o \in Seq(Fields), NEW x \in Seq(Fields), NEW d \in Nat,
           NEW start \in Seq(1..Len(o) + 1), Len(start) = d + 1, FilesAt(o, start, d)
    PROVE  FilesAt(o \o x, start, d)
<1> SUFFICES ASSUME NEW m \in 1..d
             PROVE  /\ start[m + 1] - start[m] - 2 \in Nat
                    /\ FileAt(o \o x, m, start[m], start[m + 1] - start[m] - 2)
  BY DEF FilesAt
<1>1. start[m] \in Nat \ {0}
  OBVIOUS
<1>2. /\ start[m + 1] - start[m] - 2 \in Nat
      /\ FileAt(o, m, start[m], start[m + 1] - start[m] - 2)
  BY DEF FilesAt
<1> QED
  BY <1>1, <1>2, FileStays

LEMMA SentNone ==
    ASSUME NEW r, NEW o, NEW m, r.pc = "file" PROVE SentOf(r, o, m, Len(o) + 1)
  BY DEF SentOf

(* WriteChild begins the part of a child. *)
LEMMA PartBegins ==
    ASSUME NEW o \in Seq(Fields), NEW f \in Folders, NEW r,
           r.pc = "file", r.files = [m \in Files |-> m]
    PROVE  PartAt(r, o \o <<Field("id", f), Field("hasChildren", 0), Field("size", 0),
                            Field("files", Len(FileSizes))>>, f)
<1> DEFINE x == <<Field("id", f), Field("hasChildren", 0), Field("size", 0),
                  Field("files", Len(FileSizes))>>
<1> DEFINE i == Len(o) + 1
<1> DEFINE start == <<Len(o) + 5>>
<1>1. Len(FileSizes) \in Nat /\ Folders \subseteq Nat
  BY ServeAssumption DEF Folders
<1>2. x \in Seq(Fields) /\ Len(x) = 4
  BY <1>1 DEF Fields, Field
<1>3. Len(o) \in Nat /\ Len(o \o x) = Len(o) + 4
  BY <1>2, Longer
<1>4. /\ (o \o x)[Len(o) + 1] = x[1] /\ (o \o x)[Len(o) + 2] = x[2]
      /\ (o \o x)[Len(o) + 3] = x[3] /\ (o \o x)[Len(o) + 4] = x[4]
  BY <1>2, Longer
<1>5. HeadAt(o \o x, f, i)
  <2>1. i + 1 = Len(o) + 2 /\ i + 2 = Len(o) + 3 /\ i + 3 = Len(o) + 4
    BY <1>3
  <2> QED
    BY <1>3, <1>4, <2>1 DEF HeadAt
<1>6. r.files \in Seq(Files) /\ Len(r.files) = Len(FileSizes)
  BY <1>1 DEF Files
<1>7. \A q \in 1..Len(r.files) : r.files[q] = 0 + q
  BY <1>1, <1>6 DEF Files
<1>8. /\ start \in Seq(1..Len(o \o x) + 1) /\ Len(start) = 0 + 1 /\ start[1] = i + 4
      /\ i \in 1..Len(o \o x)
  BY <1>3
<1>9. FilesAt(o \o x, start, 0)
  BY DEF FilesAt
<1>10. SentOf(r, o \o x, 0 + 1, start[0 + 1])
  BY <1>3 DEF SentOf
<1>11. 0 \in 0..Len(FileSizes) /\ Len(r.files) = Len(FileSizes) - 0
  BY <1>1, <1>6
<1>12. PartFrom(r, o \o x, f, 0, i, start)
  BY <1>5, <1>7, <1>8, <1>9, <1>10, <1>11 DEF PartFrom
<1> HIDE DEF x, i, start
<1>13. PartAt(r, o \o x, f)
  BY <1>8, <1>11, <1>12 DEF PartAt
<1> QED
  BY <1>13 DEF x

(* WriteFileHead goes on with the next file. *)
LEMMA PartNamed ==
    ASSUME NEW o \in Seq(Fields), NEW f, NEW r, NEW s, r.files \in Seq(Files), r.files # <<>>,
           PartAt(r, o, f), r.pc = "file", s.pc = "open", s.files = r.files
    PROVE  LET m == Head(r.files)
           IN  PartAt(s, o \o <<Field("name", m), Field("length", FileSizes[m])>>, f)
<1>p. PICK d \in 0..Len(FileSizes), i \in 1..Len(o), start \in Seq(1..Len(o) + 1) :
        PartFrom(r, o, f, d, i, start)
  BY DEF PartAt
<1>0. /\ Len(r.files) = Len(FileSizes) - d
      /\ \A q \in 1..Len(r.files) : r.files[q] = d + q
      /\ HeadAt(o, f, i)
      /\ Len(start) = d + 1 /\ start[1] = i + 4
      /\ FilesAt(o, start, d)
      /\ SentOf(r, o, d + 1, start[d + 1])
  BY <1>p DEF PartFrom
<1> DEFINE m == Head(r.files)
<1> DEFINE x == <<Field("name", m), Field("length", FileSizes[m])>>
<1>1. Len(FileSizes) \in Nat /\ Len(r.files) \in Nat \ {0} /\ d \in Nat
  BY ServeAssumption
<1>2. m = d + 1 /\ m \in Files
  BY <1>0, <1>1
<1>3. FileSizes[m] \in Nat /\ m \in Nat
  BY <1>2, SizeOf
<1>4. x \in Seq(Fields) /\ Len(x) = 2
  BY <1>3 DEF Fields, Field
<1>5. Len(o) \in Nat /\ Len(o \o x) = Len(o) + 2
  BY <1>4, Longer
<1>6. (o \o x)[Len(o) + 1] = x[1] /\ (o \o x)[Len(o) + 2] = x[2]
  BY <1>4, Longer
<1>7. start[d + 1] = Len(o) + 1
  BY <1>0 DEF SentOf
<1>8. DataAt(o \o x, d + 1, start[d + 1], 0)
  <2>1. start[d + 1] + 1 = Len(o) + 2
    BY <1>5, <1>7
  <2> QED
    BY <1>2, <1>5, <1>6, <1>7, <2>1 DEF DataAt
<1>9. SentOf(s, o \o x, d + 1, start[d + 1])
  BY <1>8 DEF SentOf
<1>10. HeadAt(o \o x, f, i) /\ FilesAt(o \o x, start, d)
  <2>1. i \in Nat \ {0}
    OBVIOUS
  <2>2. HeadAt(o \o x, f, i)
    BY <1>0, <1>4, <2>1, HeadStays
  <2>3. FilesAt(o \o x, start, d)
    BY <1>0, <1>1, <1>4, FilesStay
  <2> QED
    BY <2>2, <2>3
<1>11. i \in 1..Len(o \o x) /\ start \in Seq(1..Len(o \o x) + 1)
  <2>1. PICK a \in Nat, b \in Nat : a = Len(o) /\ b = Len(o \o x) /\ a <= b
    BY <1>5
  <2> QED
    BY <2>1, Widened
<1> HIDE DEF x
<1>12. PartFrom(s, o \o x, f, d, i, start)
  BY <1>0, <1>9, <1>10 DEF PartFrom
<1>13. PartAt(s, o \o x, f)
  BY <1>11, <1>12 DEF PartAt
<1> QED
  BY <1>13 DEF x

(* OpenFile is at the first buffer. *)
LEMMA PartOpened ==
    ASSUME NEW o \in Seq(Fields), NEW f, NEW r, NEW s, r.files \in Seq(Files), r.files # <<>>,
           PartAt(r, o, f), r.pc = "open",
           s.pc = "data", s.files = r.files, s.size = FileSizes[Head(r.files)]
    PROVE  PartAt(s, o, f)
<1>p. PICK d \in 0..Len(FileSizes), i \in 1..Len(o), start \in Seq(1..Len(o) + 1) :
        PartFrom(r, o, f, d, i, start)
  BY DEF PartAt
<1>0. /\ Len(r.files) = Len(FileSizes) - d
      /\ \A q \in 1..Len(r.files) : r.files[q] = d + q
      /\ HeadAt(o, f, i)
      /\ Len(start) = d + 1 /\ start[1] = i + 4
      /\ FilesAt(o, start, d)
      /\ SentOf(r, o, d + 1, start[d + 1])
  BY <1>p DEF PartFrom
<1>1. Len(FileSizes) \in Nat /\ Len(r.files) \in Nat \ {0} /\ d \in Nat
  BY ServeAssumption
<1>2. Head(r.files) = d + 1 /\ d + 1 \in Files
  BY <1>0, <1>1
<1>3. FileSizes[d + 1] \in Nat /\ Buffer \in Nat
  BY <1>2, SizeOf, Sizes
<1>4. DataAt(o, d + 1, start[d + 1], 0)
  BY <1>0 DEF SentOf
<1>5. s.size = IF 0 * Buffer < FileSizes[d + 1] THEN FileSizes[d + 1] - 0 * Buffer ELSE 0
  BY <1>2, <1>3
<1>6. SentOf(s, o, d + 1, start[d + 1])
  BY <1>4, <1>5 DEF SentOf
<1>7. PartFrom(s, o, f, d, i, start)
  BY <1>0, <1>6 DEF PartFrom
<1> QED
  BY <1>7 DEF PartAt

(* WriteFile sends the next buffer. *)
LEMMA PartFilled ==
    ASSUME NEW o \in Seq(Fields), NEW f, NEW r, NEW s, r.files \in Seq(Files), r.files # <<>>,
           PartAt(r, o, f), r.pc = "data", r.size > 0, NEW n,
           n = IF r.size < Buffer THEN r.size ELSE Buffer,
           s.pc = "data", s.files = r.files, s.size = r.size - n
    PROVE  PartAt(s, o \o <<Data(Head(r.files), n)>>, f)
<1>p. PICK d \in 0..Len(FileSizes), i \in 1..Len(o), start \in Seq(1..Len(o) + 1) :
        PartFrom(r, o, f, d, i, start)
  BY DEF PartAt
<1>0. /\ Len(r.files) = Len(FileSizes) - d
      /\ \A q \in 1..Len(r.files) : r.files[q] = d + q
      /\ HeadAt(o, f, i)
      /\ Len(start) = d + 1 /\ start[1] = i + 4
      /\ FilesAt(o, start, d)
      /\ SentOf(r, o, d + 1, start[d + 1])
  BY <1>p DEF PartFrom
<1> DEFINE x == <<Data(Head(r.files), n)>>
<1> DEFINE size == FileSizes[d + 1]
<1>1. Len(FileSizes) \in Nat /\ Len(r.files) \in Nat \ {0} /\ d \in Nat
  BY ServeAssumption
<1>2. PICK p \in 1..Len(o) + 1 : p = start[d + 1]
  BY <1>0, <1>1
<1>3. Head(r.files) = d + 1 /\ d + 1 \in Files
  BY <1>0, <1>1
<1>4. size \in Nat
  BY <1>3, SizeOf
<1>5. PICK k \in Nat : DataAt(o, d + 1, p, k) /\ r.size = IF k * Buffer < size THEN size - k * Buffer ELSE 0
  BY <1>0, <1>2 DEF SentOf
<1>6. k * Buffer < size /\ r.size = size - k * Buffer
  BY <1>5
<1> HIDE DEF size
<1>7. n = Chunk(size, k + 1) /\ n \in Nat
      /\ s.size = IF (k + 1) * Buffer < size THEN size - (k + 1) * Buffer ELSE 0
  <2>1. /\ Chunk(size, k + 1) = IF size - k * Buffer < Buffer THEN size - k * Buffer ELSE Buffer
        /\ Chunk(size, k + 1) \in Nat
        /\ size - k * Buffer - Chunk(size, k + 1)
             = IF (k + 1) * Buffer < size THEN size - (k + 1) * Buffer ELSE 0
    BY <1>4, <1>6, NextChunk
  <2>2. n = Chunk(size, k + 1)
    BY <1>6, <2>1
  <2> QED
    BY <1>6, <2>1, <2>2
<1>8. x \in Seq(Fields) /\ Len(x) = 1
  BY <1>3, <1>7 DEF Fields, Data
<1>9. Len(o) \in Nat /\ Len(o \o x) = Len(o) + 1 /\ (o \o x)[Len(o) + 1] = Data(d + 1, n)
  BY <1>3, <1>8, Longer
<1>10. DataAt(o \o x, d + 1, p, k + 1)
  <2>1. p \in Nat /\ p >= 1
    OBVIOUS
  <2>2. p + 1 + k = Len(o)
    BY <1>5 DEF DataAt
  <2> HIDE DEF x
  <2>3. PICK l \in Nat : l = Len(o) /\ l + 1 = Len(o \o x)
    BY <1>9
  <2>4. p + 1 + k = l
    BY <2>2, <2>3
  <2>5. p \in 1..l /\ p + 1 \in 1..l /\ p + 1 + (k + 1) = l + 1
    BY <2>1, <2>4
  <2>6. p \in 1..Len(o) /\ p + 1 \in 1..Len(o) /\ p + 1 + (k + 1) = Len(o \o x)
    BY <2>3, <2>5
  <2>7. (o \o x)[p] = Field("name", d + 1) /\ (o \o x)[p + 1] = Field("length", size)
    BY <1>5, <1>8, <2>6, Longer DEF DataAt, size
  <2>8. ASSUME NEW j \in 1..(k + 1)
        PROVE  (j - 1) * Buffer < size /\ (o \o x)[p + 1 + j] = Data(d + 1, Chunk(size, j))
    <3>1. CASE j = k + 1
      <4>1. j - 1 = k /\ p + 1 + j = Len(o) + 1
        BY <2>3, <2>5, <3>1
      <4> QED
        BY <1>6, <1>7, <1>9, <3>1, <4>1
    <3>2. CASE j # k + 1
      <4>1. j \in 1..k /\ p + 1 + j \in 1..Len(o)
        BY <2>1, <2>2, <3>2
      <4> QED
        BY <1>5, <1>8, <4>1, Longer DEF DataAt, size
    <3> QED
      BY <3>1, <3>2
  <2> QED
    BY <2>6, <2>7, <2>8 DEF DataAt, size
<1>11. SentOf(s, o \o x, d + 1, p)
  <2>1. k + 1 \in Nat
    OBVIOUS
  <2>2. /\ DataAt(o \o x, d + 1, p, k + 1)
        /\ s.size = IF (k + 1) * Buffer < FileSizes[d + 1]
                    THEN FileSizes[d + 1] - (k + 1) * Buffer ELSE 0
    BY <1>7, <1>10 DEF size
  <2> HIDE DEF x
  <2> QED
    BY <2>1, <2>2 DEF SentOf
<1>12. HeadAt(o \o x, f, i) /\ FilesAt(o \o x, start, d)
  <2>1. i \in Nat \ {0}
    OBVIOUS
  <2>2. HeadAt(o \o x, f, i)
    BY <1>0, <1>8, <2>1, HeadStays
  <2>3. FilesAt(o \o x, start, d)
    BY <1>0, <1>1, <1>8, FilesStay
  <2> QED
    BY <2>2, <2>3
<1> HIDE DEF x
<1>13. i \in 1..Len(o \o x) /\ start \in Seq(1..Len(o \o x) + 1)
  <2>1. PICK a \in Nat, b \in Nat : a = Len(o) /\ b = Len(o \o x) /\ a <= b
    BY <1>9
  <2> QED
    BY <2>1, Widened
<1>14. SentOf(s, o \o x, d + 1, start[d + 1])
  BY <1>2, <1>11
<1>15. PartFrom(s, o \o x, f, d, i, start)
  BY <1>0, <1>12, <1>14 DEF PartFrom
<1>16. PartAt(s, o \o x, f)
  BY <1>13, <1>15 DEF PartAt
<1> QED
  BY <1>16 DEF x

(* WriteFile is done with a file. *)
LEMMA PartSent ==
    ASSUME NEW o \in Seq(Fields), NEW f, NEW r, NEW s, r.files \in Seq(Files), r.files # <<>>,
           PartAt(r, o, f), r.pc = "data", r.size = 0, s.pc = "file", s.files = Tail(r.files)
    PROVE  PartAt(s, o, f)
<1>p. PICK d \in 0..Len(FileSizes), i \in 1..Len(o), start \in Seq(1..Len(o) + 1) :
        PartFrom(r, o, f, d, i, start)
  BY DEF PartAt
<1>0. /\ Len(r.files) = Len(FileSizes) - d
      /\ \A q \in 1..Len(r.files) : r.files[q] = d + q
      /\ HeadAt(o, f, i)
      /\ Len(start) = d + 1 /\ start[1] = i + 4
      /\ FilesAt(o, start, d)
      /\ SentOf(r, o, d + 1, start[d + 1])
  BY <1>p DEF PartFrom
<1> DEFINE next == Append(start, Len(o) + 1)
<1>1. Len(FileSizes) \in Nat /\ Len(r.files) \in Nat \ {0} /\ d \in Nat /\ Len(o) \in Nat
  BY ServeAssumption
<1>2. PICK p \in 1..Len(o) + 1 : p = start[d + 1]
  BY <1>0, <1>1
<1>3. d + 1 \in 0..Len(FileSizes) /\ d + 1 \in Files
  BY <1>0, <1>1 DEF Files
<1>4. FileSizes[d + 1] \in Nat /\ Buffer \in Nat
  BY <1>3, SizeOf, Sizes
<1>5. PICK k \in Nat : /\ DataAt(o, d + 1, p, k)
                       /\ r.size = IF k * Buffer < FileSizes[d + 1]
                                   THEN FileSizes[d + 1] - k * Buffer ELSE 0
  BY <1>0, <1>2 DEF SentOf
<1>6. k * Buffer \in Nat
  BY <1>4
<1>7. FileSizes[d + 1] <= k * Buffer
  BY <1>4, <1>5, <1>6
<1>8. p \in Nat /\ p + 1 + k = Len(o)
  BY <1>5 DEF DataAt
<1>9. FileAt(o, d + 1, p, k)
  <2>1. p + 1 + k <= Len(o)
    BY <1>1, <1>8
  <2> QED
    BY <1>5, <1>7, <2>1 DEF DataAt, FileAt
<1>10. /\ next \in Seq(1..Len(o) + 1) /\ Len(next) = d + 1 + 1
      /\ \A j \in 1..(d + 1) : next[j] = start[j]
      /\ next[d + 1 + 1] = Len(o) + 1
  <2> DEFINE S == 1..Len(o) + 1
  <2> DEFINE e == Len(o) + 1
  <2>1. start \in Seq(S) /\ e \in S
    BY <1>1
  <2> HIDE DEF S, e
  <2>2. /\ Append(start, e) \in Seq(S) /\ Len(Append(start, e)) = Len(start) + 1
        /\ \A j \in 1..Len(start) : Append(start, e)[j] = start[j]
        /\ Append(start, e)[Len(start) + 1] = e
    BY <2>1, Appended
  <2>3. Append(start, e) = next
    BY DEF e
  <2> HIDE DEF next
  <2> QED
    BY <1>0, <2>2, <2>3 DEF S, e
<1> HIDE DEF next
<1>11. FilesAt(o, next, d + 1)
  <2> SUFFICES ASSUME NEW m \in 1..(d + 1)
               PROVE  /\ next[m + 1] - next[m] - 2 \in Nat
                      /\ FileAt(o, m, next[m], next[m + 1] - next[m] - 2)
    BY DEF FilesAt
  <2>1. CASE m = d + 1
    <3>1. PICK l \in Nat : l = Len(o)
      BY <1>1
    <3>2. d + 1 \in 1..(d + 1)
      BY <1>1
    <3>3. next[m] = p /\ next[m + 1] = l + 1
      BY <1>10, <1>2, <2>1, <3>1, <3>2
    <3>4. l + 1 - p - 2 = k
      BY <1>8, <3>1
    <3>5. next[m] = p /\ next[m + 1] - next[m] - 2 = k
      BY <3>3, <3>4
    <3> QED
      BY <1>9, <2>1, <3>5
  <2>2. CASE m # d + 1
    <3>1. m \in 1..d /\ m + 1 \in 1..(d + 1)
      BY <1>1, <2>2
    <3>2. m \in 1..d /\ next[m] = start[m] /\ next[m + 1] = start[m + 1]
      BY <1>10, <3>1
    <3> QED
      BY <1>0, <3>2 DEF FilesAt
  <2> QED
    BY <2>1, <2>2
<1>12. SentOf(s, o, d + 1 + 1, next[d + 1 + 1])
  <2>1. PICK e : e = next[d + 1 + 1] /\ e = Len(o) + 1
    BY <1>10
  <2> QED
    BY <2>1, SentNone
<1>13. Len(s.files) = Len(FileSizes) - (d + 1) /\ \A q \in 1..Len(s.files) : s.files[q] = d + 1 + q
  <2>1. Len(s.files) = Len(r.files) - 1 /\ \A q \in 1..Len(s.files) : s.files[q] = r.files[q + 1]
    BY <1>1
  <2>2. ASSUME NEW q \in 1..Len(s.files) PROVE s.files[q] = d + 1 + q
    <3>1. q + 1 \in 1..Len(r.files)
      BY <1>1, <2>1
    <3>2. r.files[q + 1] = d + (q + 1)
      BY <1>0, <3>1
    <3> QED
      BY <1>1, <2>1, <3>2
  <2>3. Len(s.files) = Len(FileSizes) - (d + 1)
    <3>1. PICK a \in Nat, b \in Nat : a = Len(FileSizes) /\ b = Len(r.files) /\ b = a - d
      BY <1>0, <1>1
    <3>2. b - 1 = a - (d + 1)
      BY <1>1, <3>1
    <3> QED
      BY <2>1, <3>1, <3>2
  <2> QED
    BY <2>2, <2>3
<1>14. next[1] = i + 4
  BY <1>0, <1>1, <1>10
<1>15. PartFrom(s, o, f, d + 1, i, next)
  BY <1>0, <1>10, <1>11, <1>12, <1>13, <1>14 DEF PartFrom
<1> QED
  BY <1>3, <1>10, <1>15 DEF PartAt

(* After the last file the child is complete. *)
LEMMA PartFramed ==
    ASSUME NEW o \in Seq(Fields), NEW f, NEW r, r.files = <<>>, PartAt(r, o, f)
    PROVE  Framed(o, f)
<1>p. PICK d \in 0..Len(FileSizes), i \in 1..Len(o), start \in Seq(1..Len(o) + 1) :
        PartFrom(r, o, f, d, i, start)
  BY DEF PartAt
<1>0. /\ Len(r.files) = Len(FileSizes) - d
      /\ \A q \in 1..Len(r.files) : r.files[q] = d + q
      /\ HeadAt(o, f, i)
      /\ Len(start) = d + 1 /\ start[1] = i + 4
      /\ FilesAt(o, start, d)
      /\ SentOf(r, o, d + 1, start[d + 1])
  BY <1>p DEF PartFrom
<1> DEFINE begin == [m \in Files |-> start[m]]
<1>1. d = Len(FileSizes) /\ d \in Nat /\ Len(o) \in Nat
  BY <1>0, ServeAssumption
<1>2. ASSUME NEW m \in Files
      PROVE  /\ start[m] \in Nat \ {0} /\ start[m + 1] \in Nat
             /\ start[m + 1] - start[m] - 2 \in 0..Len(o)
             /\ FileAt(o, m, start[m], start[m + 1] - start[m] - 2)
             /\ start[m] \in 1..Len(o) /\ o[start[m]].type = "name"
  <2>1. m \in 1..d
    BY <1>1 DEF Files
  <2>2. start[m] \in Nat \ {0} /\ start[m + 1] \in Nat
    <3>1. m \in 1..Len(start) /\ m + 1 \in 1..Len(start)
      BY <1>0, <1>1, <2>1
    <3>2. start[m] \in 1..Len(o) + 1 /\ start[m + 1] \in 1..Len(o) + 1
      BY <3>1
    <3>3. \A v \in 1..Len(o) + 1 : v \in Nat \ {0}
      BY <1>1
    <3> QED
      BY <3>2, <3>3
  <2>3. /\ start[m + 1] - start[m] - 2 \in Nat
        /\ FileAt(o, m, start[m], start[m + 1] - start[m] - 2)
    BY <1>0, <2>1 DEF FilesAt
  <2>4. PICK a \in Nat \ {0}, k \in Nat : a = start[m] /\ k = start[m + 1] - start[m] - 2
    BY <2>2, <2>3
  <2>5. a + 1 + k <= Len(o) /\ o[a] = Field("name", m)
    BY <2>3, <2>4 DEF FileAt
  <2>6. a \in 1..Len(o) /\ k \in 0..Len(o) /\ o[a].type = "name"
    BY <1>1, <2>5 DEF Field
  <2> QED
    BY <2>2, <2>3, <2>4, <2>6
<1>3. begin \in [Files -> {p \in 1..Len(o) : o[p].type = "name"}]
  BY <1>2
<1>4. ASSUME NEW m \in Files
      PROVE  /\ m = 1 => begin[m] = i + 4
             /\ \E k \in 0..Len(o) : /\ FileAt(o, m, begin[m], k)
                                     /\ m + 1 \in Files => begin[m + 1] = begin[m] + 2 + k
  <2> DEFINE k == start[m + 1] - start[m] - 2
  <2>1. k \in 0..Len(o) /\ FileAt(o, m, begin[m], k)
    BY <1>2
  <2>2. m + 1 \in Files => begin[m + 1] = begin[m] + 2 + k
    <3>1. start[m] \in Nat /\ start[m + 1] \in Nat
      BY <1>2
    <3>2. start[m + 1] = start[m] + 2 + k
      <4>1. PICK a \in Nat, e \in Nat : a = start[m] /\ e = start[m + 1]
        BY <3>1
      <4>2. e = a + 2 + (e - a - 2)
        OBVIOUS
      <4> QED
        BY <4>1, <4>2
    <3> QED
      BY <3>2
  <2> QED
    BY <1>0, <2>1, <2>2
<1>5. FrameAt(o, f, i)
  BY <1>0, <1>3, <1>4 DEF FrameAt
<1> QED
  BY <1>5 DEF Framed

-----------------------------------------------------------------------------
(* A folder that is untouched after a step was untouched before, and a       *)
(* deletion takes nothing but from a folder it has touched.                  *)
LEMMA KeptNext ==
    ASSUME IInv, KeptInv, [ServeNext]_vars
    PROVE  KeptInv' /\ \A f \in Folders : doomed'[f] = "no" => doomed[f] = "no"
<1>1. CASE UNCHANGED diskVars
  BY <1>1 DEF KeptInv, diskVars
<1>2. ASSUME NEW f \in Folders, NEW how \in {"top", "sub"}, Doom(f, how)
      PROVE  KeptInv' /\ \A g \in Folders : doomed'[g] = "no" => doomed[g] = "no"
  <2>1. /\ doomed' = [doomed EXCEPT ![f] = how] /\ listed' \in {listed, listed \ {f}}
        /\ entry' = entry /\ named' = named /\ dir' = dir /\ meta' = meta
    BY <1>2 DEF Doom
  <2> QED
    BY <2>1 DEF KeptInv
<1>3. ASSUME NEW f \in Folders, RemoveAll(f) \/ DropEntry(f) \/ DropName(f)
      PROVE  KeptInv' /\ \A g \in Folders : doomed'[g] = "no" => doomed[g] = "no"
  <2>1. doomed' = doomed /\ listed' = listed /\ doomed[f] # "no"
    BY <1>3 DEF RemoveAll, DropEntry, DropName
  <2>2. ASSUME NEW g \in Folders, g # f
        PROVE  /\ g \in entry => g \in entry'
               /\ g \in named => g \in named'
               /\ g \in dir => g \in dir'
               /\ meta[g] = Files => meta'[g] = Files
    <3>1. /\ entry' \in {entry, entry \ {f}} /\ named' \in {named, named \ {f}}
          /\ dir' \in {dir, dir \ {f}}
      BY <1>3 DEF RemoveAll, DropEntry, DropName
    <3>2. meta' = meta \/ \E m : meta' = [meta EXCEPT ![f] = @ \ {m}]
      BY <1>3 DEF RemoveAll, DropEntry, DropName
    <3>3. meta[g] = Files => meta'[g] = Files
      BY <2>2, <3>2 DEF IInv, DiskInv
    <3> QED
      BY <2>2, <3>1, <3>3
  <2> QED
    BY <2>1, <2>2 DEF KeptInv
<1>4. CASE ServeMetadata \/ Handler \/ ReadFails \/ Disconnect
           \/ \E f \in Folders : ServeSingleMetadata(f)
  <2>1. UNCHANGED diskVars
    BY <1>4 DEF ServeMetadata, ServeSingleMetadata, Handler, GetFolderInfo, ErrorResponse,
         GetFolderName, IsLeaf, ReadDir, WriteCount, WriteChild, WriteDone, FilesDone,
         WriteFileHead, OpenFile, WriteFile, ReadFails, Disconnect, Moves
  <2> QED
    BY <1>1, <2>1
<1>5. CASE UNCHANGED vars
  BY <1>1, <1>5 DEF vars
<1> QED
  BY <1>2, <1>3, <1>4, <1>5 DEF ServeNext

(* A step that leaves list and children alone, and the handler in the same   *)
(* half of its work.                                                         *)
LEMMA ListedStays ==
    ASSUME IInv, ListedInv, \A f \in Folders : doomed'[f] = "no" => doomed[f] = "no",
           req'.kind = req.kind, req'.list = req.list, req'.children = req.children,
           req'.pc \in Listing \cup Sending \cup {"child", "done"} \/ req'.pc = req.pc,
           req'.pc \in Listing => req.pc \in Listing /\ req'.i = req.i,
           req'.pc \in Sending \cup {"child"} => req.pc \in Sending \cup {"child"}
    PROVE  ListedInv'
<1> SUFFICES ASSUME req.kind = "list" PROVE ListedInv'
  BY DEF ListedInv
<1>1. req.list \in Seq(Folders) /\ req.children \in Seq(Children)
  BY DEF IInv, HandlerInv, RequestInv
<1>2. ASSUME NEW j \in 1..Len(req.list) PROVE req.list[j] \in Folders
  BY <1>1
<1>3. ASSUME NEW c \in 1..Len(req.children) PROVE req.children[c].id \in Folders
  <2>1. req.children[c] \in Children
    BY <1>1
  <2> QED
    BY <2>1 DEF Children
<1>4. req'.pc \in Listing \cup Sending \cup {"child", "done"}
  BY DEF ListedInv
<1>5. \A f \in Folders : doomed'[f] = "no" => \E j \in 1..Len(req.list) : req.list[j] = f
  BY DEF ListedInv
<1>6. req'.pc \in Listing =>
             \A j \in 1..Len(req.list) : j < req'.i /\ doomed'[req.list[j]] = "no" =>
                \E c \in 1..Len(req.children) : req.children[c].id = req.list[j]
  BY <1>2 DEF ListedInv
<1>7. req'.pc \in Sending \cup {"child"} =>
             \A f \in Folders : doomed'[f] = "no" =>
                \E c \in 1..Len(req.children) : req.children[c].id = f
  BY DEF ListedInv
<1>8. \A c \in 1..Len(req.children) : doomed'[req.children[c].id] = "no" =>
             req.children[c].files = [m \in Files |-> m]
  BY <1>3 DEF ListedInv
<1> QED
  BY <1>4, <1>5, <1>6, <1>7, <1>8 DEF ListedInv

(* Whatever is deleted meanwhile, an untouched folder gets into the list,    *)
(* from there to the children, and its files to their lists.                 *)
LEMMA ListedNext == ASSUME IInv, KeptInv, ListedInv, [ServeNext]_vars PROVE ListedInv'
<1>0. DiskInv /\ HandlerInv /\ SingleInv
  BY DEF IInv, ClientInv
<1>mono. \A f \in Folders : doomed'[f] = "no" => doomed[f] = "no"
  BY KeptNext
<1>1. CASE UNCHANGED req
  BY <1>mono, <1>1, ListedStays
<1>2. CASE ServeMetadata
  <2>1. PICK children \in Listings(listed) :
          req' = [NoRequest EXCEPT !.pc = "name", !.kind = "list", !.list = children]
    BY <1>2 DEF ServeMetadata, Moves
  <2>2. req'.pc = "name" /\ req'.kind = "list" /\ req'.list = children /\ req'.i = 1 /\ req'.children = <<>>
    BY <2>1 DEF NoRequest
  <2>3. NumFolders \in Nat /\ listed \subseteq 1..NumFolders
    BY <1>0, ServeAssumption DEF DiskInv, Folders
  <2>4. children \in Seq(1..NumFolders) /\ \A f \in listed : \E j \in 1..Len(children) : children[j] = f
    <3>1. children \in Seq(1..NumFolders)
      BY <2>3, ListingSeq
    <3>2. Covers(children, listed)
      BY <2>3, ListingWhole
    <3> QED
      BY <3>1, <3>2 DEF Covers
  <2>5. \A f \in Folders : doomed'[f] = "no" => \E j \in 1..Len(children) : children[j] = f
    BY <1>mono, <2>4 DEF KeptInv
  <2>6. Len(children) \in Nat /\ \A j \in 1..Len(children) : ~(j < 1)
    BY <2>4
  <2> QED
    BY <2>2, <2>5, <2>6 DEF ListedInv, Listing, Sending
<1>3. CASE (\E f \in Folders : ServeSingleMetadata(f)) \/ GetFolderInfo \/ ErrorResponse
  <2>1. ASSUME NEW f \in Folders, ServeSingleMetadata(f) PROVE req'.kind # "list"
    BY <2>1 DEF ServeSingleMetadata, Moves, NoRequest
  <2>2. ASSUME GetFolderInfo PROVE req'.kind # "list"
    BY <1>0, <2>2 DEF GetFolderInfo, Moves, ListedInv, Listing, Sending, HandlerInv, RequestInv, Slots
  <2>3. ASSUME ErrorResponse PROVE req'.kind # "list"
    BY <1>0, <2>3 DEF ErrorResponse, Moves, ListedInv, Listing, Sending, HandlerInv, RequestInv, Slots
  <2> QED
    BY <1>3, <2>1, <2>2, <2>3 DEF ListedInv
<1>4. CASE GetFolderName
  <2>1. /\ req'.kind = req.kind /\ req'.list = req.list /\ req'.children = req.children
        /\ req.pc = "name" /\ req'.pc = "stat" /\ req'.i = req.i
    BY <1>0, <1>4 DEF GetFolderName, Moves, HandlerInv, RequestInv, Slots
  <2> QED
    BY <1>mono, <2>1, ListedStays DEF Listing, Sending
<1>5. CASE IsLeaf
  <2>1. req.pc \in {"stat", "leaf"} /\ req.i <= Len(req.list) /\ req.list \in Seq(Folders) /\ req.i \in Nat \ {0}
    BY <1>0, <1>5 DEF IsLeaf, HandlerInv, RequestInv
  <2>2. CASE req' \in {[req EXCEPT !.pc = "leaf"], [req EXCEPT !.pc = "readdir"]}
    <3>1. /\ req'.kind = req.kind /\ req'.list = req.list /\ req'.children = req.children
          /\ req'.pc \in {"leaf", "readdir"} /\ req'.i = req.i
      BY <1>0, <2>2 DEF HandlerInv, RequestInv, Slots
    <3> QED
      BY <1>mono, <2>1, <3>1, ListedStays DEF Listing, Sending
  <2>3. CASE req.kind # "list"
    <3>1. req'.kind = req.kind
      BY <1>0, <1>5 DEF IsLeaf, AfterIsLeaf, NextInfo, Moves, HandlerInv, RequestInv, Slots
    <3> QED
      BY <2>3, <3>1 DEF ListedInv
  (* The child was not complete, so it was touched. *)
  <2>4. CASE req.kind = "list" /\ req' = NextInfo(req) /\ (Child \notin dir \/ Child \notin entry)
    <3>1. /\ req'.kind = req.kind /\ req'.list = req.list /\ req'.children = req.children
          /\ req'.pc = "name" /\ req'.i = req.i + 1
      BY <1>0, <2>4 DEF NextInfo, HandlerInv, RequestInv, Slots
    <3>2. Child \in Folders
      BY <2>1 DEF Child
    <3>3. doomed'[Child] # "no"
      BY <1>mono, <2>4, <3>2 DEF KeptInv
    <3>4. \A j \in 1..Len(req.list) : j < req.i + 1 => j < req.i \/ req.list[j] = Child
      BY <2>1 DEF Child
    <3>5. \A j \in 1..Len(req.list) : req.list[j] \in Folders
      BY <2>1
    <3>6. \A j \in 1..Len(req.list) : j < req.i + 1 /\ doomed'[req.list[j]] = "no" =>
             \E c \in 1..Len(req.children) : req.children[c].id = req.list[j]
      BY <1>mono, <2>1, <2>4, <3>3, <3>4, <3>5 DEF ListedInv, Listing
    <3>7. \A c \in 1..Len(req.children) : doomed'[req.children[c].id] = "no" =>
             req.children[c].files = [m \in Files |-> m]
      <4>1. ASSUME NEW c \in 1..Len(req.children) PROVE req.children[c].id \in Folders
        <5>1. req.children[c] \in Children
          BY <1>0 DEF HandlerInv, RequestInv
        <5> QED
          BY <5>1 DEF Children
      <4> QED
        BY <1>mono, <2>4, <4>1 DEF ListedInv
    <3>8. \A f \in Folders : doomed'[f] = "no" => \E j \in 1..Len(req.list) : req.list[j] = f
      BY <1>mono, <2>4 DEF ListedInv
    <3> QED
      BY <3>1, <3>6, <3>7, <3>8 DEF ListedInv, Listing, Sending
  <2> QED
    BY <1>5, <2>2, <2>3, <2>4 DEF IsLeaf, AfterIsLeaf, Moves
<1>6. CASE ReadDir
  <2>1. PICK names \in Listings(meta[Child]) :
          LET child == [id |-> Child, named |-> req.name, files |-> names]
              r == [req EXCEPT !.children = Append(@, child)]
          IN  req' = IF req.kind = "list" THEN NextInfo(r) ELSE [r EXCEPT !.pc = "stat"]
    BY <1>6 DEF ReadDir, Moves
  <2> DEFINE child == [id |-> Child, named |-> req.name, files |-> names]
  <2>2. CASE req.kind # "list"
    <3>1. req'.kind = req.kind
      BY <1>0, <2>1, <2>2 DEF HandlerInv, RequestInv, Slots
    <3> QED
      BY <2>2, <3>1 DEF ListedInv
  <2>3. CASE req.kind = "list"
    <3>1. /\ req'.kind = req.kind /\ req'.list = req.list /\ req'.pc = "name" /\ req'.i = req.i + 1
          /\ req'.children = Append(req.children, child)
      BY <1>0, <2>1, <2>3 DEF NextInfo, HandlerInv, RequestInv, Slots
    <3>2. /\ req.pc = "readdir" /\ req.i <= Len(req.list) /\ req.list \in Seq(Folders)
          /\ req.i \in Nat \ {0} /\ req.children \in Seq(Children)
      BY <1>0, <1>6 DEF ReadDir, HandlerInv, RequestInv
    <3>3. Child \in Folders
      BY <3>2 DEF Child
    <3>4. child.id = Child /\ child.files = names
      OBVIOUS
    <3>5. doomed'[Child] = "no" => names = [m \in Files |-> m]
      <4>1. doomed'[Child] = "no" => meta[Child] = Files
        BY <1>mono, <3>3 DEF KeptInv
      <4>2. Len(FileSizes) \in Nat
        BY ServeAssumption
      <4> QED
        BY <4>1, <4>2, ListingIdentity DEF Files
    <3> HIDE DEF child
    <3>6. /\ Len(req'.children) = Len(req.children) + 1 /\ Len(req.children) \in Nat
          /\ req'.children[Len(req.children) + 1] = child
          /\ \A c \in 1..Len(req.children) : req'.children[c] = req.children[c]
      BY <3>1, <3>2
    <3>7. \A j \in 1..Len(req.list) : j < req.i + 1 => j < req.i \/ req.list[j] = Child
      BY <3>2 DEF Child
    <3>8. ASSUME NEW j \in 1..Len(req.list), j < req.i + 1, doomed'[req.list[j]] = "no"
          PROVE  \E c \in 1..Len(req'.children) : req'.children[c].id = req.list[j]
      <4>1. CASE req.list[j] = Child
        <5>1. Len(req.children) + 1 \in 1..Len(req'.children)
          BY <3>6
        <5> QED
          BY <3>4, <3>6, <4>1, <5>1
      <4>2. CASE j < req.i
        <5>1. req.list[j] \in Folders
          BY <3>2
        <5>2. PICK c \in 1..Len(req.children) : req.children[c].id = req.list[j]
          BY <1>mono, <2>3, <3>2, <3>8, <4>2, <5>1 DEF ListedInv, Listing
        <5>3. c \in 1..Len(req'.children)
          BY <3>6
        <5> QED
          BY <3>6, <5>2, <5>3
      <4> QED
        BY <3>7, <3>8, <4>1, <4>2
    <3>9. ASSUME NEW c \in 1..Len(req'.children), doomed'[req'.children[c].id] = "no"
          PROVE  req'.children[c].files = [m \in Files |-> m]
      <4>1. CASE c = Len(req.children) + 1
        BY <3>4, <3>5, <3>6, <3>9, <4>1
      <4>2. CASE c \in 1..Len(req.children)
        <5>1. req.children[c] \in Children
          BY <3>2, <4>2
        <5>2. req.children[c].id \in Folders
          BY <5>1 DEF Children
        <5> QED
          BY <1>mono, <2>3, <3>6, <3>9, <4>2, <5>2 DEF ListedInv
      <4> QED
        BY <3>6, <4>1, <4>2
    <3>10. \A f \in Folders : doomed'[f] = "no" => \E j \in 1..Len(req.list) : req.list[j] = f
      BY <1>mono, <2>3 DEF ListedInv
    <3> QED
      BY <3>1, <3>8, <3>9, <3>10 DEF ListedInv, Listing, Sending
  <2> QED
    BY <2>2, <2>3
(* The whole list is behind the index. *)
<1>7. CASE WriteCount
  <2>1. /\ req'.kind = req.kind /\ req'.list = req.list /\ req'.children = req.children
        /\ req.pc = "name" /\ req'.pc = "child" /\ req.i > Len(req.list)
        /\ req.list \in Seq(Folders) /\ req.i \in Nat /\ req.children \in Seq(Children)
    BY <1>0, <1>7 DEF WriteCount, Moves, HandlerInv, RequestInv, Slots
  <2>2. CASE req.kind # "list"
    BY <2>1, <2>2 DEF ListedInv
  <2>3. CASE req.kind = "list"
    <3>1. \A f \in Folders : doomed'[f] = "no" => \E j \in 1..Len(req.list) : req.list[j] = f
      BY <1>mono, <2>3 DEF ListedInv
    <3>2. \A j \in 1..Len(req.list) : j < req.i
      BY <2>1
    <3>3. \A f \in Folders : doomed'[f] = "no" => \E c \in 1..Len(req.children) : req.children[c].id = f
      BY <1>mono, <2>1, <2>3, <3>1, <3>2 DEF ListedInv, Listing
    <3>4. \A c \in 1..Len(req.children) : doomed'[req.children[c].id] = "no" =>
             req.children[c].files = [m \in Files |-> m]
      <4>1. ASSUME NEW c \in 1..Len(req.children) PROVE req.children[c].id \in Folders
        <5>1. req.children[c] \in Children
          BY <2>1
        <5> QED
          BY <5>1 DEF Children
      <4> QED
        BY <1>mono, <2>3, <4>1 DEF ListedInv
    <3> QED
      BY <2>1, <3>1, <3>3, <3>4 DEF ListedInv, Listing, Sending
  <2> QED
    BY <2>2, <2>3
<1>8. CASE WriteChild \/ WriteDone \/ FilesDone \/ WriteFileHead \/ OpenFile \/ WriteFile
           \/ ReadFails \/ Disconnect
  <2>1. ASSUME WriteChild
        PROVE  /\ req'.kind = req.kind /\ req'.list = req.list /\ req'.children = req.children
               /\ req'.pc \in Sending \cup {"child", "done"}
               /\ req'.pc # "done" => req.pc \in Sending \cup {"child"}
    BY <1>0, <2>1 DEF WriteChild, NextChild, NextFile, Moves, Sending, HandlerInv, RequestInv, Slots
  <2>2. ASSUME WriteDone
        PROVE  /\ req'.kind = req.kind /\ req'.list = req.list /\ req'.children = req.children
               /\ req'.pc \in Sending \cup {"child", "done"}
               /\ req'.pc # "done" => req.pc \in Sending \cup {"child"}
    BY <1>0, <2>2 DEF WriteDone, NextChild, NextFile, Moves, Sending, HandlerInv, RequestInv, Slots
  <2>3. ASSUME FilesDone
        PROVE  /\ req'.kind = req.kind /\ req'.list = req.list /\ req'.children = req.children
               /\ req'.pc \in Sending \cup {"child", "done"}
               /\ req'.pc # "done" => req.pc \in Sending \cup {"child"}
    BY <1>0, <2>3 DEF FilesDone, NextChild, NextFile, Moves, Sending, HandlerInv, RequestInv, Slots
  <2>4. ASSUME WriteFileHead
        PROVE  /\ req'.kind = req.kind /\ req'.list = req.list /\ req'.children = req.children
               /\ req'.pc \in Sending \cup {"child", "done"}
               /\ req'.pc # "done" => req.pc \in Sending \cup {"child"}
    BY <1>0, <2>4 DEF WriteFileHead, NextChild, NextFile, Moves, Sending, HandlerInv, RequestInv, Slots
  <2>5. ASSUME OpenFile
        PROVE  /\ req'.kind = req.kind /\ req'.list = req.list /\ req'.children = req.children
               /\ req'.pc \in Sending \cup {"child", "done"}
               /\ req'.pc # "done" => req.pc \in Sending \cup {"child"}
    BY <1>0, <2>5 DEF OpenFile, NextChild, NextFile, Moves, Sending, HandlerInv, RequestInv, Slots
  <2>6. ASSUME WriteFile
        PROVE  /\ req'.kind = req.kind /\ req'.list = req.list /\ req'.children = req.children
               /\ req'.pc \in Sending \cup {"child", "done"}
               /\ req'.pc # "done" => req.pc \in Sending \cup {"child"}
    BY <1>0, <2>6 DEF WriteFile, NextChild, NextFile, Moves, Sending, HandlerInv, RequestInv, Slots
  <2>7. ASSUME ReadFails
        PROVE  /\ req'.kind = req.kind /\ req'.list = req.list /\ req'.children = req.children
               /\ req'.pc \in Sending \cup {"child", "done"}
               /\ req'.pc # "done" => req.pc \in Sending \cup {"child"}
    BY <1>0, <2>7 DEF ReadFails, NextChild, NextFile, Moves, Sending, HandlerInv, RequestInv, Slots
  <2>8. ASSUME Disconnect
        PROVE  /\ req'.kind = req.kind /\ req'.list = req.list /\ req'.children = req.children
               /\ req'.pc = "done"
    BY <1>0, <2>8 DEF Disconnect, Moves, HandlerInv, RequestInv, Slots
  <2>9. /\ req'.kind = req.kind /\ req'.list = req.list /\ req'.children = req.children
        /\ req'.pc \in Sending \cup {"child", "done"}
        /\ req'.pc # "done" => req.pc \in Sending \cup {"child"}
    BY <1>8, <2>1, <2>2, <2>3, <2>4, <2>5, <2>6, <2>7, <2>8
  <2>10. req'.pc \notin Listing
    BY <2>9 DEF Listing, Sending
  <2> QED
    BY <1>mono, <2>9, <2>10, ListedStays DEF Sending
<1>9. ASSUME NEW f \in Folders, NEW how \in {"top", "sub"},
             Doom(f, how) \/ RemoveAll(f) \/ DropEntry(f) \/ DropName(f)
      PROVE  req' = req
  BY <1>9 DEF Doom, RemoveAll, DropEntry, DropName
<1>10. CASE UNCHANGED vars
  BY <1>1, <1>10 DEF vars
<1> QED
  BY <1>1, <1>2, <1>3, <1>4, <1>5, <1>6, <1>7, <1>8, <1>9, <1>10 DEF ServeNext, Handler

-----------------------------------------------------------------------------
(* The children behind the index stay in the reply, whatever is written      *)
(* after them.                                                               *)
BehindSent(r, o) ==
    \A c \in 1..Len(r.children) :
        c < r.i /\ doomed[r.children[c].id] = "no" => Framed(o, r.children[c].id)

LEMMA BehindStays ==
    ASSUME NEW r, NEW o \in Seq(Fields), NEW x \in Seq(Fields), BehindSent(r, o)
    PROVE  BehindSent(r, o \o x)
  BY FrameStays DEF BehindSent

(* The next child: the one left behind was sent, or was touched. *)
LEMMA BehindMoves ==
    ASSUME NEW r, NEW s, NEW o, r.i \in Nat, s.i = r.i + 1, s.children = r.children,
           BehindSent(r, o),
           doomed[r.children[r.i].id] = "no" => Framed(o, r.children[r.i].id)
    PROVE  BehindSent(s, o)
<1> SUFFICES ASSUME NEW c \in 1..Len(r.children), c < r.i + 1, doomed[r.children[c].id] = "no"
             PROVE  Framed(o, r.children[c].id)
  BY DEF BehindSent
<1>1. c < r.i \/ c = r.i
  OBVIOUS
<1> QED
  BY <1>1 DEF BehindSent

(* What the handler is about to send of a child, as SentInv has it. *)
HereSent(r, o) ==
    r.pc \in Sending /\ doomed[r.children[r.i].id] = "no" => PartAt(r, o, r.children[r.i].id)

(* The handler sends an untouched child whole: each step leaves its part of  *)
(* the reply one field, or one file, longer.                                 *)
LEMMA SentNext == ASSUME IInv, KeptInv, ListedInv, SentInv, [ServeNext]_vars PROVE SentInv'
<1>0. DiskInv /\ HandlerInv /\ SingleInv /\ out \in Seq(Fields)
  BY DEF IInv, ClientInv
(* A step that writes for a child, in the terms of the two parts. *)
<1>1. ASSUME req'.kind = req.kind, faults' = faults, doomed' = doomed,
             req'.pc \in Sending \cup {"child"},
             req.kind = "list" /\ faults = 0 => BehindSent(req', out') /\ HereSent(req', out')
      PROVE  SentInv'
  <2>1. req'.pc # "done"
    BY <1>1 DEF Sending
  <2> QED
    BY <1>1, <2>1 DEF SentInv, BehindSent, HereSent
<1>2. ASSUME req.kind = "list", faults = 0, req.pc \in Sending \cup {"child"}
      PROVE  BehindSent(req, out) /\ HereSent(req, out)
  BY <1>2 DEF SentInv, BehindSent, HereSent
<1>3. ASSUME req.pc \in Sending
      PROVE  /\ req.i \in 1..Len(req.children) /\ req.i \in Nat
             /\ req.children[req.i].id \in Folders /\ req.files \in Seq(Files)
  <2>1. req.i \in 1..Len(req.children) /\ req.i \in Nat /\ req.children \in Seq(Children) /\ req.files \in Seq(Files)
    BY <1>0, <1>3 DEF HandlerInv, RequestInv, Sending
  <2>2. req.children[req.i] \in Children
    BY <2>1
  <2> QED
    BY <2>1, <2>2 DEF Children
(* The files of an untouched child are there. *)
<1>4. ASSUME req.pc \in Sending, req.files # <<>>, ~There PROVE doomed[req.children[req.i].id] # "no"
  <2>1. Head(req.files) \in Files
    BY <1>3, <1>4
  <2> QED
    BY <1>3, <1>4, <2>1 DEF There, KeptInv
<1>5. CASE UNCHANGED vars
  BY <1>5 DEF vars, diskVars, SentInv
<1>6. ASSUME NEW f \in Folders, NEW how \in {"top", "sub"},
             Doom(f, how) \/ RemoveAll(f) \/ DropEntry(f) \/ DropName(f)
      PROVE  SentInv'
  <2>1. req' = req /\ out' = out /\ faults' = faults
    BY <1>6 DEF Doom, RemoveAll, DropEntry, DropName
  <2>2. \A g \in Folders : doomed'[g] = "no" => doomed[g] = "no"
    BY KeptNext
  <2>3. ASSUME NEW c \in 1..Len(req.children) PROVE req.children[c].id \in Folders
    <3>1. req.children[c] \in Children
      BY <1>0 DEF HandlerInv, RequestInv
    <3> QED
      BY <3>1 DEF Children
  <2>4. req.pc \in Sending => req.children[req.i].id \in Folders
    BY <1>3
  <2> QED
    BY <2>1, <2>2, <2>3, <2>4 DEF SentInv
<1>7. CASE ServeMetadata \/ GetFolderName
  <2>1. ASSUME ServeMetadata PROVE req'.pc = "name"
    BY <2>1 DEF ServeMetadata, Moves, NoRequest
  <2>2. ASSUME GetFolderName PROVE req'.pc = "stat"
    BY <1>0, <2>2 DEF GetFolderName, Moves, HandlerInv, RequestInv, Slots
  <2> QED
    BY <1>7, <2>1, <2>2 DEF SentInv, Sending
<1>8. CASE (\E f \in Folders : ServeSingleMetadata(f)) \/ GetFolderInfo \/ ErrorResponse
  <2>1. ASSUME NEW f \in Folders, ServeSingleMetadata(f) PROVE req'.kind # "list"
    BY <2>1 DEF ServeSingleMetadata, Moves, NoRequest
  <2>2. ASSUME GetFolderInfo PROVE req'.kind # "list"
    BY <1>0, <2>2 DEF GetFolderInfo, Moves, ListedInv, Listing, Sending, HandlerInv, RequestInv, Slots
  <2>3. ASSUME ErrorResponse PROVE req'.kind # "list"
    BY <1>0, <2>3 DEF ErrorResponse, Moves, ListedInv, Listing, Sending, HandlerInv, RequestInv, Slots
  <2> QED
    BY <1>8, <2>1, <2>2, <2>3 DEF SentInv
<1>9. CASE IsLeaf
  <2>1. req'.pc \in {"leaf", "readdir", "error", "name"}
    BY <1>0, <1>9 DEF IsLeaf, AfterIsLeaf, NextInfo, Moves, HandlerInv, RequestInv, Slots
  <2> QED
    BY <2>1 DEF SentInv, Sending
<1>10. CASE ReadDir
  <2>1. PICK names \in Listings(meta[Child]) :
          LET child == [id |-> Child, named |-> req.name, files |-> names]
              r == [req EXCEPT !.children = Append(@, child)]
          IN  req' = IF req.kind = "list" THEN NextInfo(r) ELSE [r EXCEPT !.pc = "stat"]
    BY <1>10 DEF ReadDir, Moves
  <2>2. req'.pc \in {"name", "stat"}
    BY <1>0, <2>1 DEF NextInfo, HandlerInv, RequestInv, Slots
  <2> QED
    BY <2>2 DEF SentInv, Sending
<1>11. CASE WriteCount
  <2>1. req'.pc = "child" /\ req'.i = 1 /\ req'.children = req.children
    BY <1>0, <1>11 DEF WriteCount, Moves, HandlerInv, RequestInv, Slots
  <2>2. \A c \in 1..Len(req.children) : ~(c < 1)
    BY <1>0 DEF HandlerInv, RequestInv
  <2> QED
    BY <2>1, <2>2 DEF SentInv, Sending
(* The head of the child, and none of its files yet. *)
<1>12. CASE WriteChild
  <2> DEFINE c == req.children[req.i]
  <2>1. /\ req'.kind = req.kind /\ req'.i = req.i /\ req'.children = req.children
        /\ req'.pc = "file" /\ req'.files = c.files /\ faults' = faults /\ doomed' = doomed
        /\ req.pc = "child" /\ req.i \in 1..Len(req.children)
    BY <1>0, <1>12 DEF WriteChild, Moves, diskVars, HandlerInv, RequestInv, Slots
  <2>2. ASSUME req.kind = "list", faults = 0 PROVE BehindSent(req', out') /\ HereSent(req', out')
    <3> DEFINE x == <<Field("id", c.id), Field("hasChildren", 0), Field("size", 0),
                      Field("files", Len(c.files))>>
    <3>1. out' = out \o x
      BY <1>12, <2>2 DEF WriteChild, Emit
    <3>2. c \in Children
      BY <1>0, <2>1 DEF HandlerInv, RequestInv
    <3>3. c.id \in Folders /\ c.files \in Seq(Files)
      BY <3>2 DEF Children
    <3>4. x \in Seq(Fields)
      <4>1. c.id \in Nat /\ Len(c.files) \in Nat
        BY <3>3 DEF Folders
      <4>2. \A v \in Nat : \A type \in {"id", "hasChildren", "size", "files"} : Field(type, v) \in Fields
        BY DEF Fields, Field
      <4> HIDE DEF c
      <4> QED
        BY <4>1, <4>2
    <3>5. BehindSent(req, out')
      BY <1>0, <1>2, <2>1, <2>2, <3>1, <3>4, BehindStays
    <3>6. ASSUME doomed[c.id] = "no" PROVE PartAt(req', out', c.id)
      <4>1. c.files = [m \in Files |-> m]
        BY <2>1, <2>2, <3>6 DEF ListedInv
      <4>2. Len(c.files) = Len(FileSizes)
        BY <4>1, ServeAssumption DEF Files
      <4> QED
        BY <1>0, <2>1, <3>1, <3>3, <4>1, <4>2, PartBegins
    <3> QED
      BY <2>1, <3>5, <3>6 DEF BehindSent, HereSent
  <2> QED
    BY <1>1, <2>1, <2>2 DEF Sending
(* All children are behind the index. *)
<1>13. CASE WriteDone
  <2>1. /\ req'.kind = req.kind /\ req'.pc = "done" /\ faults' = faults /\ doomed' = doomed /\ out' = out
        /\ req.pc = "child" /\ \A c \in 1..Len(req.children) : c < req.i
    BY <1>0, <1>13 DEF WriteDone, Moves, diskVars, HandlerInv, RequestInv, Slots
  <2>2. ASSUME req.kind = "list", faults = 0, NEW f \in Folders, doomed[f] = "no" PROVE Framed(out, f)
    <3>1. PICK c \in 1..Len(req.children) : req.children[c].id = f
      BY <2>1, <2>2 DEF ListedInv
    <3> QED
      BY <1>2, <2>1, <2>2, <3>1 DEF BehindSent
  <2> QED
    BY <2>1, <2>2 DEF SentInv, Sending
<1>14. CASE FilesDone
  <2>1. /\ req'.kind = req.kind /\ req'.i = req.i + 1 /\ req'.children = req.children
        /\ req'.pc = "child" /\ faults' = faults /\ doomed' = doomed /\ out' = out
        /\ req.pc = "file" /\ req.files = <<>>
    BY <1>0, <1>14 DEF FilesDone, NextChild, Moves, diskVars, HandlerInv, RequestInv, Slots
  <2>2. ASSUME req.kind = "list", faults = 0 PROVE BehindSent(req', out') /\ HereSent(req', out')
    <3>1. BehindSent(req, out) /\ HereSent(req, out)
      BY <1>2, <2>1, <2>2 DEF Sending
    <3>2. doomed[req.children[req.i].id] = "no" => Framed(out, req.children[req.i].id)
      BY <1>0, <2>1, <3>1, PartFramed DEF HereSent, Sending
    <3>3. BehindSent(req', out)
      BY <1>3, <2>1, <3>1, <3>2, BehindMoves DEF Sending
    <3> QED
      BY <2>1, <3>3 DEF HereSent, Sending
  <2> QED
    BY <1>1, <2>1, <2>2
<1>15. CASE WriteFileHead
  <2> DEFINE m == Head(req.files)
  <2>1. req.pc = "file" /\ req.pc \in Sending /\ req.files # <<>> /\ faults' = faults /\ doomed' = doomed
    BY <1>15 DEF WriteFileHead, Moves, diskVars, Sending
  <2>2. m \in Files /\ m \in Nat /\ FileSizes[m] \in Nat
    <3>1. m \in Files
      BY <1>3, <2>1
    <3> QED
      BY <3>1, SizeOf
  <2>3. CASE There
    <3> DEFINE x == <<Field("name", m), Field("length", FileSizes[m])>>
    <3>1. out' = out \o x /\ x \in Seq(Fields)
      BY <1>15, <2>2, <2>3 DEF WriteFileHead, Emit, Fields, Field
    <3>2. /\ req'.kind = req.kind /\ req'.i = req.i /\ req'.children = req.children
          /\ req'.pc = "open" /\ req'.files = req.files
      BY <1>0, <1>15, <2>3 DEF WriteFileHead, Moves, HandlerInv, RequestInv, Slots
    <3>3. ASSUME req.kind = "list", faults = 0 PROVE BehindSent(req', out') /\ HereSent(req', out')
      <4>1. BehindSent(req, out) /\ HereSent(req, out)
        BY <1>2, <2>1, <3>3
      <4>2. BehindSent(req, out')
        BY <1>0, <3>1, <4>1, BehindStays
      <4>3. doomed[req.children[req.i].id] = "no" => PartAt(req', out', req.children[req.i].id)
        BY <1>0, <1>3, <2>1, <3>1, <3>2, <4>1, PartNamed DEF HereSent
      <4> QED
        BY <3>2, <4>2, <4>3 DEF BehindSent, HereSent
    <3> QED
      BY <1>1, <2>1, <3>2, <3>3 DEF Sending
  <2>4. CASE ~There
    <3> DEFINE x == <<Field("name", m)>>
    <3>1. out' = out \o x /\ x \in Seq(Fields)
      BY <1>15, <2>2, <2>4 DEF WriteFileHead, Emit, Fields, Field
    <3>2. /\ req'.kind = req.kind /\ req'.i = req.i + 1 /\ req'.children = req.children
          /\ req'.pc = "child"
      BY <1>0, <1>15, <2>4 DEF WriteFileHead, NextChild, Moves, HandlerInv, RequestInv, Slots
    <3>3. ASSUME req.kind = "list", faults = 0 PROVE BehindSent(req', out') /\ HereSent(req', out')
      <4>1. BehindSent(req, out)
        BY <1>2, <2>1, <3>3
      <4>2. BehindSent(req, out')
        BY <1>0, <3>1, <4>1, BehindStays
      <4>3. BehindSent(req', out')
        BY <1>3, <1>4, <2>1, <2>4, <3>2, <4>2, BehindMoves
      <4> QED
        BY <3>2, <4>3 DEF HereSent, Sending
    <3> QED
      BY <1>1, <2>1, <3>2, <3>3
  <2> QED
    BY <2>3, <2>4
<1>16. CASE OpenFile
  <2>1. /\ req.pc = "open" /\ req.pc \in Sending /\ req.files # <<>>
        /\ faults' = faults /\ doomed' = doomed /\ out' = out
    BY <1>0, <1>16 DEF OpenFile, Moves, diskVars, Sending, HandlerInv
  <2>2. CASE There
    <3>1. /\ req'.kind = req.kind /\ req'.i = req.i /\ req'.children = req.children
          /\ req'.pc = "data" /\ req'.files = req.files /\ req'.size = FileSizes[Head(req.files)]
      BY <1>0, <1>16, <2>2 DEF OpenFile, Moves, HandlerInv, RequestInv, Slots
    <3>2. ASSUME req.kind = "list", faults = 0 PROVE BehindSent(req', out') /\ HereSent(req', out')
      <4>1. BehindSent(req, out) /\ HereSent(req, out)
        BY <1>2, <2>1, <3>2
      <4>2. doomed[req.children[req.i].id] = "no" => PartAt(req', out, req.children[req.i].id)
        BY <1>0, <1>3, <2>1, <3>1, <4>1, PartOpened DEF HereSent
      <4> QED
        BY <2>1, <3>1, <4>1, <4>2 DEF BehindSent, HereSent
    <3> QED
      BY <1>1, <2>1, <3>1, <3>2 DEF Sending
  <2>3. CASE ~There
    <3>1. /\ req'.kind = req.kind /\ req'.i = req.i + 1 /\ req'.children = req.children
          /\ req'.pc = "child"
      BY <1>0, <1>16, <2>3 DEF OpenFile, NextChild, Moves, HandlerInv, RequestInv, Slots
    <3>2. ASSUME req.kind = "list", faults = 0 PROVE BehindSent(req', out') /\ HereSent(req', out')
      <4>1. BehindSent(req, out)
        BY <1>2, <2>1, <3>2
      <4>2. BehindSent(req', out)
        BY <1>3, <1>4, <2>1, <2>3, <3>1, <4>1, BehindMoves
      <4> QED
        BY <2>1, <3>1, <4>2 DEF HereSent, Sending
    <3> QED
      BY <1>1, <2>1, <3>1, <3>2
  <2> QED
    BY <2>2, <2>3
<1>17. CASE WriteFile
  <2> DEFINE n == IF req.size < Buffer THEN req.size ELSE Buffer
  <2>1. /\ req.pc = "data" /\ req.pc \in Sending /\ req.files # <<>>
        /\ faults' = faults /\ doomed' = doomed
    BY <1>0, <1>17 DEF WriteFile, Moves, diskVars, Sending, HandlerInv
  <2>2. req.size \in Nat /\ Buffer \in Nat \ {0}
    BY <1>0, ServeAssumption DEF HandlerInv, RequestInv
  <2>3. CASE req.size > 0
    <3> DEFINE x == <<Data(Head(req.files), n)>>
    <3>1. out' = out \o x /\ req' = [req EXCEPT !.size = req.size - n]
      BY <1>17, <2>2, <2>3 DEF WriteFile, Emit, Moves
    <3>2. /\ req'.kind = req.kind /\ req'.i = req.i /\ req'.children = req.children
          /\ req'.pc = "data" /\ req'.files = req.files /\ req'.size = req.size - n
      BY <1>0, <2>1, <3>1 DEF HandlerInv, RequestInv, Slots
    <3>3. x \in Seq(Fields)
      <4>1. Head(req.files) \in Files /\ n \in Nat
        BY <1>3, <2>1, <2>2
      <4> QED
        BY <4>1 DEF Fields, Data
    <3>4. ASSUME req.kind = "list", faults = 0 PROVE BehindSent(req', out') /\ HereSent(req', out')
      <4>1. BehindSent(req, out) /\ HereSent(req, out)
        BY <1>2, <2>1, <3>4
      <4>2. BehindSent(req, out')
        BY <1>0, <3>1, <3>3, <4>1, BehindStays
      <4>3. doomed[req.children[req.i].id] = "no" => PartAt(req', out', req.children[req.i].id)
        BY <1>0, <1>3, <2>1, <2>3, <3>1, <3>2, <4>1, PartFilled DEF HereSent
      <4> QED
        BY <3>2, <4>2, <4>3 DEF BehindSent, HereSent
    <3> QED
      BY <1>1, <2>1, <3>2, <3>4
  <2>4. CASE req.size = 0
    <3>1. out' = out /\ req' = NextFile(req)
      BY <1>17, <2>4 DEF WriteFile, Moves
    <3>2. /\ req'.kind = req.kind /\ req'.i = req.i /\ req'.children = req.children
          /\ req'.pc = "file" /\ req'.files = Tail(req.files)
      BY <1>0, <3>1 DEF NextFile, HandlerInv, RequestInv, Slots
    <3>3. ASSUME req.kind = "list", faults = 0 PROVE BehindSent(req', out') /\ HereSent(req', out')
      <4>1. BehindSent(req, out) /\ HereSent(req, out)
        BY <1>2, <2>1, <3>3
      <4>2. doomed[req.children[req.i].id] = "no" => PartAt(req', out, req.children[req.i].id)
        BY <1>0, <1>3, <2>1, <2>4, <3>2, <4>1, PartSent DEF HereSent
      <4> QED
        BY <3>1, <3>2, <4>1, <4>2 DEF BehindSent, HereSent
    <3> QED
      BY <1>1, <2>1, <3>2, <3>3 DEF Sending
  <2> QED
    BY <2>2, <2>3, <2>4
<1>18. CASE ReadFails \/ Disconnect
  <2>1. faults' # 0
    BY <1>0, <1>18 DEF ReadFails, Disconnect, DiskInv
  <2> QED
    BY <2>1 DEF SentInv
<1> QED
  BY <1>5, <1>6, <1>7, <1>8, <1>9, <1>10, <1>11, <1>12, <1>13, <1>14, <1>15, <1>16, <1>17, <1>18
     DEF ServeNext, Handler

-----------------------------------------------------------------------------
(* A child that no deletion has touched is in every finished reply of        *)
(* /list/files, its head right, its files complete and in their order, with  *)
(* nothing in between, for any number of children, any files and sizes and   *)
(* any buffer: what other children lose (route_handler.go:148) costs it      *)
(* nothing.                                                                  *)
THEOREM UntouchedServed == ServeSpec => []SurvivorsServed
<1>1. ServeInit => KeptInv /\ ListedInv /\ SentInv
  BY DEF ServeInit, NoRequest, KeptInv, ListedInv, SentInv
<1>2. IInv /\ KeptInv /\ ListedInv /\ SentInv /\ [ServeNext]_vars => (KeptInv /\ ListedInv /\ SentInv)'
  BY KeptNext, ListedNext, SentNext
<1>3. SentInv => SurvivorsServed
  BY DEF SentInv, SurvivorsServed, Framed
<1> QED
  BY Inductive, <1>1, <1>2, <1>3, PTL DEF ServeSpec
==============================================================================
