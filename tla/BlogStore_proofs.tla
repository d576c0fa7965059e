-------------------------- MODULE BlogStore_proofs --------------------------
(***************************************************************************)
(* Proofs about BlogStore for any blogs, posts, admins and queues: the       *)
(* counters of categories and tags are right after every script, the ids are *)
(* the blogs there are, and the search index follows Redis as long as no two *)
(* units of work on a blog overlap.                                          *)
(***************************************************************************)
EXTENDS BlogStore, FiniteSetTheorems, TLAPS

\* What NullAssumption says of each set Null is compared with.
LEMMA NullApart ==
    /\ Null \notin Blogs /\ Null \notin Posts /\ Null \notin Contents /\ Null \notin Document
    /\ Null \notin Operation /\ Null \notin Run /\ Null \notin Nat
    /\ ALL \notin Blogs /\ SyncThread \notin Admins
  BY NullAssumption

\* What is counted up stays a counter with integer scores.
LEMMA CountedType ==
    ASSUME NEW K, NEW z, DOMAIN z \subseteq K, z \in [DOMAIN z -> Int], NEW m \in K, NEW k \in Nat
    PROVE  LET c == Counted(z, m, k) IN DOMAIN c \subseteq K /\ c \in [DOMAIN c -> Int]
<1>1. CASE k = 0
  BY <1>1 DEF Counted
<1>2. CASE k # 0
  BY <1>2 DEF Counted
<1> QED
  BY <1>1, <1>2

\* So does what is counted down.
LEMMA UncountedType ==
    ASSUME NEW K, NEW z, DOMAIN z \subseteq K, z \in [DOMAIN z -> Int], NEW m, NEW k \in Nat
    PROVE  LET c == Uncounted(z, m, k) IN DOMAIN c \subseteq K /\ c \in [DOMAIN c -> Int]
<1>1. CASE k = 0 \/ m \notin DOMAIN z
  BY <1>1 DEF Uncounted
<1>2. CASE ~(k = 0 \/ m \notin DOMAIN z) /\ z[m] \in 1 .. k
  BY <1>2 DEF Uncounted
<1>3. CASE ~(k = 0 \/ m \notin DOMAIN z) /\ z[m] \notin 1 .. k
  <2>1. Uncounted(z, m, k) = [z EXCEPT ![m] = @ - k] /\ z[m] \in Int
    BY <1>3 DEF Uncounted
  <2>2. [z EXCEPT ![m] = @ - k] \in [DOMAIN z -> Int]
    BY <1>3, <2>1
  <2>3. DOMAIN [z EXCEPT ![m] = @ - k] = DOMAIN z
    OBVIOUS
  <2> QED
    BY <2>1, <2>2, <2>3
<1> QED
  BY <1>1, <1>2, <1>3

\* The counter of tags keeps its type in the scripts.
LEMMA TagsCountedType ==
    ASSUME NEW z, DOMAIN z \subseteq Tags, z \in [DOMAIN z -> Int], NEW p \in Posts
    PROVE  /\ LET c == TagsCounted(z, p) IN DOMAIN c \subseteq Tags /\ c \in [DOMAIN c -> Int]
           /\ LET c == TagsUncounted(z, p) IN DOMAIN c \subseteq Tags /\ c \in [DOMAIN c -> Int]
<1>1. p.tags \in [Tags -> Nat]
  BY PostsAssumption
<1>2. ASSUME NEW t \in DOMAIN z \cup {x \in Tags : p.tags[x] > 0}
      PROVE  Counted(z, t, p.tags[t])[t] \in Int
  <2>1. t \in Tags /\ p.tags[t] \in Nat
    BY <1>1, <1>2
  <2>2. CASE p.tags[t] = 0
    BY <1>2, <2>1, <2>2 DEF Counted
  <2>3. CASE p.tags[t] # 0
    <3>1. Counted(z, t, p.tags[t])[t] = IF t \in DOMAIN z THEN z[t] + p.tags[t] ELSE p.tags[t]
      BY <2>3 DEF Counted
    <3> QED
      BY <2>1, <3>1
  <2> QED
    BY <2>2, <2>3
<1>3. ASSUME NEW t \in DOMAIN z, t \in DOMAIN Uncounted(z, t, p.tags[t])
      PROVE  Uncounted(z, t, p.tags[t])[t] \in Int
  <2>1. p.tags[t] \in Nat
    BY <1>1
  <2> QED
    BY <1>3, <2>1, UncountedType
<1> QED
  BY <1>2, <1>3 DEF TagsCounted, TagsUncounted

-----------------------------------------------------------------------------
(* Type correctness                                                        *)

LEMMA CallType ==
    ASSUME TypeOK, Call
    PROVE  calls' \in 0 .. MaxCalls
  BY BoundsAssumption DEF Call, TypeOK

\* Whatever work begins, disturbed is a set of blogs.
LEMMA BeginsType ==
    ASSUME TypeOK, NEW b \in Blogs, Begins(b)
    PROVE  disturbed' \subseteq Blogs
  BY DEF Begins, TypeOK

LEMMA CreateType ==
    ASSUME TypeOK, NEW a \in Admins, NEW b \in Blogs, NEW p \in Posts, NEW c \in Contents,
           Create(a, b, p, c)
    PROVE  TypeOK'
<1>1. p.category \in Categories
  BY PostsAssumption
<1>2. data' \in [Blogs -> Posts \cup {Null}] /\ content' \in [Blogs -> Contents \cup {Null}] /\ ids' \subseteq Blogs
  BY DEF Create, Stored, TypeOK
<1>3. DOMAIN categories' \subseteq Categories /\ categories' \in [DOMAIN categories' -> Int]
  BY <1>1, CountedType DEF Create, TypeOK
<1>4. DOMAIN tags' \subseteq Tags /\ tags' \in [DOMAIN tags' -> Int]
  BY TagsCountedType DEF Create, TypeOK
<1>5. views' \in [Blogs -> Nat \cup {Null}]
  BY DEF Create, TypeOK
<1>6. [op |-> "index", id |-> b, doc |-> [data |-> p, content |-> c]] \in Operation
  BY DEF Operation, Document
<1>7. pending' \in [Admins -> Operation \cup {Null}]
  BY <1>6 DEF Create, TypeOK
<1>8. calls' \in 0 .. MaxCalls /\ disturbed' \subseteq Blogs /\ created' \subseteq Blogs
  BY CallType, BeginsType DEF Create, TypeOK
<1> QED
  BY <1>2, <1>3, <1>4, <1>5, <1>7, <1>8 DEF Create, TypeOK, syncVars

LEMMA UpdateType ==
    ASSUME TypeOK, NEW a \in Admins, NEW b \in Blogs, NEW p \in Posts, NEW c \in Contents,
           Update(a, b, p, c)
    PROVE  TypeOK'
<1>1. p.category \in Categories /\ data[b] \in Posts
  BY PostsAssumption DEF Update, TypeOK
<1>2. data' \in [Blogs -> Posts \cup {Null}] /\ content' \in [Blogs -> Contents \cup {Null}] /\ ids' \subseteq Blogs
  BY DEF Update, Stored, TypeOK
<1>3. DOMAIN categories' \subseteq Categories /\ categories' \in [DOMAIN categories' -> Int]
  <2> DEFINE left == Uncounted(categories, data[b].category, 1)
  <2>1. DOMAIN left \subseteq Categories /\ left \in [DOMAIN left -> Int]
    BY UncountedType DEF TypeOK
  <2>2. \/ categories' = categories
        \/ categories' = Counted(left, p.category, 1)
    BY DEF Update
  <2> HIDE DEF left
  <2>3. CASE categories' = categories
    BY <2>3 DEF TypeOK
  <2>4. CASE categories' = Counted(left, p.category, 1)
    <3> DEFINE right == Counted(left, p.category, 1)
    <3>1. DOMAIN right \subseteq Categories /\ right \in [DOMAIN right -> Int]
      BY <1>1, <2>1, CountedType
    <3> QED
      BY <2>4, <3>1
  <2> QED
    BY <2>2, <2>3, <2>4
<1>4. DOMAIN tags' \subseteq Tags /\ tags' \in [DOMAIN tags' -> Int]
  <2> DEFINE left == TagsUncounted(tags, data[b])
  <2>1. DOMAIN left \subseteq Tags /\ left \in [DOMAIN left -> Int]
    BY <1>1, TagsCountedType DEF TypeOK
  <2>2. tags' = TagsCounted(left, p)
    BY DEF Update, Recounted
  <2> HIDE DEF left
  <2> QED
    BY <2>1, <2>2, TagsCountedType
<1>5. [op |-> "update", id |-> b, doc |-> [data |-> p, content |-> c]] \in Operation
  BY DEF Operation, Document
<1>6. pending' \in [Admins -> Operation \cup {Null}]
  BY <1>5 DEF Update, TypeOK
<1>7. calls' \in 0 .. MaxCalls /\ disturbed' \subseteq Blogs
  BY CallType, BeginsType DEF Update
<1> QED
  BY <1>2, <1>3, <1>4, <1>6, <1>7 DEF Update, TypeOK, syncVars

LEMMA DeleteType ==
    ASSUME TypeOK, NEW a \in Admins, NEW b \in Blogs, Delete(a, b)
    PROVE  TypeOK'
<1>1. data[b] \in Posts
  BY DEF Delete, TypeOK
<1>2. data' \in [Blogs -> Posts \cup {Null}] /\ content' \in [Blogs -> Contents \cup {Null}] /\ ids' \subseteq Blogs
  BY DEF Delete, Removed, TypeOK
<1>3. DOMAIN categories' \subseteq Categories /\ categories' \in [DOMAIN categories' -> Int]
  BY UncountedType DEF Delete, TypeOK
<1>4. DOMAIN tags' \subseteq Tags /\ tags' \in [DOMAIN tags' -> Int]
  BY <1>1, TagsCountedType DEF Delete, TypeOK
<1>5. views' \in [Blogs -> Nat \cup {Null}]
  BY DEF Delete, Removed, TypeOK
<1>6. [op |-> "delete", id |-> b, doc |-> Null] \in Operation
  BY DEF Operation
<1>7. pending' \in [Admins -> Operation \cup {Null}]
  BY <1>6 DEF Delete, TypeOK
<1>8. calls' \in 0 .. MaxCalls /\ disturbed' \subseteq Blogs
  BY CallType, BeginsType DEF Delete
<1> QED
  BY <1>2, <1>3, <1>4, <1>5, <1>7, <1>8 DEF Delete, TypeOK, syncVars

LEMMA CallIndexType ==
    ASSUME TypeOK, NEW a \in Admins, CallIndex(a)
    PROVE  TypeOK'
<1> DEFINE o == pending[a]
<1>1. o \in Operation /\ o.id \in Blogs /\ o.doc \in Document \cup {Null}
      /\ o.op \in {"index", "update", "delete"}
  BY DEF CallIndex, TypeOK, Operation
<1>2. ASSUME NEW doc PROVE Called(o, doc) \in Document \cup {Null}
  BY <1>1 DEF Called
<1>3. index' \in [Blogs -> Document \cup {Null}]
  BY <1>1, <1>2 DEF CallIndex, TypeOK
<1>4. calls' \in 0 .. MaxCalls /\ disturbed' \subseteq Blogs
  BY <1>1, CallType DEF CallIndex, TypeOK
<1> QED
  BY <1>3, <1>4 DEF CallIndex, TypeOK, redisVars, syncVars

LEMMA SyncType ==
    ASSUME TypeOK, NEW a \in Admins, NEW id \in Blogs \cup {ALL}, Sync(a, id)
    PROVE  TypeOK'
<1> DEFINE job == [id |-> id, todo |-> IF id = ALL THEN ids ELSE {id}]
<1>1. job \in Job /\ Started(job) \in Run
  <2>1. (IF id = ALL THEN ids ELSE {id}) \subseteq Blogs
    BY DEF TypeOK
  <2> QED
    BY <2>1 DEF Job, Run, Started
<1> HIDE DEF job
<1>2. calls' \in 0 .. MaxCalls
  BY CallType DEF Sync
<1>3. CASE ~Full(queue, SyncQueue) /\ queue' = Append(queue, job) /\ UNCHANGED running
  <2>1. queue' \in Seq(Job) /\ Len(queue') <= SyncQueue
    BY <1>1, <1>3, BoundsAssumption DEF Full, TypeOK
  <2> QED
    BY <1>2, <1>3, <2>1 DEF Sync, TypeOK, redisVars
<1>4. CASE running' = [running EXCEPT ![a] = Started(job)] /\ UNCHANGED queue
  <2>1. running' \in [Threads -> Run \cup {Null}]
    BY <1>1, <1>4 DEF TypeOK
  <2> QED
    BY <1>2, <1>4, <2>1 DEF Sync, TypeOK, redisVars
<1> QED
  BY <1>3, <1>4 DEF Sync, job

LEMMA TakeSyncType ==
    ASSUME TypeOK, TakeSync
    PROVE  TypeOK'
<1>1. Head(queue) \in Job /\ Tail(queue) \in Seq(Job) /\ Len(Tail(queue)) <= SyncQueue
  BY BoundsAssumption DEF TakeSync, TypeOK
<1>2. Started(Head(queue)) \in Run
  BY <1>1 DEF Started, Job, Run
<1>3. running' \in [Threads -> Run \cup {Null}]
  BY <1>2 DEF TakeSync, TypeOK
<1> QED
  BY <1>1, <1>3 DEF TakeSync, TypeOK, redisVars

\* What a thread runs, after each step of it.
LEMMA RunType ==
    ASSUME TypeOK, NEW th \in Threads, running[th] # Null
    PROVE  /\ running[th] \in Run
           /\ running[th].id \in Blogs \cup {ALL} /\ running[th].todo \subseteq Blogs
           /\ running[th].at \in Blogs \cup {Null} /\ running[th].data \in Posts \cup {Null}
           /\ running[th].content \in Contents \cup {Null} /\ running[th].cleared \in BOOLEAN
  BY DEF TypeOK, Run

LEMMA SyncDeleteType ==
    ASSUME TypeOK, NEW th \in Threads, SyncDelete(th)
    PROVE  TypeOK'
<1> DEFINE r == running[th]
<1>1. r \in Run /\ r.id \in Blogs \cup {ALL}
  BY RunType DEF SyncDelete
<1>2. [r EXCEPT !.cleared = TRUE] \in Run
  BY <1>1 DEF Run
<1>3. running' \in [Threads -> Run \cup {Null}]
  BY <1>2 DEF SyncDelete, TypeOK
<1>4. calls' \in 0 .. MaxCalls
  BY CallType DEF SyncDelete, TypeOK
<1>5. index' \in [Blogs -> Document \cup {Null}] /\ disturbed' \subseteq Blogs
  BY <1>1 DEF SyncDelete, TypeOK
<1> QED
  BY <1>3, <1>4, <1>5 DEF SyncDelete, TypeOK, redisVars

LEMMA SyncDataType ==
    ASSUME TypeOK, NEW th \in Threads, NEW b \in Blogs, SyncData(th, b)
    PROVE  TypeOK'
<1> DEFINE r == running[th]
<1>1. r \in Run /\ r.todo \subseteq Blogs
  BY RunType DEF SyncData
<1>2. [r EXCEPT !.todo = @ \ {b}] \in Run
  BY <1>1 DEF Run
<1>3. data[b] # Null => [r EXCEPT !.todo = @ \ {b}, !.at = b, !.data = data[b]] \in Run
  BY <1>1 DEF Run, TypeOK
<1>4. running' \in [Threads -> Run \cup {Null}]
  <2>1. CASE running' = [running EXCEPT ![th].todo = @ \ {b}]
    BY <1>2, <2>1 DEF TypeOK
  <2>2. CASE data[b] # Null
             /\ running' = [running EXCEPT ![th].todo = @ \ {b}, ![th].at = b, ![th].data = data[b]]
    <3>1. running' = [running EXCEPT ![th] = [r EXCEPT !.todo = @ \ {b}, !.at = b, !.data = data[b]]]
      BY <2>2 DEF TypeOK
    <3> QED
      BY <1>3, <2>2, <3>1 DEF TypeOK
  <2> QED
    BY <2>1, <2>2 DEF SyncData
<1>5. disturbed' \subseteq Blogs
  BY DEF SyncData, TypeOK
<1> QED
  BY <1>4, <1>5 DEF SyncData, TypeOK, redisVars

LEMMA SyncContentType ==
    ASSUME TypeOK, NEW th \in Threads, SyncContent(th)
    PROVE  TypeOK'
<1> DEFINE r == running[th]
<1>1. r \in Run /\ r.at \in Blogs
  BY RunType DEF SyncContent
<1>2. content[r.at] \in Contents \cup {Null}
  BY <1>1 DEF TypeOK
<1>3. [r EXCEPT !.at = Null, !.data = Null] \in Run /\ [r EXCEPT !.content = content[r.at]] \in Run
  BY <1>1, <1>2 DEF Run
<1>4. running' \in [Threads -> Run \cup {Null}]
  <2>1. CASE running' = [running EXCEPT ![th].content = content[r.at]]
    BY <1>3, <2>1 DEF TypeOK
  <2>2. CASE running' = [running EXCEPT ![th].at = Null, ![th].data = Null]
    <3>1. running' = [running EXCEPT ![th] = [r EXCEPT !.at = Null, !.data = Null]]
      BY <2>2 DEF TypeOK
    <3> QED
      BY <1>3, <3>1 DEF TypeOK
  <2> QED
    BY <2>1, <2>2 DEF SyncContent
<1> QED
  BY <1>4 DEF SyncContent, TypeOK, redisVars

LEMMA SyncIndexType ==
    ASSUME TypeOK, NEW th \in Threads, SyncIndex(th), running[th].at # Null, running[th].data # Null
    PROVE  TypeOK'
<1> DEFINE r == running[th]
<1>1. r \in Run /\ r.at \in Blogs /\ r.data \in Posts /\ r.content \in Contents
  BY RunType DEF SyncIndex
<1>2. [r EXCEPT !.at = Null, !.data = Null, !.content = Null] \in Run
  BY <1>1 DEF Run
<1>3. running' = [running EXCEPT ![th] = [r EXCEPT !.at = Null, !.data = Null, !.content = Null]]
  BY DEF SyncIndex, TypeOK
<1>4. running' \in [Threads -> Run \cup {Null}]
  BY <1>2, <1>3 DEF TypeOK
<1>5. index' \in [Blogs -> Document \cup {Null}]
  BY <1>1 DEF SyncIndex, TypeOK, Document
<1>6. calls' \in 0 .. MaxCalls /\ disturbed' \subseteq Blogs
  BY <1>1, CallType DEF SyncIndex, TypeOK
<1> QED
  BY <1>4, <1>5, <1>6 DEF SyncIndex, TypeOK, redisVars

LEMMA SyncEndType ==
    ASSUME TypeOK, NEW th \in Threads, SyncEnd(th)
    PROVE  TypeOK'
<1>1. running' \in [Threads -> Run \cup {Null}]
  BY DEF SyncEnd, TypeOK
<1> QED
  BY <1>1 DEF SyncEnd, TypeOK, redisVars

\* The views of a blog are counted from nothing or from a number.
LEMMA ViewedType ==
    ASSUME TypeOK, NEW b \in Blogs
    PROVE  Viewed(b) \in [Blogs -> Nat \cup {Null}]
<1>1. (IF views[b] = Null THEN 1 ELSE views[b] + 1) \in Nat
  BY DEF TypeOK
<1> QED
  BY <1>1 DEF Viewed, TypeOK

LEMMA ViewType ==
    ASSUME TypeOK, NEW b \in Blogs, View(b)
    PROVE  TypeOK'
<1>1. views' \in [Blogs -> Nat \cup {Null}]
  BY ViewedType DEF View, TypeOK
<1>2. viewed' \in Seq(Blogs) /\ Len(viewed') <= ViewQueue
  BY BoundsAssumption DEF View, Full, TypeOK
<1>3. calls' \in 0 .. MaxCalls
  BY CallType DEF View
<1> QED
  BY <1>1, <1>2, <1>3 DEF View, TypeOK, redisVars, syncVars

LEMMA CountViewType ==
    ASSUME TypeOK, CountView
    PROVE  TypeOK'
<1>1. Head(viewed) \in Blogs /\ Tail(viewed) \in Seq(Blogs) /\ Len(Tail(viewed)) <= ViewQueue
  BY BoundsAssumption DEF CountView, TypeOK
<1>2. views' \in [Blogs -> Nat \cup {Null}]
  BY <1>1, ViewedType DEF CountView
<1> QED
  BY <1>1, <1>2 DEF CountView, TypeOK, redisVars, syncVars

LEMMA CrashType ==
    ASSUME TypeOK, Crash
    PROVE  TypeOK'
<1>1. calls' \in 0 .. MaxCalls
  BY CallType DEF Crash
<1>2. <<>> \in Seq(Job) /\ <<>> \in Seq(Blogs) /\ Len(<<>>) = 0
  OBVIOUS
<1> QED
  BY <1>1, <1>2, BoundsAssumption DEF Crash, TypeOK, redisVars

-----------------------------------------------------------------------------
(* The inductive invariant                                                 *)

\* A sync of one blog has that blog to do until it has deleted the document, and what
\* a thread has read belongs to the blog it is at, which it no longer has to do.
JobRight(job) == job.id # ALL => job.todo = {job.id}
RunRight(r) ==
    /\ r.at # Null <=> r.data # Null
    /\ r.content # Null => r.at # Null
    /\ r.at \notin r.todo
    /\ ~r.cleared => r.at = Null
    /\ ~r.cleared => JobRight(r)
SyncsRight ==
    /\ \A i \in 1 .. Len(queue) : JobRight(queue[i])
    /\ \A th \in Threads : running[th] # Null => RunRight(running[th])

\* A thread that has still to call the index runs no sync.
OneAtATime == \A a \in Admins : pending[a] # Null => running[a] = Null

Base == TypeOK /\ IdsRight /\ SyncsRight /\ OneAtATime

\* How a blog whose units of work do not overlap stands with the index: one thread at
\* most is at work on it; if none is, the index follows; a call of the index makes it
\* follow; a sync has read what Redis has, or has deleted the document.
Calls(a, b) == pending[a] # Null /\ pending[a].id = b
Reads(th, b) == running[th] # Null /\ running[th].at = b
Deletes(th, b) ==
    running[th] # Null /\ running[th].id = b /\ running[th].cleared /\ b \in running[th].todo

Alone(b) == \A x, y \in Working(b) : x = y
CallRight(a, b) == Called(pending[a], index[b]) = DocumentOf(b)
ReadRight(th, b) == running[th].data = data[b] /\ running[th].content \in {Null, content[b]}
Follows(b) ==
    b \notin disturbed =>
        /\ Alone(b)
        /\ Working(b) = {} => index[b] = DocumentOf(b)
        /\ \A a \in Admins : Calls(a, b) => CallRight(a, b)
        /\ \A th \in Threads : Reads(th, b) => ReadRight(th, b)
        /\ \A th \in Threads : Deletes(th, b) => index[b] = Null

IndInv == Base /\ \A b \in Blogs : Follows(b)

-----------------------------------------------------------------------------
(* Base is kept                                                            *)

LEMMA BaseInit ==
    ASSUME Init
    PROVE  Base
<1>1. TypeOK
  <2>1. \A K : DOMAIN NoMembers \subseteq K /\ NoMembers \in [DOMAIN NoMembers -> Int]
    BY DEF NoMembers
  <2>2. <<>> \in Seq(Job) /\ <<>> \in Seq(Blogs) /\ Len(<<>>) = 0
    OBVIOUS
  <2> QED
    BY <2>1, <2>2, BoundsAssumption DEF Init, TypeOK
<1>2. IdsRight
  BY DEF Init, IdsRight
<1>3. SyncsRight /\ OneAtATime
  BY DEF Init, SyncsRight, OneAtATime, Threads
<1> QED
  BY <1>1, <1>2, <1>3 DEF Base

\* A request that is idle makes its call of the index to come.
LEMMA RequestSyncs ==
    ASSUME Base, NEW a \in Admins, Idle(a), NEW o, pending' = [pending EXCEPT ![a] = o],
           UNCHANGED syncVars
    PROVE  SyncsRight' /\ OneAtATime'
  BY DEF Base, TypeOK, Idle, SyncsRight, OneAtATime, syncVars

\* A step of a sync changes what its thread runs.
LEMMA RunSyncs ==
    ASSUME Base, NEW th \in Threads, running[th] # Null, NEW r, r # Null => RunRight(r),
           running' = [running EXCEPT ![th] = r], UNCHANGED <<pending, queue>>
    PROVE  SyncsRight' /\ OneAtATime'
<1>1. \A x \in Threads : running'[x] = IF x = th THEN r ELSE running[x]
  BY DEF Base, TypeOK
<1>2. \A x \in Threads : running'[x] # Null => RunRight(running'[x])
  BY <1>1 DEF Base, SyncsRight
<1>3. OneAtATime'
  BY <1>1 DEF Base, OneAtATime, Threads
<1> QED
  BY <1>2, <1>3 DEF Base, SyncsRight

LEMMA CreateBase ==
    ASSUME Base, NEW a \in Admins, NEW b \in Blogs, NEW p \in Posts, NEW c \in Contents,
           Create(a, b, p, c)
    PROVE  Base'
<1>1. TypeOK'
  BY CreateType DEF Base
<1>2. IdsRight'
  BY NullApart DEF Base, TypeOK, IdsRight, Create, Stored
<1>3. SyncsRight' /\ OneAtATime'
  BY RequestSyncs DEF Create
<1> QED
  BY <1>1, <1>2, <1>3 DEF Base

LEMMA UpdateBase ==
    ASSUME Base, NEW a \in Admins, NEW b \in Blogs, NEW p \in Posts, NEW c \in Contents,
           Update(a, b, p, c)
    PROVE  Base'
<1>1. TypeOK'
  BY UpdateType DEF Base
<1>2. IdsRight'
  BY NullApart DEF Base, TypeOK, IdsRight, Update, Stored
<1>3. SyncsRight' /\ OneAtATime'
  BY RequestSyncs DEF Update
<1> QED
  BY <1>1, <1>2, <1>3 DEF Base

LEMMA DeleteBase ==
    ASSUME Base, NEW a \in Admins, NEW b \in Blogs, Delete(a, b)
    PROVE  Base'
<1>1. TypeOK'
  BY DeleteType DEF Base
<1>2. IdsRight'
  BY DEF Base, TypeOK, IdsRight, Delete, Removed
<1>3. SyncsRight' /\ OneAtATime'
  BY RequestSyncs DEF Delete
<1> QED
  BY <1>1, <1>2, <1>3 DEF Base

LEMMA CallIndexBase ==
    ASSUME Base, NEW a \in Admins, CallIndex(a)
    PROVE  Base'
<1>1. TypeOK'
  BY CallIndexType DEF Base
<1>2. IdsRight' /\ SyncsRight'
  BY DEF Base, IdsRight, SyncsRight, CallIndex, redisVars, syncVars
<1>3. OneAtATime'
  BY DEF Base, TypeOK, OneAtATime, CallIndex, syncVars
<1> QED
  BY <1>1, <1>2, <1>3 DEF Base

LEMMA SyncBase ==
    ASSUME Base, NEW a \in Admins, NEW id \in Blogs \cup {ALL}, Sync(a, id)
    PROVE  Base'
<1> DEFINE job == [id |-> id, todo |-> IF id = ALL THEN ids ELSE {id}]
<1>1. TypeOK'
  BY SyncType DEF Base
<1>2. IdsRight'
  BY DEF Base, IdsRight, Sync, redisVars
<1>3. JobRight(job) /\ RunRight(Started(job)) /\ Started(job) # Null
  <2>1. JobRight(job)
    BY DEF JobRight
  <2>2. Started(job) \in Run
    BY DEF Base, TypeOK, Run, Started
  <2>3. Null \notin job.todo
    BY NullApart DEF Base, TypeOK
  <2> QED
    BY <2>1, <2>2, <2>3, NullApart DEF RunRight, Started, JobRight
<1> HIDE DEF job
<1>4. CASE queue' = Append(queue, job) /\ UNCHANGED running
  <2>1. \A i \in 1 .. Len(queue') : JobRight(queue'[i])
    <3>1. Len(queue') = Len(queue) + 1
          /\ \A i \in 1 .. Len(queue') : queue'[i] = IF i <= Len(queue) THEN queue[i] ELSE job
      BY <1>4 DEF Base, TypeOK
    <3> QED
      BY <1>3, <3>1 DEF Base, TypeOK, SyncsRight
  <2> QED
    BY <1>1, <1>2, <1>4, <2>1 DEF Base, SyncsRight, OneAtATime, Sync
<1>5. CASE running' = [running EXCEPT ![a] = Started(job)] /\ UNCHANGED queue
  <2>1. \A th \in Threads : running'[th] # Null => RunRight(running'[th])
    BY <1>3, <1>5 DEF Base, TypeOK, SyncsRight
  <2>2. OneAtATime'
    BY <1>5 DEF Base, TypeOK, OneAtATime, Sync, Idle, Threads
  <2> QED
    BY <1>1, <1>2, <1>5, <2>1, <2>2 DEF Base, SyncsRight
<1> QED
  BY <1>4, <1>5 DEF Sync, job

LEMMA TakeSyncBase ==
    ASSUME Base, TakeSync
    PROVE  Base'
<1>1. TypeOK'
  BY TakeSyncType DEF Base
<1>2. IdsRight'
  BY DEF Base, IdsRight, TakeSync, redisVars
<1>3. Head(queue) \in Job /\ JobRight(Head(queue))
  BY DEF Base, TypeOK, SyncsRight, TakeSync
<1>4. RunRight(Started(Head(queue)))
  <2>1. Null \notin Head(queue).todo
    BY <1>3, NullApart DEF Job
  <2> QED
    BY <1>3, <2>1 DEF RunRight, Started, JobRight
<1>5. \A th \in Threads : running'[th] # Null => RunRight(running'[th])
  BY <1>4 DEF Base, TypeOK, SyncsRight, TakeSync
<1>6. \A i \in 1 .. Len(queue') : JobRight(queue'[i])
  <2>1. /\ Len(queue) \in Nat /\ Len(queue') = Len(queue) - 1
        /\ \A i \in 1 .. Len(queue') : queue'[i] = queue[i + 1]
    BY DEF Base, TypeOK, TakeSync
  <2>2. ASSUME NEW i \in 1 .. Len(queue') PROVE JobRight(queue'[i])
    <3>1. i + 1 \in 1 .. Len(queue) /\ queue'[i] = queue[i + 1]
      BY <2>1, <2>2
    <3> QED
      BY <3>1 DEF Base, SyncsRight
  <2> QED
    BY <2>2
<1>7. OneAtATime'
  BY NullApart DEF Base, TypeOK, OneAtATime, TakeSync, Threads
<1> QED
  BY <1>1, <1>2, <1>5, <1>6, <1>7 DEF Base, SyncsRight

LEMMA SyncDeleteBase ==
    ASSUME Base, NEW th \in Threads, SyncDelete(th)
    PROVE  Base'
<1> DEFINE r == [running[th] EXCEPT !.cleared = TRUE]
<1>1. TypeOK'
  BY SyncDeleteType DEF Base
<1>2. IdsRight'
  BY DEF Base, IdsRight, SyncDelete, redisVars
<1>3. running[th] \in Run /\ RunRight(running[th])
  BY RunType DEF Base, SyncsRight, SyncDelete
<1>4. /\ r.id = running[th].id /\ r.todo = running[th].todo /\ r.at = running[th].at
      /\ r.data = running[th].data /\ r.content = running[th].content /\ r.cleared
  BY <1>3 DEF Run
<1> HIDE DEF r
<1>5. RunRight(r)
  BY <1>3, <1>4 DEF RunRight
<1>6. SyncsRight' /\ OneAtATime'
  BY <1>5, RunSyncs DEF SyncDelete, r
<1> QED
  BY <1>1, <1>2, <1>6 DEF Base

LEMMA SyncDataBase ==
    ASSUME Base, NEW th \in Threads, NEW b \in Blogs, SyncData(th, b)
    PROVE  Base'
<1> DEFINE r == [running[th] EXCEPT !.todo = @ \ {b}]
           q == [running[th] EXCEPT !.todo = @ \ {b}, !.at = b, !.data = data[b]]
<1>1. TypeOK'
  BY SyncDataType DEF Base
<1>2. IdsRight'
  BY DEF Base, IdsRight, SyncData, redisVars
<1>3. running[th] \in Run /\ RunRight(running[th]) /\ running[th].cleared
  BY RunType DEF Base, SyncsRight, SyncData
<1>4. CASE data[b] = Null /\ running' = [running EXCEPT ![th].todo = @ \ {b}]
  <2>1. /\ r.id = running[th].id /\ r.todo = running[th].todo \ {b} /\ r.at = running[th].at
        /\ r.data = running[th].data /\ r.content = running[th].content /\ r.cleared
    BY <1>3 DEF Run
  <2>2. running' = [running EXCEPT ![th] = r]
    BY <1>4
  <2> HIDE DEF r
  <2>3. RunRight(r)
    BY <1>3, <2>1 DEF RunRight
  <2>4. SyncsRight' /\ OneAtATime'
    BY <2>2, <2>3, RunSyncs DEF SyncData
  <2> QED
    BY <1>1, <1>2, <2>4 DEF Base
<1>5. CASE data[b] # Null
           /\ running' = [running EXCEPT ![th].todo = @ \ {b}, ![th].at = b, ![th].data = data[b]]
  <2>1. /\ q.id = running[th].id /\ q.todo = running[th].todo \ {b} /\ q.at = b
        /\ q.data = data[b] /\ q.content = running[th].content /\ q.cleared
    BY <1>3 DEF Run
  <2>2. running' = [running EXCEPT ![th] = q]
    BY <1>5 DEF Base, TypeOK
  <2> HIDE DEF q
  <2>3. RunRight(q)
    BY <1>3, <1>5, <2>1, NullApart DEF RunRight
  <2>4. SyncsRight' /\ OneAtATime'
    BY <2>2, <2>3, RunSyncs DEF SyncData
  <2> QED
    BY <1>1, <1>2, <2>4 DEF Base
<1> QED
  BY <1>4, <1>5 DEF SyncData

LEMMA SyncContentBase ==
    ASSUME Base, NEW th \in Threads, SyncContent(th)
    PROVE  Base'
<1> DEFINE r == [running[th] EXCEPT !.at = Null, !.data = Null]
           q == [running[th] EXCEPT !.content = content[running[th].at]]
<1>1. TypeOK'
  BY SyncContentType DEF Base
<1>2. IdsRight'
  BY DEF Base, IdsRight, SyncContent, redisVars
<1>3. /\ running[th] \in Run /\ RunRight(running[th]) /\ running[th].todo \subseteq Blogs
      /\ running[th].cleared /\ running[th].at # Null /\ running[th].content = Null
  <2>1. running[th] \in Run /\ RunRight(running[th]) /\ running[th].todo \subseteq Blogs
        /\ running[th].at # Null /\ running[th].content = Null
    BY RunType DEF Base, SyncsRight, SyncContent
  <2> QED
    BY <2>1 DEF RunRight, Run
<1>4. CASE running' = [running EXCEPT ![th].at = Null, ![th].data = Null]
  <2>1. /\ r.id = running[th].id /\ r.todo = running[th].todo /\ r.at = Null
        /\ r.data = Null /\ r.content = Null /\ r.cleared
    BY <1>3 DEF Run
  <2>2. running' = [running EXCEPT ![th] = r]
    BY <1>4 DEF Base, TypeOK
  <2> HIDE DEF r
  <2>3. RunRight(r)
    BY <1>3, <2>1, NullApart DEF RunRight
  <2>4. SyncsRight' /\ OneAtATime'
    BY <2>2, <2>3, RunSyncs DEF SyncContent
  <2> QED
    BY <1>1, <1>2, <2>4 DEF Base
<1>5. CASE running' = [running EXCEPT ![th].content = content[running[th].at]]
  <2>1. /\ q.id = running[th].id /\ q.todo = running[th].todo /\ q.at = running[th].at
        /\ q.data = running[th].data /\ q.cleared
    BY <1>3 DEF Run
  <2>2. running' = [running EXCEPT ![th] = q]
    BY <1>5
  <2> HIDE DEF q
  <2>3. RunRight(q)
    BY <1>3, <2>1 DEF RunRight
  <2>4. SyncsRight' /\ OneAtATime'
    BY <2>2, <2>3, RunSyncs DEF SyncContent
  <2> QED
    BY <1>1, <1>2, <2>4 DEF Base
<1> QED
  BY <1>4, <1>5 DEF SyncContent

\* A thread that has read the content is at a blog and has read its data.
LEMMA IndexedRun ==
    ASSUME Base, NEW th \in Threads, SyncIndex(th)
    PROVE  /\ running[th] \in Run /\ RunRight(running[th]) /\ running[th].cleared
           /\ running[th].at \in Blogs /\ running[th].data \in Posts
           /\ running[th].content \in Contents /\ running[th].todo \subseteq Blogs
           /\ running' = [running EXCEPT ![th] =
                            [running[th] EXCEPT !.at = Null, !.data = Null, !.content = Null]]
<1>1. running[th] \in Run /\ RunRight(running[th]) /\ running[th].content # Null
  BY RunType DEF Base, SyncsRight, SyncIndex
<1>2. running' = [running EXCEPT ![th] =
                    [running[th] EXCEPT !.at = Null, !.data = Null, !.content = Null]]
  BY DEF Base, TypeOK, SyncIndex
<1> QED
  BY <1>1, <1>2 DEF RunRight, Run

LEMMA SyncIndexBase ==
    ASSUME Base, NEW th \in Threads, SyncIndex(th)
    PROVE  Base'
<1> DEFINE r == [running[th] EXCEPT !.at = Null, !.data = Null, !.content = Null]
<1>1. TypeOK'
  BY IndexedRun, SyncIndexType, NullApart DEF Base
<1>2. IdsRight'
  BY DEF Base, IdsRight, SyncIndex, redisVars
<1>3. /\ r.id = running[th].id /\ r.todo = running[th].todo /\ r.at = Null
      /\ r.data = Null /\ r.content = Null /\ r.cleared
  BY IndexedRun DEF Run
<1>4. running' = [running EXCEPT ![th] = r]
  BY IndexedRun
<1> HIDE DEF r
<1>5. RunRight(r)
  BY <1>3, IndexedRun, NullApart DEF RunRight
<1>6. SyncsRight' /\ OneAtATime'
  BY <1>4, <1>5, RunSyncs DEF SyncIndex
<1> QED
  BY <1>1, <1>2, <1>6 DEF Base

LEMMA SyncEndBase ==
    ASSUME Base, NEW th \in Threads, SyncEnd(th)
    PROVE  Base'
<1>1. TypeOK'
  BY SyncEndType DEF Base
<1>2. IdsRight'
  BY DEF Base, IdsRight, SyncEnd, redisVars
<1>3. SyncsRight' /\ OneAtATime'
  BY RunSyncs DEF SyncEnd
<1> QED
  BY <1>1, <1>2, <1>3 DEF Base

\* Views are counted, and nothing else changes.
LEMMA ViewsBase ==
    ASSUME Base, TypeOK', NEW b \in Blogs, views' \in {views, Viewed(b)},
           UNCHANGED <<redisVars, pending, syncVars>>
    PROVE  Base'
<1>1. IdsRight'
  <2>1. \A x \in Blogs : views[x] # Null => views'[x] # Null
    BY NullApart DEF Base, TypeOK, Viewed
  <2> QED
    BY <2>1 DEF Base, IdsRight, redisVars
<1>2. SyncsRight' /\ OneAtATime'
  BY DEF Base, SyncsRight, OneAtATime, syncVars
<1> QED
  BY <1>1, <1>2 DEF Base

LEMMA CrashBase ==
    ASSUME Base, Crash
    PROVE  Base'
<1>1. TypeOK'
  BY CrashType DEF Base
<1>2. IdsRight'
  BY DEF Base, IdsRight, Crash, redisVars
<1>3. SyncsRight' /\ OneAtATime'
  BY DEF SyncsRight, OneAtATime, Crash, Threads
<1> QED
  BY <1>1, <1>2, <1>3 DEF Base

LEMMA BaseStep ==
    ASSUME Base, [Next]_vars
    PROVE  Base'
<1>1. ASSUME NEW b \in Blogs, View(b) PROVE Base'
  BY <1>1, ViewType, ViewsBase DEF Base, View
<1>2. CASE CountView
  <2>1. Head(viewed) \in Blogs
    BY <1>2 DEF Base, TypeOK, CountView
  <2> QED
    BY <1>2, <2>1, CountViewType, ViewsBase DEF Base, CountView
<1>3. CASE UNCHANGED vars
  BY <1>3 DEF vars, redisVars, syncVars, Base, TypeOK, IdsRight, SyncsRight, OneAtATime
<1> QED
  BY <1>1, <1>2, <1>3, CreateBase, UpdateBase, DeleteBase, CallIndexBase, SyncBase, TakeSyncBase,
     SyncDeleteBase, SyncDataBase, SyncContentBase, SyncIndexBase, SyncEndBase, CrashBase DEF Next

\* The state of the blog server is what the scripts, the requests and the threads of the
\* pools make it (BlogServiceImpl, the Lua scripts, ThreadPoolConfig).
THEOREM TypeCorrect == Spec => []TypeOK
<1>1. Init => Base
  BY BaseInit
<1>2. Base /\ [Next]_vars => Base'
  BY BaseStep
<1>3. Base => TypeOK
  BY DEF Base
<1> QED
  BY <1>1, <1>2, <1>3, PTL DEF Spec

\* createBlog.lua, updateBlog.lua and deleteBlog.lua keep the ids equal to the blogs there
\* are, each with its content and its views, whatever requests, views, failures and
\* crashes come in between.
THEOREM IdsRightHolds == Spec => []IdsRight
<1>1. Init => Base
  BY BaseInit
<1>2. Base /\ [Next]_vars => Base'
  BY BaseStep
<1>3. Base => IdsRight
  BY DEF Base
<1> QED
  BY <1>1, <1>2, <1>3, PTL DEF Spec

-----------------------------------------------------------------------------
(* A blog follows                                                          *)

\* Who is at work on a blog, before and after a step.
LEMMA AtWork ==
    ASSUME NEW b
    PROVE  /\ Working(b) = {a \in Admins : Calls(a, b)}
                           \cup {th \in Threads : Reads(th, b) \/ Deletes(th, b)}
           /\ Working(b)' = {a \in Admins : Calls(a, b)'}
                            \cup {th \in Threads : Reads(th, b)' \/ Deletes(th, b)'}
  BY DEF Working, Calls, Reads, Deletes

\* A blog goes on following if a step changes neither its keys nor its document, brings
\* no new work on it and leaves it following when work on it ends.
LEMMA GoesOn ==
    ASSUME NEW b \in Blogs, Follows(b),
           b \notin disturbed' => b \notin disturbed,
           \A a \in Admins : Calls(a, b)' => Calls(a, b) /\ pending'[a] = pending[a],
           \A th \in Threads : Reads(th, b)' => Reads(th, b) /\ ReadRight(th, b)',
           \A th \in Threads : Deletes(th, b)' => Deletes(th, b),
           index'[b] = index[b], data'[b] = data[b], content'[b] = content[b],
           b \notin disturbed /\ Working(b)' = {} /\ Working(b) # {} => index[b] = DocumentOf(b)
    PROVE  Follows(b)'
<1>1. DocumentOf(b)' = DocumentOf(b)
  BY DEF DocumentOf
<1>2. Working(b)' \subseteq Working(b)
  BY AtWork
<1>3. SUFFICES ASSUME b \notin disturbed'
      PROVE  /\ Alone(b)'
             /\ Working(b)' = {} => index'[b] = DocumentOf(b)'
             /\ \A a \in Admins : Calls(a, b)' => CallRight(a, b)'
             /\ \A th \in Threads : Reads(th, b)' => ReadRight(th, b)'
             /\ \A th \in Threads : Deletes(th, b)' => index'[b] = Null
  BY DEF Follows
<1>4. Alone(b)'
  BY <1>2, <1>3 DEF Follows, Alone
<1>5. Working(b)' = {} => index'[b] = DocumentOf(b)'
  BY <1>1, <1>3 DEF Follows
<1>6. ASSUME NEW a \in Admins, Calls(a, b)' PROVE CallRight(a, b)'
  BY <1>1, <1>3, <1>6 DEF Follows, CallRight
<1>7. ASSUME NEW th \in Threads, Deletes(th, b)' PROVE index'[b] = Null
  BY <1>3, <1>7 DEF Follows
<1> QED
  BY <1>4, <1>5, <1>6, <1>7

\* A script and the call of the index it brings: the blogs it is not about go on.
LEMMA OthersGoOn ==
    ASSUME Base, NEW a \in Admins, NEW b \in Blogs, NEW o, o # Null, o.id = b,
           pending' = [pending EXCEPT ![a] = o], Begins(b), UNCHANGED <<index, syncVars>>,
           NEW x \in Blogs \ {b}, Follows(x), data'[x] = data[x], content'[x] = content[x], Idle(a)
    PROVE  Follows(x)'
<1>1. x \notin disturbed' => x \notin disturbed
  BY DEF Begins
<1>2. \A y \in Admins : Calls(y, x)' <=> Calls(y, x)
  BY DEF Base, TypeOK, Calls, Idle
<1>3. \A y \in Admins : Calls(y, x)' => pending'[y] = pending[y]
  BY <1>2 DEF Base, TypeOK, Calls, Idle
<1>4. \A th \in Threads : (Reads(th, x)' <=> Reads(th, x)) /\ (Deletes(th, x)' <=> Deletes(th, x))
  BY DEF Reads, Deletes, syncVars
<1>5. Working(x)' = Working(x)
  BY <1>2, <1>4, AtWork
<1>6. CASE x \notin disturbed
  <2>1. \A th \in Threads : Reads(th, x)' => ReadRight(th, x)'
    BY <1>4, <1>6 DEF Follows, ReadRight, syncVars
  <2> QED
    BY <1>1, <1>2, <1>3, <1>4, <1>5, <2>1, GoesOn
<1>7. CASE x \in disturbed
  BY <1>7 DEF Begins, Follows
<1> QED
  BY <1>6, <1>7

\* The blog it is about: if nobody was at work on it, the call will make the index follow.
LEMMA WorkBegins ==
    ASSUME Base, NEW a \in Admins, NEW b \in Blogs, NEW o, o # Null, o.id = b,
           pending' = [pending EXCEPT ![a] = o], Begins(b), UNCHANGED <<index, syncVars>>,
           Follows(b), index[b] = DocumentOf(b) => Called(o, index[b]) = DocumentOf(b)'
    PROVE  Follows(b)'
<1>1. SUFFICES ASSUME b \notin disturbed' PROVE Follows(b)'
  BY DEF Follows
<1>2. Working(b) = {} /\ b \notin disturbed /\ index[b] = DocumentOf(b)
  BY <1>1 DEF Begins, Follows
<1>3. pending'[a] = o /\ \A y \in Admins \ {a} : pending'[y] = pending[y]
  BY DEF Base, TypeOK
<1>4. \A y \in Admins : Calls(y, b)' <=> y = a
  BY <1>2, <1>3, AtWork DEF Calls
<1>5. \A th \in Threads : ~Reads(th, b)' /\ ~Deletes(th, b)'
  BY <1>2, AtWork DEF Reads, Deletes, syncVars
<1>6. Working(b)' = {a}
  BY <1>4, <1>5, AtWork
<1>7. CallRight(a, b)'
  BY <1>2, <1>3 DEF CallRight
<1> QED
  BY <1>4, <1>5, <1>6, <1>7 DEF Follows, Alone

LEMMA CreateFollows ==
    ASSUME Base, NEW a \in Admins, NEW b \in Blogs, NEW p \in Posts, NEW c \in Contents,
           Create(a, b, p, c), \A x \in Blogs : Follows(x), NEW x \in Blogs
    PROVE  Follows(x)'
<1> DEFINE o == [op |-> "index", id |-> b, doc |-> [data |-> p, content |-> c]]
<1>1. o \in Operation /\ o # Null /\ o.id = b /\ o.op = "index" /\ o.doc = [data |-> p, content |-> c]
  BY NullApart DEF Operation, Document
<1>2. data' = [data EXCEPT ![b] = p] /\ content' = [content EXCEPT ![b] = c]
  BY DEF Create, Stored
<1>3. DocumentOf(b)' = [data |-> p, content |-> c]
  BY <1>2, NullApart DEF DocumentOf, Base, TypeOK
<1>4. \A doc : Called(o, doc) = o.doc
  BY <1>1 DEF Called
<1>5. /\ pending' = [pending EXCEPT ![a] = o] /\ Begins(b) /\ UNCHANGED <<index, syncVars>> /\ Idle(a)
  BY DEF Create
<1> HIDE DEF o
<1>6. CASE x = b
  BY <1>1, <1>3, <1>4, <1>5, <1>6, WorkBegins
<1>7. CASE x # b
  <2>1. data'[x] = data[x] /\ content'[x] = content[x]
    BY <1>2, <1>7 DEF Base, TypeOK
  <2> QED
    BY <1>1, <1>5, <1>7, <2>1, OthersGoOn
<1> QED
  BY <1>6, <1>7

LEMMA UpdateFollows ==
    ASSUME Base, NEW a \in Admins, NEW b \in Blogs, NEW p \in Posts, NEW c \in Contents,
           Update(a, b, p, c), \A x \in Blogs : Follows(x), NEW x \in Blogs
    PROVE  Follows(x)'
<1> DEFINE o == [op |-> "update", id |-> b, doc |-> [data |-> p, content |-> c]]
<1>1. o \in Operation /\ o # Null /\ o.id = b /\ o.doc = [data |-> p, content |-> c]
  BY NullApart DEF Operation, Document
<1>2. data' = [data EXCEPT ![b] = p] /\ content' = [content EXCEPT ![b] = c]
  BY DEF Update, Stored
<1>3. DocumentOf(b)' = [data |-> p, content |-> c]
  BY <1>2, NullApart DEF DocumentOf, Base, TypeOK
<1>4. DocumentOf(b) # Null
  <2>1. data[b] \in Posts /\ content[b] \in Contents
    BY DEF Update, Base, TypeOK, IdsRight
  <2>2. DocumentOf(b) = [data |-> data[b], content |-> content[b]]
    BY DEF Update, DocumentOf
  <2>3. [data |-> data[b], content |-> content[b]] \in Document
    BY <2>1 DEF Document
  <2> QED
    BY <2>2, <2>3, NullApart
<1>5. index[b] = DocumentOf(b) => Called(o, index[b]) = o.doc
  BY <1>4 DEF Called
<1>6. /\ pending' = [pending EXCEPT ![a] = o] /\ Begins(b) /\ UNCHANGED <<index, syncVars>> /\ Idle(a)
  BY DEF Update
<1> HIDE DEF o
<1>7. CASE x = b
  BY <1>1, <1>3, <1>5, <1>6, <1>7, WorkBegins
<1>8. CASE x # b
  <2>1. data'[x] = data[x] /\ content'[x] = content[x]
    BY <1>2, <1>8 DEF Base, TypeOK
  <2> QED
    BY <1>1, <1>6, <1>8, <2>1, OthersGoOn
<1> QED
  BY <1>7, <1>8

LEMMA DeleteFollows ==
    ASSUME Base, NEW a \in Admins, NEW b \in Blogs, Delete(a, b),
           \A x \in Blogs : Follows(x), NEW x \in Blogs
    PROVE  Follows(x)'
<1> DEFINE o == [op |-> "delete", id |-> b, doc |-> Null]
<1>1. o \in Operation /\ o # Null /\ o.id = b /\ o.doc = Null
  BY NullApart DEF Operation
<1>2. data' = [data EXCEPT ![b] = Null] /\ content' = [content EXCEPT ![b] = Null]
  BY DEF Delete, Removed
<1>3. DocumentOf(b)' = Null
  BY <1>2 DEF DocumentOf, Base, TypeOK
<1>4. \A doc : Called(o, doc) = Null
  BY <1>1 DEF Called
<1>5. /\ pending' = [pending EXCEPT ![a] = o] /\ Begins(b) /\ UNCHANGED <<index, syncVars>> /\ Idle(a)
  BY DEF Delete
<1> HIDE DEF o
<1>6. CASE x = b
  BY <1>1, <1>3, <1>4, <1>5, <1>6, WorkBegins
<1>7. CASE x # b
  <2>1. data'[x] = data[x] /\ content'[x] = content[x]
    BY <1>2, <1>7 DEF Base, TypeOK
  <2> QED
    BY <1>1, <1>5, <1>7, <2>1, OthersGoOn
<1> QED
  BY <1>6, <1>7

LEMMA CallIndexFollows ==
    ASSUME Base, NEW a \in Admins, CallIndex(a), \A x \in Blogs : Follows(x), NEW x \in Blogs
    PROVE  Follows(x)'
<1> DEFINE b == pending[a].id
<1>1. Calls(a, b) /\ b \in Blogs /\ running[a] = Null
  BY DEF CallIndex, Calls, Base, TypeOK, OneAtATime, Operation
<1>2. pending'[a] = Null /\ \A y \in Admins \ {a} : pending'[y] = pending[y]
  BY DEF CallIndex, Base, TypeOK
<1>3. UNCHANGED <<data, content, running>>
  BY DEF CallIndex, redisVars, syncVars
<1>4. \A th \in Threads : (Reads(th, x)' <=> Reads(th, x)) /\ (Deletes(th, x)' <=> Deletes(th, x))
  BY <1>3 DEF Reads, Deletes
<1>5. \A y \in Admins : Calls(y, x)' => y # a /\ Calls(y, x) /\ pending'[y] = pending[y]
  BY <1>2 DEF Calls
<1>6. SUFFICES ASSUME x \notin disturbed' PROVE Follows(x)'
  BY DEF Follows
<1>7. x \notin disturbed
  BY <1>6 DEF CallIndex
<1>8. CASE x = b
  <2>1. index' = [index EXCEPT ![b] = Called(pending[a], @)]
    BY <1>6, <1>8 DEF CallIndex
  <2>2. index'[x] = DocumentOf(x)
    BY <1>1, <1>7, <1>8, <2>1 DEF Follows, CallRight, Base, TypeOK
  <2>3. Working(x) \subseteq {a}
    BY <1>1, <1>7, <1>8, AtWork DEF Follows, Alone
  <2>4. \A th \in Threads : ~Reads(th, x) /\ ~Deletes(th, x)
    BY <1>1, <2>3, AtWork DEF Reads, Deletes
  <2>5. \A y \in Admins : ~Calls(y, x)'
    BY <1>5, <1>8, <2>3, AtWork
  <2>6. Working(x)' = {}
    BY <1>4, <1>8, <2>4, <2>5, AtWork
  <2>7. DocumentOf(x)' = DocumentOf(x)
    BY <1>3 DEF DocumentOf
  <2> QED
    BY <1>4, <1>8, <2>2, <2>4, <2>5, <2>6, <2>7 DEF Follows, Alone
<1>9. CASE x # b
  <2>1. index'[x] = index[x]
    BY <1>9 DEF CallIndex, Base, TypeOK
  <2>2. \A y \in Admins : Calls(y, x) => Calls(y, x)'
    BY <1>2, <1>9 DEF Calls
  <2>3. Working(x)' = Working(x)
    BY <1>4, <1>5, <2>2, AtWork
  <2>4. \A th \in Threads : Reads(th, x)' => ReadRight(th, x)'
    BY <1>3, <1>4, <1>7 DEF Follows, ReadRight
  <2> QED
    BY <1>3, <1>4, <1>5, <1>7, <2>1, <2>3, <2>4, GoesOn
<1> QED
  BY <1>8, <1>9

\* A step of a sync after which its thread is at work on no blog it was not at work on.
LEMMA RunGoesOn ==
    ASSUME Base, NEW th \in Threads, NEW r, running' = [running EXCEPT ![th] = r],
           UNCHANGED <<data, content, pending>>, NEW x \in Blogs, Follows(x),
           x \notin disturbed' => x \notin disturbed, index'[x] = index[x],
           Reads(th, x)' => Reads(th, x) /\ (x \notin disturbed => ReadRight(th, x)'),
           Deletes(th, x)' => Deletes(th, x),
           x \notin disturbed /\ (Reads(th, x) \/ Deletes(th, x))
             /\ ~Reads(th, x)' /\ ~Deletes(th, x)' => index[x] = DocumentOf(x)
    PROVE  Follows(x)'
<1>1. SUFFICES ASSUME x \notin disturbed' PROVE Follows(x)'
  BY DEF Follows
<1>2. \A y \in Threads \ {th} : running'[y] = running[y]
  BY DEF Base, TypeOK
<1>3. \A y \in Threads \ {th} : (Reads(y, x)' <=> Reads(y, x)) /\ (Deletes(y, x)' <=> Deletes(y, x))
  BY <1>2 DEF Reads, Deletes
<1>4. \A y \in Admins : Calls(y, x)' <=> Calls(y, x)
  BY DEF Calls
<1>5. \A y \in Threads : Reads(y, x)' => Reads(y, x) /\ ReadRight(y, x)'
  BY <1>1, <1>2, <1>3 DEF Follows, ReadRight
<1>6. \A y \in Threads : Deletes(y, x)' => Deletes(y, x)
  BY <1>3
<1>7. ASSUME Working(x)' = {}, Working(x) # {} PROVE index[x] = DocumentOf(x)
  <2>1. Reads(th, x) \/ Deletes(th, x)
    BY <1>3, <1>4, <1>7, AtWork
  <2>2. ~Reads(th, x)' /\ ~Deletes(th, x)'
    BY <1>7, AtWork
  <2> QED
    BY <1>1, <2>1, <2>2
<1> QED
  BY <1>1, <1>4, <1>5, <1>6, <1>7, GoesOn

\* A sync that has only started is at work on no blog.
LEMMA StartedGoesOn ==
    ASSUME Base, NEW th \in Threads, running[th] = Null, NEW job \in Job,
           running' = [running EXCEPT ![th] = Started(job)],
           UNCHANGED <<data, content, pending, index, disturbed>>, NEW x \in Blogs, Follows(x)
    PROVE  Follows(x)'
<1>1. running'[th] = Started(job)
  BY DEF Base, TypeOK
<1>2. ~Reads(th, x)' /\ ~Deletes(th, x)' /\ ~Reads(th, x) /\ ~Deletes(th, x)
  BY <1>1, NullApart DEF Reads, Deletes, Started
<1> QED
  BY <1>2, RunGoesOn

\* A step that changes nothing a blog follows by.
LEMMA NothingChanges ==
    ASSUME UNCHANGED <<data, content, pending, running, index, disturbed>>, NEW x \in Blogs, Follows(x)
    PROVE  Follows(x)'
<1>1. Working(x)' = Working(x)
  BY DEF Working
<1>2. DocumentOf(x)' = DocumentOf(x)
  BY DEF DocumentOf
<1>3. /\ \A a \in Admins : (Calls(a, x)' <=> Calls(a, x)) /\ (CallRight(a, x)' <=> CallRight(a, x))
      /\ \A th \in Threads : (Reads(th, x)' <=> Reads(th, x)) /\ (ReadRight(th, x)' <=> ReadRight(th, x))
      /\ \A th \in Threads : Deletes(th, x)' <=> Deletes(th, x)
  BY <1>2 DEF Calls, CallRight, Reads, ReadRight, Deletes
<1> QED
  BY <1>1, <1>2, <1>3 DEF Follows, Alone

LEMMA SyncFollows ==
    ASSUME Base, NEW a \in Admins, NEW id \in Blogs \cup {ALL}, Sync(a, id),
           \A x \in Blogs : Follows(x), NEW x \in Blogs
    PROVE  Follows(x)'
<1> DEFINE job == [id |-> id, todo |-> IF id = ALL THEN ids ELSE {id}]
<1>1. job \in Job
  BY DEF Base, TypeOK, Job
<1> HIDE DEF job
<1>2. UNCHANGED <<data, content, pending, index, disturbed>> /\ running[a] = Null
  BY DEF Sync, redisVars, Idle
<1>3. CASE UNCHANGED running
  BY <1>2, <1>3, NothingChanges
<1>4. CASE running' = [running EXCEPT ![a] = Started(job)]
  BY <1>1, <1>2, <1>4, StartedGoesOn DEF Threads
<1> QED
  BY <1>3, <1>4 DEF Sync, job

LEMMA TakeSyncFollows ==
    ASSUME Base, TakeSync, \A x \in Blogs : Follows(x), NEW x \in Blogs
    PROVE  Follows(x)'
<1>1. Head(queue) \in Job
  BY DEF Base, TypeOK, TakeSync
<1> QED
  BY <1>1, StartedGoesOn DEF TakeSync, redisVars, Threads

LEMMA SyncDeleteFollows ==
    ASSUME Base, NEW th \in Threads, SyncDelete(th), \A x \in Blogs : Follows(x), NEW x \in Blogs
    PROVE  Follows(x)'
<1> DEFINE b == running[th].id
           r == [running[th] EXCEPT !.cleared = TRUE]
<1>1. running[th] \in Run /\ RunRight(running[th]) /\ running[th] # Null /\ ~running[th].cleared
  BY RunType DEF Base, SyncsRight, SyncDelete
<1>2. /\ r.id = b /\ r.todo = running[th].todo /\ r.at = running[th].at
      /\ r.data = running[th].data /\ r.content = running[th].content /\ r.cleared
  BY <1>1 DEF Run
<1>3. running[th].at = Null /\ (b # ALL => running[th].todo = {b})
  BY <1>1 DEF RunRight, JobRight
<1>4. running' = [running EXCEPT ![th] = r] /\ running'[th] = r
  BY DEF SyncDelete, Base, TypeOK
<1>5. UNCHANGED <<data, content, pending>>
  BY DEF SyncDelete, redisVars
<1> HIDE DEF r
<1>6. ~Reads(th, x) /\ ~Deletes(th, x) /\ ~Reads(th, x)'
  BY <1>1, <1>2, <1>3, <1>4, NullApart DEF Reads, Deletes
<1>7. CASE x # b
  <2>1. ~Deletes(th, x)'
    BY <1>2, <1>4, <1>7 DEF Deletes
  <2>2. (x \notin disturbed' => x \notin disturbed) /\ index'[x] = index[x]
    BY <1>7 DEF SyncDelete, Base, TypeOK
  <2> QED
    BY <1>4, <1>5, <1>6, <2>1, <2>2, RunGoesOn
<1>8. CASE x = b
  <2>1. SUFFICES ASSUME x \notin disturbed' PROVE Follows(x)'
    BY DEF Follows
  <2>2. b # ALL
    BY <1>8, NullApart
  <2>3. index'[x] = Null /\ Working(x) = {}
    BY <1>8, <2>1, <2>2 DEF SyncDelete, Base, TypeOK
  <2>4. \A y \in Threads \ {th} : running'[y] = running[y]
    BY <1>4 DEF Base, TypeOK
  <2>5. \A y \in Threads \ {th} : ~Reads(y, x)' /\ ~Deletes(y, x)'
    BY <2>3, <2>4, AtWork DEF Reads, Deletes
  <2>6. \A y \in Admins : ~Calls(y, x)'
    BY <1>5, <2>3, AtWork DEF Calls
  <2>7. r # Null
    BY <1>1, <1>4, SyncDeleteType, NullApart DEF r, Run
  <2>8. Deletes(th, x)'
    BY <1>2, <1>3, <1>4, <1>8, <2>2, <2>7 DEF Deletes
  <2>9. Working(x)' = {th}
    BY <1>6, <2>5, <2>6, <2>8, AtWork
  <2> QED
    BY <1>6, <2>3, <2>5, <2>6, <2>9 DEF Follows, Alone
<1> QED
  BY <1>7, <1>8

LEMMA SyncDataFollows ==
    ASSUME Base, NEW th \in Threads, NEW b \in Blogs, SyncData(th, b),
           \A x \in Blogs : Follows(x), NEW x \in Blogs
    PROVE  Follows(x)'
<1> DEFINE r == [running[th] EXCEPT !.todo = @ \ {b}]
           q == [running[th] EXCEPT !.todo = @ \ {b}, !.at = b, !.data = data[b]]
<1>1. /\ running[th] \in Run /\ RunRight(running[th]) /\ running[th] # Null
      /\ running[th].cleared /\ running[th].at = Null /\ running[th].content = Null
      /\ b \in running[th].todo
  BY RunType DEF Base, SyncsRight, SyncData, RunRight
<1>2. UNCHANGED <<data, content, pending, index>>
  BY DEF SyncData, redisVars
<1>3. ~Reads(th, x)
  BY <1>1, NullApart DEF Reads
<1>4. CASE data[b] = Null /\ running' = [running EXCEPT ![th].todo = @ \ {b}] /\ UNCHANGED disturbed
  <2>1. /\ r.id = running[th].id /\ r.todo = running[th].todo \ {b} /\ r.at = Null
        /\ r.cleared /\ r # Null
    BY <1>1, NullApart DEF Run
  <2>2. running' = [running EXCEPT ![th] = r] /\ running'[th] = r
    BY <1>4 DEF Base, TypeOK
  <2> HIDE DEF r
  <2>3. ~Reads(th, x)'
    BY <2>1, <2>2, NullApart DEF Reads
  <2>4. Deletes(th, x)' => Deletes(th, x)
    BY <1>1, <2>1, <2>2 DEF Deletes
  <2>5. ASSUME x \notin disturbed, Deletes(th, x), ~Deletes(th, x)' PROVE index[x] = DocumentOf(x)
    <3>1. x = b
      BY <2>1, <2>2, <2>5 DEF Deletes
    <3>2. DocumentOf(x) = Null
      BY <1>4, <3>1 DEF DocumentOf
    <3> QED
      BY <2>5, <3>2 DEF Follows
  <2> QED
    BY <1>2, <1>3, <1>4, <2>2, <2>3, <2>4, <2>5, RunGoesOn
<1>5. CASE /\ data[b] # Null
           /\ running' = [running EXCEPT ![th].todo = @ \ {b}, ![th].at = b, ![th].data = data[b]]
           /\ disturbed' = IF Working(b) \subseteq {th} THEN disturbed \ {b} ELSE disturbed \cup {b}
  <2>1. /\ q.id = running[th].id /\ q.todo = running[th].todo \ {b} /\ q.at = b
        /\ q.data = data[b] /\ q.content = Null /\ q.cleared
    BY <1>1 DEF Run
  <2>2. running' = [running EXCEPT ![th] = q] /\ running'[th] = q
    BY <1>5 DEF Base, TypeOK
  <2>3. q # Null
    <3>1. q \in Run
      BY <1>1, <1>5 DEF Run, Base, TypeOK
    <3> QED
      BY <3>1, NullApart
  <2> HIDE DEF q
  <2>4. CASE x # b
    <3>1. ~Reads(th, x)' /\ (Deletes(th, x)' <=> Deletes(th, x))
      BY <1>1, <2>1, <2>2, <2>3, <2>4 DEF Reads, Deletes
    <3>2. x \notin disturbed' => x \notin disturbed
      BY <1>5, <2>4
    <3> QED
      BY <1>2, <1>3, <2>2, <3>1, <3>2, RunGoesOn
  <2>5. CASE x = b
    <3>1. SUFFICES ASSUME x \notin disturbed' PROVE Follows(x)'
      BY DEF Follows
    <3>2. Working(x) \subseteq {th}
      BY <1>5, <2>5, <3>1
    <3>3. \A y \in Threads \ {th} : running'[y] = running[y]
      BY <2>2 DEF Base, TypeOK
    <3>4. \A y \in Threads \ {th} : ~Reads(y, x)' /\ ~Deletes(y, x)'
      BY <3>2, <3>3, AtWork DEF Reads, Deletes
    <3>5. \A y \in Admins : ~Calls(y, x)'
      <4>1. \A y \in Admins : Calls(y, x)' => Calls(y, x)
        BY <1>2 DEF Calls
      <4>2. \A y \in Admins : Calls(y, x) => y = th
        BY <3>2, AtWork
      <4>3. th \in Admins => ~Calls(th, x)
        BY <1>1 DEF Calls, Base, OneAtATime
      <4> QED
        BY <4>1, <4>2, <4>3
    <3>6. Reads(th, x)' /\ ReadRight(th, x)' /\ ~Deletes(th, x)'
      BY <1>2, <2>1, <2>2, <2>3, <2>5 DEF Reads, ReadRight, Deletes
    <3>7. Working(x)' = {th}
      BY <3>4, <3>5, <3>6, AtWork
    <3> QED
      BY <3>4, <3>5, <3>6, <3>7 DEF Follows, Alone
  <2> QED
    BY <2>4, <2>5
<1> QED
  BY <1>4, <1>5 DEF SyncData

LEMMA SyncContentFollows ==
    ASSUME Base, NEW th \in Threads, SyncContent(th), \A x \in Blogs : Follows(x), NEW x \in Blogs
    PROVE  Follows(x)'
<1> DEFINE r == [running[th] EXCEPT !.at = Null, !.data = Null]
           q == [running[th] EXCEPT !.content = content[running[th].at]]
<1>1. /\ running[th] \in Run /\ RunRight(running[th]) /\ running[th] # Null
      /\ running[th].at \in Blogs /\ running[th].data # Null
  BY RunType DEF Base, SyncsRight, SyncContent, RunRight
<1>2. UNCHANGED <<data, content, pending, index, disturbed>>
  BY DEF SyncContent, redisVars
<1>3. CASE content[running[th].at] = Null /\ running' = [running EXCEPT ![th].at = Null, ![th].data = Null]
  <2>1. r.id = running[th].id /\ r.todo = running[th].todo /\ r.at = Null /\ r.cleared = running[th].cleared
        /\ r # Null
    <3>1. r \in Run
      BY <1>1 DEF Run
    <3> QED
      BY <1>1, <3>1, NullApart DEF Run
  <2>2. running' = [running EXCEPT ![th] = r] /\ running'[th] = r
    BY <1>3 DEF Base, TypeOK
  <2> HIDE DEF r
  <2>3. ~Reads(th, x)' /\ (Deletes(th, x)' <=> Deletes(th, x))
    BY <1>1, <2>1, <2>2, NullApart DEF Reads, Deletes
  <2>4. Reads(th, x) => x \in disturbed
    <3>1. ASSUME Reads(th, x), x \notin disturbed PROVE FALSE
      <4>1. data[x] # Null
        BY <1>1, <3>1 DEF Follows, ReadRight, Reads
      <4> QED
        BY <1>3, <3>1, <4>1 DEF Base, IdsRight, Reads
    <3> QED
      BY <3>1
  <2> QED
    BY <1>2, <2>2, <2>3, <2>4, RunGoesOn
<1>4. CASE running' = [running EXCEPT ![th].content = content[running[th].at]]
  <2>1. /\ q.id = running[th].id /\ q.todo = running[th].todo /\ q.at = running[th].at
        /\ q.data = running[th].data /\ q.cleared = running[th].cleared
        /\ q.content = content[running[th].at] /\ q # Null
    <3>1. q \in Run
      BY <1>1 DEF Run, Base, TypeOK
    <3> QED
      BY <1>1, <3>1, NullApart DEF Run
  <2>2. running' = [running EXCEPT ![th] = q] /\ running'[th] = q
    BY <1>4 DEF Base, TypeOK
  <2> HIDE DEF q
  <2>3. (Reads(th, x)' <=> Reads(th, x)) /\ (Deletes(th, x)' <=> Deletes(th, x))
    BY <1>1, <2>1, <2>2 DEF Reads, Deletes
  <2>4. Reads(th, x) /\ x \notin disturbed => ReadRight(th, x)'
    BY <1>1, <1>2, <2>1, <2>2 DEF Follows, ReadRight, Reads
  <2> QED
    BY <1>2, <2>2, <2>3, <2>4, RunGoesOn
<1> QED
  BY <1>3, <1>4 DEF SyncContent

LEMMA SyncIndexFollows ==
    ASSUME Base, NEW th \in Threads, SyncIndex(th), \A x \in Blogs : Follows(x), NEW x \in Blogs
    PROVE  Follows(x)'
<1> DEFINE b == running[th].at
           r == [running[th] EXCEPT !.at = Null, !.data = Null, !.content = Null]
<1>1. /\ running[th] \in Run /\ running[th] # Null /\ b \in Blogs /\ b \notin running[th].todo
      /\ running[th].content \in Contents /\ running[th].content # Null
  BY IndexedRun, NullApart DEF SyncIndex, RunRight
<1>2. r.id = running[th].id /\ r.todo = running[th].todo /\ r.at = Null /\ r.cleared = running[th].cleared
      /\ r # Null
  <2>1. r \in Run
    BY <1>1 DEF Run
  <2> QED
    BY <1>1, <2>1, NullApart DEF Run
<1>3. running' = [running EXCEPT ![th] = r] /\ running'[th] = r
  <2>1. running' = [running EXCEPT ![th] = r]
    BY IndexedRun
  <2>2. DOMAIN running = Threads
    BY DEF Base, TypeOK
  <2> HIDE DEF r
  <2> QED
    BY <2>1, <2>2
<1>4. UNCHANGED <<data, content, pending>> /\ (x \notin disturbed' => x \notin disturbed)
  <2>1. UNCHANGED redisVars /\ UNCHANGED pending
    BY DEF SyncIndex
  <2>2. UNCHANGED disturbed \/ disturbed' = disturbed \cup {b}
    BY DEF SyncIndex
  <2> QED
    BY <2>1, <2>2 DEF redisVars
<1> HIDE DEF r
<1>5. ~Reads(th, x)' /\ (Deletes(th, x)' <=> Deletes(th, x))
  BY <1>1, <1>2, <1>3, NullApart DEF Reads, Deletes
<1>6. CASE x # b
  <2>1. index'[x] = index[x]
    BY <1>6 DEF SyncIndex, Base, TypeOK
  <2>2. ~Reads(th, x)
    BY <1>6 DEF Reads
  <2> QED
    BY <1>3, <1>4, <1>5, <2>1, <2>2, RunGoesOn
<1>7. CASE x = b
  <2>1. SUFFICES ASSUME x \notin disturbed' PROVE Follows(x)'
    BY DEF Follows
  <2>2. index' = [index EXCEPT ![b] = [data |-> running[th].data, content |-> running[th].content]]
    BY <1>7, <2>1 DEF SyncIndex
  <2>3. Reads(th, x) /\ x \notin disturbed
    BY <1>1, <1>4, <1>7, <2>1 DEF Reads
  <2>4. /\ running[th].data = data[x] /\ running[th].content = content[x] /\ data[x] # Null
    <3>1. ReadRight(th, x)
      BY <2>3 DEF Follows
    <3>2. running[th].data \in Posts
      BY IndexedRun
    <3> QED
      BY <1>1, <3>1, <3>2, NullApart DEF ReadRight
  <2>5. index'[x] = DocumentOf(x)'
    BY <1>4, <1>7, <2>2, <2>4 DEF DocumentOf, Base, TypeOK
  <2>6. Working(x) \subseteq {th}
    BY <2>3, AtWork DEF Follows, Alone
  <2>7. ~Deletes(th, x)'
    BY <1>1, <1>5, <1>7 DEF Deletes
  <2>8. \A y \in Threads \ {th} : running'[y] = running[y]
    BY <1>3 DEF Base, TypeOK
  <2>9. \A y \in Threads \ {th} : ~Reads(y, x)' /\ ~Deletes(y, x)'
    BY <2>6, <2>8, AtWork DEF Reads, Deletes
  <2>10. \A y \in Admins : ~Calls(y, x)'
    <3>1. \A y \in Admins : Calls(y, x)' => Calls(y, x)
      BY <1>4 DEF Calls
    <3>2. \A y \in Admins : Calls(y, x) => y = th
      BY <2>6, AtWork
    <3>3. th \in Admins => ~Calls(th, x)
      BY <1>1 DEF Calls, Base, OneAtATime
    <3> QED
      BY <3>1, <3>2, <3>3
  <2>11. Working(x)' = {}
    BY <1>5, <2>7, <2>9, <2>10, AtWork
  <2> QED
    BY <1>5, <2>5, <2>7, <2>9, <2>10, <2>11 DEF Follows, Alone
<1> QED
  BY <1>6, <1>7

LEMMA SyncEndFollows ==
    ASSUME Base, NEW th \in Threads, SyncEnd(th), \A x \in Blogs : Follows(x), NEW x \in Blogs
    PROVE  Follows(x)'
<1>1. ~Reads(th, x) /\ ~Deletes(th, x)
  BY NullApart DEF SyncEnd, Reads, Deletes
<1>2. ~Reads(th, x)' /\ ~Deletes(th, x)'
  BY DEF SyncEnd, Reads, Deletes, Base, TypeOK
<1>3. running' = [running EXCEPT ![th] = Null] /\ UNCHANGED <<data, content, pending, index, disturbed>>
  BY DEF SyncEnd, redisVars
<1> QED
  BY <1>1, <1>2, <1>3, RunGoesOn

LEMMA CrashFollows ==
    ASSUME Base, Crash, \A x \in Blogs : Follows(x), NEW x \in Blogs
    PROVE  Follows(x)'
<1>1. SUFFICES ASSUME x \notin disturbed' PROVE Follows(x)'
  BY DEF Follows
<1>2. Working(x) = {} /\ x \notin disturbed
  BY <1>1 DEF Crash
<1>3. /\ \A a \in Admins : ~Calls(a, x)'
      /\ \A th \in Threads : ~Reads(th, x)' /\ ~Deletes(th, x)'
  BY DEF Crash, Calls, Reads, Deletes
<1>4. Working(x)' = {}
  BY <1>3, AtWork
<1>5. index'[x] = DocumentOf(x)'
  BY <1>2 DEF Crash, Follows, DocumentOf, redisVars
<1> QED
  BY <1>3, <1>4, <1>5 DEF Follows, Alone

LEMMA IndInit ==
    ASSUME Init
    PROVE  IndInv
<1>1. ASSUME NEW x \in Blogs PROVE Follows(x)
  <2>1. Working(x) = {}
    BY DEF Init, Working, Threads
  <2>2. index[x] = DocumentOf(x)
    BY DEF Init, DocumentOf
  <2>3. /\ \A a \in Admins : ~Calls(a, x)
        /\ \A th \in Threads : ~Reads(th, x) /\ ~Deletes(th, x)
    BY DEF Init, Calls, Reads, Deletes
  <2> QED
    BY <2>1, <2>2, <2>3 DEF Follows, Alone
<1> QED
  BY <1>1, BaseInit DEF IndInv

LEMMA IndStep ==
    ASSUME IndInv, [Next]_vars
    PROVE  IndInv'
<1>1. Base /\ \A x \in Blogs : Follows(x)
  BY DEF IndInv
<1>2. Base'
  BY <1>1, BaseStep
<1>3. ASSUME NEW x \in Blogs PROVE Follows(x)'
  <2>1. ASSUME NEW b \in Blogs, View(b) PROVE Follows(x)'
    BY <1>1, <2>1, NothingChanges DEF View, redisVars, syncVars
  <2>2. CASE CountView
    BY <1>1, <2>2, NothingChanges DEF CountView, redisVars, syncVars
  <2>3. CASE UNCHANGED vars
    BY <1>1, <2>3, NothingChanges DEF vars, redisVars, syncVars
  <2> QED
    BY <1>1, <2>1, <2>2, <2>3, CreateFollows, UpdateFollows, DeleteFollows, CallIndexFollows,
       SyncFollows, TakeSyncFollows, SyncDeleteFollows, SyncDataFollows, SyncContentFollows,
       SyncIndexFollows, SyncEndFollows, CrashFollows DEF Next
<1> QED
  BY <1>2, <1>3 DEF IndInv

\* BlogServiceImpl calls the search index after the script and sync writes what it has
\* read before: a blog nobody is at work on is in the index as Redis has it, unless units
\* of work on it overlapped, a call failed or the server went down and no sync came since.
THEOREM IndexFollowsHolds == Spec => []IndexFollows
<1>1. Init => IndInv
  BY IndInit
<1>2. IndInv /\ [Next]_vars => IndInv'
  BY IndStep
<1>3. IndInv => IndexFollows
  BY DEF IndInv, Follows, IndexFollows
<1> QED
  BY <1>1, <1>2, <1>3, PTL DEF Spec

-----------------------------------------------------------------------------
(* The counters                                                            *)

\* A zset of positive scores; a member that is not there scores nothing.
Positive(zset) == \A x \in DOMAIN zset : zset[x] \in Nat \ {0}
Score(zset, x) == IF x \in DOMAIN zset THEN zset[x] ELSE 0

\* To count up adds to the score of one member.
LEMMA CountedScore ==
    ASSUME NEW z, Positive(z), NEW m, NEW k \in Nat
    PROVE  /\ Positive(Counted(z, m, k))
           /\ \A x : Score(Counted(z, m, k), x) = Score(z, x) + (IF x = m THEN k ELSE 0)
<1>1. CASE k = 0
  BY <1>1 DEF Counted, Positive, Score
<1>2. CASE k # 0
  <2> DEFINE c == Counted(z, m, k)
  <2>1. /\ DOMAIN c = DOMAIN z \cup {m}
        /\ \A x \in DOMAIN z \cup {m} :
             c[x] = IF x # m THEN z[x] ELSE IF m \in DOMAIN z THEN z[m] + k ELSE k
    BY <1>2 DEF Counted
  <2> HIDE DEF c
  <2>2. \A x \in DOMAIN z : z[x] \in Nat /\ z[x] # 0
    BY DEF Positive
  <2>3. Positive(c)
    BY <1>2, <2>1, <2>2 DEF Positive
  <2>4. \A x : Score(c, x) = Score(z, x) + (IF x = m THEN k ELSE 0)
    BY <1>2, <2>1, <2>2 DEF Score
  <2> QED
    BY <2>3, <2>4 DEF c
<1> QED
  BY <1>1, <1>2

\* To count down takes it away again, if there is so much to take.
LEMMA UncountedScore ==
    ASSUME NEW z, Positive(z), NEW m, NEW k \in Nat, k <= Score(z, m)
    PROVE  /\ Positive(Uncounted(z, m, k))
           /\ \A x : Score(Uncounted(z, m, k), x) = Score(z, x) - (IF x = m THEN k ELSE 0)
<1>0. \A x \in DOMAIN z : z[x] \in Nat /\ z[x] # 0
  BY DEF Positive
<1>1. CASE k = 0
  BY <1>0, <1>1 DEF Uncounted, Positive, Score
<1>2. CASE k # 0
  <2> DEFINE c == Uncounted(z, m, k)
  <2>1. m \in DOMAIN z /\ k <= z[m]
    BY <1>2 DEF Score
  <2>2. CASE z[m] = k
    <3>1. DOMAIN c = DOMAIN z \ {m} /\ \A x \in DOMAIN z \ {m} : c[x] = z[x]
      BY <1>0, <1>2, <2>1, <2>2 DEF Uncounted
    <3> HIDE DEF c
    <3>2. Positive(c)
      BY <1>0, <3>1 DEF Positive
    <3>3. \A x : Score(c, x) = Score(z, x) - (IF x = m THEN k ELSE 0)
      BY <1>0, <2>1, <2>2, <3>1 DEF Score
    <3> QED
      BY <3>2, <3>3 DEF c
  <2>3. CASE z[m] # k
    <3>1. z[m] \notin 1 .. k
      BY <1>0, <2>1, <2>3
    <3>2. c = [z EXCEPT ![m] = @ - k]
      BY <1>2, <2>1, <3>1 DEF Uncounted
    <3> HIDE DEF c
    <3>3. DOMAIN c = DOMAIN z /\ \A x \in DOMAIN z : c[x] = IF x = m THEN z[m] - k ELSE z[x]
      BY <2>1, <3>2
    <3>4. Positive(c)
      BY <1>0, <2>1, <2>3, <3>3 DEF Positive
    <3>5. \A x : Score(c, x) = Score(z, x) - (IF x = m THEN k ELSE 0)
      BY <1>0, <2>1, <3>3 DEF Score
    <3> QED
      BY <3>4, <3>5 DEF c
  <2> QED
    BY <2>2, <2>3
<1> QED
  BY <1>1, <1>2

\* The same of all tags of a post.
LEMMA TagsCountedScore ==
    ASSUME NEW z, Positive(z), DOMAIN z \subseteq Tags, NEW p \in Posts
    PROVE  /\ Positive(TagsCounted(z, p))
           /\ \A t \in Tags : Score(TagsCounted(z, p), t) = Score(z, t) + p.tags[t]
<1> DEFINE c == TagsCounted(z, p)
           D == DOMAIN z \cup {x \in Tags : p.tags[x] > 0}
<1>1. \A t \in Tags : p.tags[t] \in Nat
  BY PostsAssumption
<1>2. \A t \in DOMAIN z : z[t] \in Nat /\ z[t] # 0
  BY DEF Positive
<1>3. DOMAIN c = D /\ \A t \in D : c[t] = Counted(z, t, p.tags[t])[t]
  BY DEF TagsCounted
<1>4. ASSUME NEW t \in D PROVE c[t] = Score(z, t) + p.tags[t] /\ c[t] \in Nat \ {0}
  <2>1. t \in Tags /\ p.tags[t] \in Nat
    BY <1>1
  <2>2. t \in DOMAIN Counted(z, t, p.tags[t])
    BY <1>4, <2>1 DEF Counted
  <2>3. c[t] = Score(Counted(z, t, p.tags[t]), t)
    BY <1>3, <2>2 DEF Score
  <2>4. Score(Counted(z, t, p.tags[t]), t) = Score(z, t) + p.tags[t] /\ Positive(Counted(z, t, p.tags[t]))
    BY <2>1, CountedScore
  <2> QED
    BY <2>2, <2>3, <2>4 DEF Positive, Score
<1> HIDE DEF c
<1>5. Positive(c)
  BY <1>3, <1>4 DEF Positive
<1>6. ASSUME NEW t \in Tags PROVE Score(c, t) = Score(z, t) + p.tags[t]
  <2>1. CASE t \in D
    BY <1>3, <1>4, <2>1 DEF Score
  <2>2. CASE t \notin D
    BY <1>1, <1>3, <2>2 DEF Score
  <2> QED
    BY <2>1, <2>2
<1> QED
  BY <1>5, <1>6 DEF c

LEMMA TagsUncountedScore ==
    ASSUME NEW z, Positive(z), DOMAIN z \subseteq Tags, NEW p \in Posts,
           \A t \in Tags : p.tags[t] <= Score(z, t)
    PROVE  /\ Positive(TagsUncounted(z, p))
           /\ \A t \in Tags : Score(TagsUncounted(z, p), t) = Score(z, t) - p.tags[t]
<1> DEFINE c == TagsUncounted(z, p)
           U(t) == Uncounted(z, t, p.tags[t])
           D == {t \in DOMAIN z : t \in DOMAIN U(t)}
<1>1. \A t \in Tags : p.tags[t] \in Nat
  BY PostsAssumption
<1>2. \A t \in DOMAIN z : z[t] \in Nat /\ z[t] # 0
  BY DEF Positive
<1>3. DOMAIN c = D /\ \A t \in D : c[t] = U(t)[t]
  BY DEF TagsUncounted
<1>4. ASSUME NEW t \in Tags PROVE Score(U(t), t) = Score(z, t) - p.tags[t] /\ Positive(U(t))
  BY <1>1, UncountedScore
<1> HIDE DEF c, U
<1>5. Positive(c)
  BY <1>3, <1>4 DEF Positive
<1>6. ASSUME NEW t \in Tags PROVE Score(c, t) = Score(z, t) - p.tags[t]
  <2>1. CASE t \in D
    BY <1>3, <1>4, <2>1 DEF Score
  <2>2. CASE t \in DOMAIN z /\ t \notin DOMAIN U(t)
    BY <1>3, <1>4, <2>2 DEF Score
  <2>3. CASE t \notin DOMAIN z
    BY <1>1, <1>3, <2>3 DEF Score
  <2> QED
    BY <2>1, <2>2, <2>3
<1> QED
  BY <1>5, <1>6 DEF c

\* A set of blogs that one blog joins or leaves.
LEMMA OneBlogMore ==
    ASSUME NEW S \in SUBSET Blogs, NEW T \in SUBSET Blogs, NEW b \in Blogs,
           \A x \in Blogs \ {b} : x \in S <=> x \in T
    PROVE  /\ Cardinality(S) \in Nat /\ Cardinality(T) \in Nat
           /\ Cardinality(T) =
                Cardinality(S) - (IF b \in S THEN 1 ELSE 0) + (IF b \in T THEN 1 ELSE 0)
           /\ b \in S => Cardinality(S) >= 1
<1>1. IsFiniteSet(S) /\ IsFiniteSet(T)
  BY FiniteAssumption, FS_Subset
<1>2. Cardinality(S) \in Nat /\ Cardinality(T) \in Nat
  BY <1>1, FS_CardinalityType
<1>3. S \ {b} = T \ {b}
  OBVIOUS
<1>4. /\ Cardinality(S \ {b}) = IF b \in S THEN Cardinality(S) - 1 ELSE Cardinality(S)
      /\ Cardinality(T \ {b}) = IF b \in T THEN Cardinality(T) - 1 ELSE Cardinality(T)
  BY <1>1, FS_RemoveElement
<1>5. Cardinality(S \ {b}) \in Nat
  BY <1>1, FS_RemoveElement, FS_CardinalityType
<1>6. Cardinality(S \ {b}) = Cardinality(T \ {b})
  BY <1>3
<1> DEFINE k == Cardinality(S \ {b})
           s == Cardinality(S)
           t == Cardinality(T)
<1>7. /\ s \in Nat /\ t \in Nat /\ k \in Nat
      /\ k = IF b \in S THEN s - 1 ELSE s
      /\ k = IF b \in T THEN t - 1 ELSE t
  BY <1>2, <1>4, <1>5, <1>6
<1> HIDE DEF k, s, t
<1>8. /\ t = s - (IF b \in S THEN 1 ELSE 0) + (IF b \in T THEN 1 ELSE 0)
      /\ b \in S => s >= 1
  BY <1>7
<1> QED
  BY <1>2, <1>8 DEF s, t

\* The places where blogs name a tag, if each names it so many times.
Places(n) == UNION {{x} \X (1 .. n[x]) : x \in Blogs}

\* The places of the other blogs, and those of one.
LEMMA PlacesSplit ==
    ASSUME NEW n \in [Blogs -> Nat], NEW b \in Blogs
    PROVE  LET others == UNION {{x} \X (1 .. n[x]) : x \in Blogs \ {b}} IN
           /\ IsFiniteSet(Places(n))
           /\ Cardinality(others) \in Nat
           /\ Cardinality(Places(n)) = Cardinality(others) + n[b]
<1> DEFINE T == {{x} \X (1 .. n[x]) : x \in Blogs \ {b}}
           one == {b} \X (1 .. n[b])
<1>1. IsFiniteSet(T)
  <2> DEFINE f == [x \in Blogs \ {b} |-> {x} \X (1 .. n[x])]
  <2>1. f \in Surjection(Blogs \ {b}, T)
    BY DEF Surjection
  <2>2. IsFiniteSet(Blogs \ {b})
    BY FiniteAssumption, FS_RemoveElement
  <2> QED
    BY <2>1, <2>2, FS_Surjection
<1>2. ASSUME NEW x \in Blogs
      PROVE  IsFiniteSet({x} \X (1 .. n[x])) /\ Cardinality({x} \X (1 .. n[x])) = n[x]
  <2>1. IsFiniteSet({x}) /\ Cardinality({x}) = 1
    BY FS_Singleton
  <2>2. IsFiniteSet(1 .. n[x]) /\ Cardinality(1 .. n[x]) = n[x]
    BY FS_Interval
  <2>3. IsFiniteSet({x} \X (1 .. n[x])) /\ Cardinality({x} \X (1 .. n[x])) = 1 * n[x]
    BY <2>1, <2>2, FS_Product
  <2> QED
    BY <2>3
<1>3. IsFiniteSet(UNION T)
  BY <1>1, <1>2, FS_UNION
<1>4. Places(n) = (UNION T) \cup one
  BY DEF Places
<1>5. (UNION T) \cap one = {}
  OBVIOUS
<1>6. IsFiniteSet(one) /\ Cardinality(one) = n[b]
  BY <1>2
<1> DEFINE u == UNION T
<1> HIDE DEF T, one, u
<1>7. IsFiniteSet(u) /\ u \cap one = {} /\ Places(n) = u \cup one
  BY <1>3, <1>4, <1>5 DEF u
<1>8. IsFiniteSet(u \cup one)
      /\ Cardinality(u \cup one) = Cardinality(u) + Cardinality(one) - Cardinality(u \cap one)
  BY <1>6, <1>7, FS_Union
<1>9. Cardinality(u) \in Nat /\ Cardinality(u \cap one) = 0 /\ n[b] \in Nat
  BY <1>7, FS_CardinalityType, FS_EmptySet
<1>10. IsFiniteSet(Places(n)) /\ Cardinality(u) \in Nat /\ Cardinality(Places(n)) = Cardinality(u) + n[b]
  BY <1>6, <1>7, <1>8, <1>9
<1> QED
  BY <1>10 DEF u, T

\* What one blog names more or less.
LEMMA PlacesChange ==
    ASSUME NEW n \in [Blogs -> Nat], NEW m \in [Blogs -> Nat], NEW b \in Blogs,
           \A x \in Blogs \ {b} : n[x] = m[x]
    PROVE  /\ Cardinality(Places(n)) \in Nat
           /\ n[b] <= Cardinality(Places(n))
           /\ Cardinality(Places(m)) = Cardinality(Places(n)) - n[b] + m[b]
<1> DEFINE others(k) == UNION {{x} \X (1 .. k[x]) : x \in Blogs \ {b}}
<1>1. others(n) = others(m)
  <2>1. \A x \in Blogs \ {b} : {x} \X (1 .. n[x]) = {x} \X (1 .. m[x])
    OBVIOUS
  <2> QED
    BY <2>1
<1>2. /\ Cardinality(others(n)) \in Nat
      /\ Cardinality(Places(n)) = Cardinality(others(n)) + n[b]
      /\ Cardinality(Places(m)) = Cardinality(others(m)) + m[b]
  BY PlacesSplit
<1> HIDE DEF others
<1> QED
  BY <1>1, <1>2

\* The counters, each member with the number of what it counts.
CountsRight ==
    /\ Positive(categories) /\ Positive(tags)
    /\ \A c \in Categories : Score(categories, c) = Cardinality(BlogsOf(c))
    /\ \A t \in Tags : Score(tags, t) = Cardinality(Mentions(t))

\* A script changes what a blog has: the blogs of a category and the places of a tag
\* grow by what it has now and shrink by what it had.
LEMMA BlogChanges ==
    ASSUME TypeOK, TypeOK', NEW b \in Blogs, \A x \in Blogs \ {b} : data'[x] = data[x]
    PROVE  /\ \A c \in Categories :
                /\ Cardinality(BlogsOf(c)) \in Nat
                /\ (IF b \in BlogsOf(c) THEN 1 ELSE 0) <= Cardinality(BlogsOf(c))
                /\ Cardinality(BlogsOf(c)') = Cardinality(BlogsOf(c))
                     - (IF b \in BlogsOf(c) THEN 1 ELSE 0) + (IF b \in BlogsOf(c)' THEN 1 ELSE 0)
           /\ \A t \in Tags :
                /\ Times(b, t) \in Nat /\ Times(b, t)' \in Nat
                /\ Cardinality(Mentions(t)) \in Nat
                /\ Times(b, t) <= Cardinality(Mentions(t))
                /\ Cardinality(Mentions(t)') = Cardinality(Mentions(t)) - Times(b, t) + Times(b, t)'
<1>1. ASSUME NEW c \in Categories
      PROVE  /\ Cardinality(BlogsOf(c)) \in Nat
             /\ (IF b \in BlogsOf(c) THEN 1 ELSE 0) <= Cardinality(BlogsOf(c))
             /\ Cardinality(BlogsOf(c)') = Cardinality(BlogsOf(c))
                  - (IF b \in BlogsOf(c) THEN 1 ELSE 0) + (IF b \in BlogsOf(c)' THEN 1 ELSE 0)
  <2> DEFINE S == BlogsOf(c)
             T == BlogsOf(c)'
  <2>1. S \in SUBSET Blogs /\ T \in SUBSET Blogs /\ \A x \in Blogs \ {b} : x \in S <=> x \in T
    BY DEF BlogsOf
  <2> HIDE DEF S, T
  <2>2. /\ Cardinality(S) \in Nat /\ Cardinality(T) \in Nat
        /\ Cardinality(T) =
             Cardinality(S) - (IF b \in S THEN 1 ELSE 0) + (IF b \in T THEN 1 ELSE 0)
        /\ b \in S => Cardinality(S) >= 1
    BY <2>1, OneBlogMore
  <2>3. (IF b \in S THEN 1 ELSE 0) <= Cardinality(S)
    BY <2>2
  <2> QED
    BY <2>2, <2>3 DEF S, T
<1>2. ASSUME NEW t \in Tags
      PROVE  /\ Times(b, t) \in Nat /\ Times(b, t)' \in Nat
             /\ Cardinality(Mentions(t)) \in Nat
             /\ Times(b, t) <= Cardinality(Mentions(t))
             /\ Cardinality(Mentions(t)') = Cardinality(Mentions(t)) - Times(b, t) + Times(b, t)'
  <2> DEFINE n == [x \in Blogs |-> Times(x, t)]
             m == [x \in Blogs |-> Times(x, t)']
  <2>1. \A x \in Blogs : Times(x, t) \in Nat /\ Times(x, t)' \in Nat
    BY PostsAssumption DEF TypeOK, Times
  <2>2. Mentions(t) = Places(n) /\ Mentions(t)' = Places(m)
    <3>1. \A x \in Blogs : n[x] = Times(x, t) /\ m[x] = Times(x, t)'
      OBVIOUS
    <3> HIDE DEF n, m
    <3>2. Mentions(t) = UNION {{x} \X (1 .. Times(x, t)) : x \in Blogs}
          /\ Mentions(t)' = UNION {{x} \X (1 .. Times(x, t)') : x \in Blogs}
      BY DEF Mentions
    <3>3. {{x} \X (1 .. Times(x, t)) : x \in Blogs} = {{x} \X (1 .. n[x]) : x \in Blogs}
      BY <3>1
    <3>4. {{x} \X (1 .. Times(x, t)') : x \in Blogs} = {{x} \X (1 .. m[x]) : x \in Blogs}
      BY <3>1
    <3> QED
      BY <3>2, <3>3, <3>4 DEF Places
  <2>3. n \in [Blogs -> Nat] /\ m \in [Blogs -> Nat] /\ \A x \in Blogs \ {b} : n[x] = m[x]
    BY <2>1 DEF Times
  <2>4. n[b] = Times(b, t) /\ m[b] = Times(b, t)'
    OBVIOUS
  <2> HIDE DEF n, m
  <2>5. /\ Cardinality(Places(n)) \in Nat
        /\ n[b] <= Cardinality(Places(n))
        /\ Cardinality(Places(m)) = Cardinality(Places(n)) - n[b] + m[b]
    BY <2>3, PlacesChange
  <2> QED
    BY <2>1, <2>2, <2>4, <2>5
<1> QED
  BY <1>1, <1>2

LEMMA CountsInit ==
    ASSUME Init
    PROVE  CountsRight
<1>1. Positive(categories) /\ Positive(tags)
  BY DEF Init, NoMembers, Positive
<1>2. \A x : Score(categories, x) = 0 /\ Score(tags, x) = 0
  BY DEF Init, NoMembers, Score
<1>3. ASSUME NEW c PROVE Cardinality(BlogsOf(c)) = 0
  <2>1. BlogsOf(c) = {}
    BY DEF Init, BlogsOf
  <2> QED
    BY <2>1, FS_EmptySet
<1>4. ASSUME NEW t PROVE Cardinality(Mentions(t)) = 0
  <2>1. \A b \in Blogs : Times(b, t) = 0
    BY DEF Init, Times
  <2>2. Mentions(t) = {}
    BY <2>1 DEF Mentions
  <2> QED
    BY <2>2, FS_EmptySet
<1> QED
  BY <1>1, <1>2, <1>3, <1>4 DEF CountsRight

LEMMA CreateCounts ==
    ASSUME Base, CountsRight, NEW a \in Admins, NEW b \in Blogs, NEW p \in Posts, NEW c \in Contents,
           Create(a, b, p, c)
    PROVE  CountsRight'
<1>1. TypeOK /\ TypeOK'
  BY CreateType DEF Base
<1>2. data' = [data EXCEPT ![b] = p] /\ data[b] = Null /\ data'[b] = p /\ p # Null
  BY <1>1, NullApart DEF Create, Stored, TypeOK
<1>3. p.category \in Categories /\ \A t \in Tags : p.tags[t] \in Nat
  BY PostsAssumption
<1>4. categories' = Counted(categories, p.category, 1) /\ tags' = TagsCounted(tags, p)
  BY DEF Create
<1>5. ASSUME NEW d \in Categories
      PROVE  b \notin BlogsOf(d) /\ (b \in BlogsOf(d)' <=> d = p.category)
  BY <1>2 DEF BlogsOf
<1>6. ASSUME NEW t \in Tags
      PROVE  Times(b, t) = 0 /\ Times(b, t)' = p.tags[t]
  BY <1>2 DEF Times
<1>7. \A x \in Blogs \ {b} : data'[x] = data[x]
  BY <1>1, <1>2 DEF TypeOK
<1>8. Positive(categories) /\ Positive(tags) /\ DOMAIN tags \subseteq Tags
  BY <1>1 DEF CountsRight, TypeOK
<1>9. Positive(categories') /\ \A x : Score(categories', x) = Score(categories, x) + (IF x = p.category THEN 1 ELSE 0)
  BY <1>4, <1>8, CountedScore
<1>10. Positive(tags') /\ \A t \in Tags : Score(tags', t) = Score(tags, t) + p.tags[t]
  BY <1>4, <1>8, TagsCountedScore
<1>11. ASSUME NEW d \in Categories PROVE Score(categories', d) = Cardinality(BlogsOf(d)')
  <2>1. Cardinality(BlogsOf(d)') = Cardinality(BlogsOf(d)) + (IF d = p.category THEN 1 ELSE 0)
    BY <1>1, <1>5, <1>7, BlogChanges
  <2> QED
    BY <1>9, <2>1 DEF CountsRight
<1>12. ASSUME NEW t \in Tags PROVE Score(tags', t) = Cardinality(Mentions(t)')
  <2>1. Cardinality(Mentions(t)') = Cardinality(Mentions(t)) + p.tags[t]
    BY <1>1, <1>3, <1>6, <1>7, BlogChanges
  <2> QED
    BY <1>10, <2>1 DEF CountsRight
<1> QED
  BY <1>9, <1>10, <1>11, <1>12 DEF CountsRight, Positive, Score

LEMMA DeleteCounts ==
    ASSUME Base, CountsRight, NEW a \in Admins, NEW b \in Blogs, Delete(a, b)
    PROVE  CountsRight'
<1> DEFINE old == data[b]
<1>1. TypeOK /\ TypeOK'
  BY DeleteType DEF Base
<1>2. data' = [data EXCEPT ![b] = Null] /\ data[b] # Null /\ data[b] \in Posts /\ data'[b] = Null
  BY <1>1 DEF Delete, Removed, TypeOK
<1>3. old.category \in Categories /\ \A t \in Tags : old.tags[t] \in Nat
  BY <1>2, PostsAssumption
<1>4. categories' = Uncounted(categories, old.category, 1) /\ tags' = TagsUncounted(tags, old)
  BY DEF Delete
<1>5. ASSUME NEW d \in Categories
      PROVE  b \notin BlogsOf(d)' /\ (b \in BlogsOf(d) <=> d = old.category)
  BY <1>2 DEF BlogsOf
<1>6. ASSUME NEW t \in Tags
      PROVE  Times(b, t) = old.tags[t] /\ Times(b, t)' = 0
  BY <1>2 DEF Times
<1>7. \A x \in Blogs \ {b} : data'[x] = data[x]
  BY <1>1, <1>2 DEF TypeOK
<1>8. Positive(categories) /\ Positive(tags) /\ DOMAIN tags \subseteq Tags
  BY <1>1 DEF CountsRight, TypeOK
<1>9. ASSUME NEW d \in Categories
      PROVE  /\ Cardinality(BlogsOf(d)) \in Nat
             /\ d = old.category => Cardinality(BlogsOf(d)) >= 1
             /\ Cardinality(BlogsOf(d)') = Cardinality(BlogsOf(d)) - (IF d = old.category THEN 1 ELSE 0)
  <2>1. /\ Cardinality(BlogsOf(d)) \in Nat
        /\ (IF d = old.category THEN 1 ELSE 0) <= Cardinality(BlogsOf(d))
        /\ Cardinality(BlogsOf(d)') = Cardinality(BlogsOf(d)) - (IF d = old.category THEN 1 ELSE 0) + 0
    BY <1>1, <1>5, <1>7, BlogChanges
  <2> QED
    BY <2>1
<1>10. ASSUME NEW t \in Tags
       PROVE  /\ old.tags[t] <= Score(tags, t)
              /\ Cardinality(Mentions(t)') = Score(tags, t) - old.tags[t]
  <2>1. /\ Cardinality(Mentions(t)) \in Nat /\ old.tags[t] <= Cardinality(Mentions(t))
        /\ Cardinality(Mentions(t)') = Cardinality(Mentions(t)) - old.tags[t] + 0
    BY <1>1, <1>6, <1>7, BlogChanges
  <2> QED
    BY <1>3, <2>1 DEF CountsRight
<1>11. 1 <= Score(categories, old.category)
  BY <1>3, <1>9 DEF CountsRight
<1>12. Positive(categories') /\ \A x : Score(categories', x) = Score(categories, x) - (IF x = old.category THEN 1 ELSE 0)
  BY <1>4, <1>8, <1>11, UncountedScore
<1>13. Positive(tags') /\ \A t \in Tags : Score(tags', t) = Score(tags, t) - old.tags[t]
  BY <1>2, <1>4, <1>8, <1>10, TagsUncountedScore
<1>14. \A d \in Categories : Score(categories', d) = Cardinality(BlogsOf(d)')
  BY <1>9, <1>12 DEF CountsRight
<1>15. \A t \in Tags : Score(tags', t) = Cardinality(Mentions(t)')
  BY <1>10, <1>13
<1> QED
  BY <1>12, <1>13, <1>14, <1>15 DEF CountsRight, Positive, Score

LEMMA UpdateCounts ==
    ASSUME Base, CountsRight, NEW a \in Admins, NEW b \in Blogs, NEW p \in Posts, NEW c \in Contents,
           Update(a, b, p, c)
    PROVE  CountsRight'
<1> DEFINE old == data[b]
<1>1. TypeOK /\ TypeOK'
  BY UpdateType DEF Base
<1>2. /\ data' = [data EXCEPT ![b] = p] /\ old # Null /\ old \in Posts /\ data'[b] = p /\ p # Null
  BY <1>1, NullApart DEF Update, Stored, TypeOK
<1>3. /\ old.category \in Categories /\ \A t \in Tags : old.tags[t] \in Nat
      /\ p.category \in Categories /\ \A t \in Tags : p.tags[t] \in Nat
  BY <1>2, PostsAssumption
<1>4. ASSUME NEW d \in Categories
      PROVE  (b \in BlogsOf(d) <=> d = old.category) /\ (b \in BlogsOf(d)' <=> d = p.category)
  BY <1>2 DEF BlogsOf
<1>5. ASSUME NEW t \in Tags
      PROVE  Times(b, t) = old.tags[t] /\ Times(b, t)' = p.tags[t]
  BY <1>2 DEF Times
<1>6. \A x \in Blogs \ {b} : data'[x] = data[x]
  BY <1>1, <1>2 DEF TypeOK
<1>7. Positive(categories) /\ Positive(tags) /\ DOMAIN tags \subseteq Tags
  BY <1>1 DEF CountsRight, TypeOK
<1>8. ASSUME NEW d \in Categories
      PROVE  /\ Cardinality(BlogsOf(d)) \in Nat
             /\ (IF d = old.category THEN 1 ELSE 0) <= Cardinality(BlogsOf(d))
             /\ Cardinality(BlogsOf(d)') = Cardinality(BlogsOf(d))
                  - (IF d = old.category THEN 1 ELSE 0) + (IF d = p.category THEN 1 ELSE 0)
  BY <1>1, <1>4, <1>6, BlogChanges
<1>9. ASSUME NEW t \in Tags
      PROVE  /\ old.tags[t] <= Score(tags, t) /\ Score(tags, t) \in Nat
             /\ Cardinality(Mentions(t)') = Score(tags, t) - old.tags[t] + p.tags[t]
  <2>1. /\ Cardinality(Mentions(t)) \in Nat /\ old.tags[t] <= Cardinality(Mentions(t))
        /\ Cardinality(Mentions(t)') = Cardinality(Mentions(t)) - old.tags[t] + p.tags[t]
    BY <1>1, <1>5, <1>6, BlogChanges
  <2> QED
    BY <2>1 DEF CountsRight
<1>10. /\ Positive(categories')
       /\ \A d \in Categories : Score(categories', d) = Score(categories, d)
            - (IF d = old.category THEN 1 ELSE 0) + (IF d = p.category THEN 1 ELSE 0)
  <2>1. CASE old.category = p.category
    <3>1. categories' = categories
      BY <2>1 DEF Update
    <3>2. \A d \in Categories : Score(categories, d) \in Nat
      BY <1>8 DEF CountsRight
    <3> QED
      BY <1>7, <2>1, <3>1, <3>2
  <2>2. CASE old.category # p.category
    <3> DEFINE left == Uncounted(categories, old.category, 1)
    <3>1. categories' = Counted(left, p.category, 1)
      BY <2>2 DEF Update
    <3>2. 1 <= Score(categories, old.category)
      BY <1>3, <1>8 DEF CountsRight
    <3>3. Positive(left) /\ \A x : Score(left, x) = Score(categories, x) - (IF x = old.category THEN 1 ELSE 0)
      BY <1>7, <3>2, UncountedScore
    <3> HIDE DEF left
    <3>4. Positive(categories') /\ \A x : Score(categories', x) = Score(left, x) + (IF x = p.category THEN 1 ELSE 0)
      BY <3>1, <3>3, CountedScore
    <3> QED
      BY <3>3, <3>4
  <2> QED
    BY <2>1, <2>2
<1>11. Positive(tags') /\ \A t \in Tags : Score(tags', t) = Score(tags, t) - old.tags[t] + p.tags[t]
  <2> DEFINE left == TagsUncounted(tags, old)
  <2>1. tags' = TagsCounted(left, p)
    BY DEF Update, Recounted
  <2>2. Positive(left) /\ \A t \in Tags : Score(left, t) = Score(tags, t) - old.tags[t]
    BY <1>2, <1>7, <1>9, TagsUncountedScore
  <2>3. DOMAIN left \subseteq Tags
    BY <1>7 DEF TagsUncounted
  <2> HIDE DEF left
  <2>4. Positive(tags') /\ \A t \in Tags : Score(tags', t) = Score(left, t) + p.tags[t]
    BY <2>1, <2>2, <2>3, TagsCountedScore
  <2> QED
    BY <2>2, <2>4
<1>12. \A d \in Categories : Score(categories', d) = Cardinality(BlogsOf(d)')
  BY <1>8, <1>10 DEF CountsRight
<1>13. \A t \in Tags : Score(tags', t) = Cardinality(Mentions(t)')
  BY <1>9, <1>11
<1> QED
  BY <1>10, <1>11, <1>12, <1>13 DEF CountsRight, Positive, Score

LEMMA CountsKept ==
    ASSUME CountsRight, UNCHANGED <<data, categories, tags>>
    PROVE  CountsRight'
<1>1. \A c : BlogsOf(c)' = BlogsOf(c)
  BY DEF BlogsOf
<1>2. \A t : Mentions(t)' = Mentions(t)
  BY DEF Mentions, Times
<1> QED
  BY <1>1, <1>2 DEF CountsRight, Positive, Score

LEMMA CountsStep ==
    ASSUME Base, CountsRight, [Next]_vars
    PROVE  CountsRight'
<1>1. CASE UNCHANGED redisVars
  BY <1>1, CountsKept DEF redisVars
<1>2. CASE ~UNCHANGED redisVars
  <2>1. \E a \in Admins, b \in Blogs :
          \/ \E p \in Posts, c \in Contents : Create(a, b, p, c) \/ Update(a, b, p, c)
          \/ Delete(a, b)
    BY <1>2 DEF Next, vars, CallIndex, Sync, TakeSync, SyncDelete, SyncContent, SyncIndex, SyncEnd,
       SyncData, View, CountView, Crash
  <2> QED
    BY <2>1, CreateCounts, UpdateCounts, DeleteCounts
<1> QED
  BY <1>1, <1>2

\* Members of positive scores are those that score something.
LEMMA RightByScore ==
    ASSUME Base, CountsRight
    PROVE  CategoriesRight /\ TagsRight
<1>1. ASSUME NEW c \in Categories PROVE c \in DOMAIN categories <=> BlogsOf(c) # {}
  <2>1. IsFiniteSet(BlogsOf(c))
    BY FiniteAssumption, FS_Subset DEF BlogsOf
  <2>2. Cardinality(BlogsOf(c)) = 0 <=> BlogsOf(c) = {}
    BY <2>1, FS_EmptySet
  <2>3. c \in DOMAIN categories <=> Score(categories, c) # 0
    BY DEF CountsRight, Positive, Score
  <2> QED
    BY <2>2, <2>3 DEF CountsRight
<1>2. CategoriesRight
  BY <1>1 DEF CategoriesRight, CountsRight, Score, Base, TypeOK
<1>3. ASSUME NEW t \in Tags PROVE t \in DOMAIN tags <=> Mentions(t) # {}
  <2> DEFINE n == [x \in Blogs |-> Times(x, t)]
  <2>1. n \in [Blogs -> Nat]
    BY PostsAssumption DEF Base, TypeOK, Times
  <2>2. Places(n) = Mentions(t)
    <3>1. \A x \in Blogs : n[x] = Times(x, t)
      OBVIOUS
    <3> HIDE DEF n
    <3>2. {{x} \X (1 .. Times(x, t)) : x \in Blogs} = {{x} \X (1 .. n[x]) : x \in Blogs}
      BY <3>1
    <3> QED
      BY <3>2 DEF Mentions, Places
  <2> HIDE DEF n
  <2>3. Blogs # {} => IsFiniteSet(Places(n))
    BY <2>1, PlacesSplit
  <2>4. Blogs = {} => Mentions(t) = {}
    BY DEF Mentions
  <2>5. IsFiniteSet(Mentions(t))
    BY <2>2, <2>3, <2>4, FS_EmptySet
  <2>6. Cardinality(Mentions(t)) = 0 <=> Mentions(t) = {}
    BY <2>5, FS_EmptySet
  <2>7. t \in DOMAIN tags <=> Score(tags, t) # 0
    BY DEF CountsRight, Positive, Score
  <2> QED
    BY <2>6, <2>7 DEF CountsRight
<1>4. TagsRight
  BY <1>3 DEF TagsRight, CountsRight, Score, Base, TypeOK
<1> QED
  BY <1>2, <1>4

\* The scripts count up what a blog gains and down what it loses, one at a time, and
\* remove a member at '0': the counter of categories has the categories of the blogs there
\* are, with how many blogs each has.
THEOREM CategoriesRightHolds == Spec => []CategoriesRight
<1>1. Init => Base /\ CountsRight
  BY BaseInit, CountsInit
<1>2. Base /\ CountsRight /\ [Next]_vars => (Base /\ CountsRight)'
  BY BaseStep, CountsStep
<1>3. Base /\ CountsRight => CategoriesRight
  BY RightByScore
<1> QED
  BY <1>1, <1>2, <1>3, PTL DEF Spec

\* The same of the tags, of which a blog may name one twice.
THEOREM TagsRightHolds == Spec => []TagsRight
<1>1. Init => Base /\ CountsRight
  BY BaseInit, CountsInit
<1>2. Base /\ CountsRight /\ [Next]_vars => (Base /\ CountsRight)'
  BY BaseStep, CountsStep
<1>3. Base /\ CountsRight => TagsRight
  BY RightByScore
<1> QED
  BY <1>1, <1>2, <1>3, PTL DEF Spec

=============================================================================
