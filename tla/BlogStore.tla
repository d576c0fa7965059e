----------------------------- MODULE BlogStore -----------------------------
(***************************************************************************)
(* Where the blog server keeps its blogs: the data and the content of a blog, *)
(* the ids, the views and the counters of categories and tags in Redis, which *)
(* a Lua script changes in one step, and a document per blog in the search    *)
(* index, which is changed after the script by another call.                  *)
(***************************************************************************)
EXTENDS Integers, FiniteSets, Sequences

CONSTANTS
    Blogs,        \* ids of blogs
    Categories,   \* names of categories
    Tags,         \* names of tags
    Posts,        \* what an admin writes about a blog: a category and its tags
    Contents,     \* what an admin writes in a blog
    Admins,       \* the threads that serve requests
    SyncThread,   \* the one thread of the pool that syncs
    ALL,          \* sync: every blog
    Null,         \* no value
    SyncQueue,    \* capacity of the queue of syncs
    ViewQueue,    \* capacity of the queue of views
    MaxCalls      \* bound: how many requests, views, failures and crashes there are

ASSUME PostsAssumption ==
    \A p \in Posts : /\ p.category \in Categories
                     /\ p.tags \in [Tags -> Nat]   \* a tag may be named twice
ASSUME BoundsAssumption == SyncQueue \in Nat /\ ViewQueue \in Nat /\ MaxCalls \in Nat
ASSUME FiniteAssumption == IsFiniteSet(Blogs)

Document == [data : Posts, content : Contents]
Threads == Admins \cup {SyncThread}
Operation == [op : {"index", "update", "delete"}, id : Blogs, doc : Document \cup {Null}]
Job == [id : Blogs \cup {ALL}, todo : SUBSET Blogs]
Run == [id : Blogs \cup {ALL}, todo : SUBSET Blogs, cleared : BOOLEAN,
        at : Blogs \cup {Null}, data : Posts \cup {Null}, content : Contents \cup {Null}]

ASSUME NullAssumption ==
    /\ Null \notin Blogs \cup Posts \cup Contents \cup Document \cup Operation \cup Run \cup Nat
    /\ ALL \notin Blogs /\ SyncThread \notin Admins


VARIABLES
    data, content,     \* the keys Blog:Blog:id and Blog:Content:id
    ids,               \* members of the zset Blog:Ids
    categories, tags,  \* the zsets that count: members and their scores
    views,             \* the zset Blog:Views
    index,             \* the documents of the search index
    pending,           \* the call of the search index each request has still to make
    queue,             \* the syncs that wait for the thread of the pool
    running,           \* the sync each thread runs
    viewed,            \* the views that wait for the thread that counts them
    calls              \* how much of MaxCalls is used

\* History: the blogs ever created, those whose document may be wrong because two
\* units of work on them overlapped or a call of the index failed.
VARIABLES created, disturbed

redisVars == <<data, content, ids, categories, tags>>
syncVars == <<queue, running>>
vars == <<redisVars, views, index, pending, syncVars, viewed, calls, created, disturbed>>

TypeOK ==
    /\ data \in [Blogs -> Posts \cup {Null}]
    /\ content \in [Blogs -> Contents \cup {Null}]
    /\ ids \subseteq Blogs
    /\ DOMAIN categories \subseteq Categories /\ categories \in [DOMAIN categories -> Int]
    /\ DOMAIN tags \subseteq Tags /\ tags \in [DOMAIN tags -> Int]
    /\ views \in [Blogs -> Nat \cup {Null}]
    /\ index \in [Blogs -> Document \cup {Null}]
    /\ pending \in [Admins -> Operation \cup {Null}]
    /\ queue \in Seq(Job) /\ Len(queue) <= SyncQueue
    /\ running \in [Threads -> Run \cup {Null}]
    /\ viewed \in Seq(Blogs) /\ Len(viewed) <= ViewQueue
    /\ calls \in 0 .. MaxCalls
    /\ created \subseteq Blogs /\ disturbed \subseteq Blogs

NoMembers == [x \in {} |-> 0]

Init ==
    /\ data = [b \in Blogs |-> Null] /\ content = [b \in Blogs |-> Null]
    /\ ids = {} /\ categories = NoMembers /\ tags = NoMembers
    /\ views = [b \in Blogs |-> Null]
    /\ index = [b \in Blogs |-> Null]
    /\ pending = [a \in Admins |-> Null]
    /\ queue = <<>>
    /\ running = [th \in Threads |-> Null]
    /\ viewed = <<>>
    /\ calls = 0
    /\ created = {} /\ disturbed = {}

Call == calls < MaxCalls /\ calls' = calls + 1
Idle(a) == pending[a] = Null /\ running[a] = Null

\* The threads at work on a blog: a request between its script and its call of the
\* index, a sync that has deleted the document or read the data.
Working(b) ==
    {a \in Admins : pending[a] # Null /\ pending[a].id = b}
    \cup {th \in Threads : running[th] # Null /\
            (running[th].at = b \/ (running[th].id = b /\ running[th].cleared /\ b \in running[th].todo))}

\* Work on a blog begins, and disturbs what is under way.
Begins(b) == disturbed' = IF Working(b) = {} THEN disturbed ELSE disturbed \cup {b}

-----------------------------------------------------------------------------
(* The scripts                                                             *)

\* A member of a zset is counted up, or added.
Counted(zset, m, k) ==
    IF k = 0 THEN zset
    ELSE [x \in DOMAIN zset \cup {m} |->
            IF x # m THEN zset[x] ELSE IF m \in DOMAIN zset THEN zset[m] + k ELSE k]

\* Mutant of Uncounted: the result is compared with a number, and never is '0'.
UncountedStays(zset, m, k) ==
    IF k = 0 \/ m \notin DOMAIN zset THEN zset ELSE [zset EXCEPT ![m] = @ - k]

\* A member is counted down, one at a time, and removed when its score is '0'.
Uncounted(zset, m, k) ==
    IF k = 0 \/ m \notin DOMAIN zset THEN zset
    ELSE IF zset[m] \in 1 .. k THEN [x \in DOMAIN zset \ {m} |-> zset[x]]
    ELSE [zset EXCEPT ![m] = @ - k]

\* All tags of a post, counted up and down.
TagsCounted(zset, p) ==
    [t \in DOMAIN zset \cup {x \in Tags : p.tags[x] > 0} |-> Counted(zset, t, p.tags[t])[t]]

TagsUncounted(zset, p) ==
    [t \in {x \in DOMAIN zset : x \in DOMAIN Uncounted(zset, x, p.tags[x])} |->
        Uncounted(zset, t, p.tags[t])[t]]

\* What is written of a blog, and its id.
Stored(b, p, c) ==
    /\ data' = [data EXCEPT ![b] = p] /\ content' = [content EXCEPT ![b] = c]
    /\ ids' = ids \cup {b}

\* Mutant of Removed: the id stays.
RemovedKeepsId(b) ==
    /\ data' = [data EXCEPT ![b] = Null] /\ content' = [content EXCEPT ![b] = Null]
    /\ views' = [views EXCEPT ![b] = Null]
    /\ UNCHANGED ids

\* Everything a blog has is removed.
Removed(b) ==
    /\ data' = [data EXCEPT ![b] = Null] /\ content' = [content EXCEPT ![b] = Null]
    /\ views' = [views EXCEPT ![b] = Null]
    /\ ids' = ids \ {b}

\* createBlog.lua, called by create: nothing happens if the blog is there.  The call
\* of the index is still to come.  An id is new: it is a random UUID.
Create(a, b, p, c) ==
    /\ Call /\ Idle(a)
    /\ b \notin created
    /\ data[b] = Null
    /\ Stored(b, p, c)
    /\ categories' = Counted(categories, p.category, 1)
    /\ tags' = TagsCounted(tags, p)
    /\ views' = [views EXCEPT ![b] = 0]
    /\ pending' = [pending EXCEPT ![a] =
                    [op |-> "index", id |-> b, doc |-> [data |-> p, content |-> c]]]
    /\ Begins(b)
    /\ created' = created \cup {b}
    /\ UNCHANGED <<index, syncVars, viewed>>

\* Mutant of Recounted: the tags the blog had are not counted down.
RecountedOnly(old, p) == TagsCounted(tags, p)

\* What updateBlog.lua does to the counter of tags.
Recounted(old, p) == TagsCounted(TagsUncounted(tags, old), p)

\* updateBlog.lua, called by update: if the blog is not there, nothing happens.
Update(a, b, p, c) ==
    LET old == data[b] IN
    /\ Call /\ Idle(a)
    /\ old # Null
    /\ Stored(b, p, c)
    /\ categories' = IF old.category = p.category THEN categories
                     ELSE Counted(Uncounted(categories, old.category, 1), p.category, 1)
    /\ tags' = Recounted(old, p)
    /\ pending' = [pending EXCEPT ![a] =
                    [op |-> "update", id |-> b, doc |-> [data |-> p, content |-> c]]]
    /\ Begins(b)
    /\ UNCHANGED <<views, index, syncVars, viewed, created>>

\* deleteBlog.lua, called by delete.
Delete(a, b) ==
    LET old == data[b] IN
    /\ Call /\ Idle(a)
    /\ old # Null
    /\ Removed(b)
    /\ categories' = Uncounted(categories, old.category, 1)
    /\ tags' = TagsUncounted(tags, old)
    /\ pending' = [pending EXCEPT ![a] = [op |-> "delete", id |-> b, doc |-> Null]]
    /\ Begins(b)
    /\ UNCHANGED <<index, syncVars, viewed, created>>

-----------------------------------------------------------------------------
(* The search index                                                        *)

\* The document after a call: to update one that is not there fails, and there is
\* none after a delete.
Called(o, doc) == IF o.op = "update" /\ doc = Null THEN Null ELSE o.doc

\* Mutant of CallIndex: the request is answered before the index is called.
CallIndexNever(a) ==
    /\ pending[a] # Null
    /\ pending' = [pending EXCEPT ![a] = Null]
    /\ UNCHANGED <<redisVars, views, index, syncVars, viewed, calls, created, disturbed>>

\* The request calls the index; an exception is logged and passed over.
CallIndex(a) ==
    LET o == pending[a] IN
    /\ o # Null
    /\ pending' = [pending EXCEPT ![a] = Null]
    /\ \/ /\ index' = [index EXCEPT ![o.id] = Called(o, @)]
          /\ UNCHANGED <<disturbed, calls>>
       \/ /\ Call
          /\ disturbed' = disturbed \cup {o.id}
          /\ UNCHANGED index
    /\ UNCHANGED <<redisVars, views, syncVars, viewed, created>>

-----------------------------------------------------------------------------
(* sync                                                                    *)

Started(job) ==
    [id |-> job.id, todo |-> job.todo, cleared |-> FALSE, at |-> Null, data |-> Null, content |-> Null]

\* Mutant of Full: a queue takes one more than its capacity.
FullLate(q, capacity) == Len(q) > capacity

\* A pool of one thread has a queue of a capacity; when it is full the caller runs
\* what it has submitted.
Full(q, capacity) == Len(q) >= capacity

\* sync of one blog, or of all there are now.
Sync(a, id) ==
    LET job == [id |-> id, todo |-> IF id = ALL THEN ids ELSE {id}] IN
    /\ Call /\ Idle(a)
    /\ \/ /\ ~Full(queue, SyncQueue)
          /\ queue' = Append(queue, job)
          /\ UNCHANGED running
       \/ /\ Full(queue, SyncQueue)
          /\ running' = [running EXCEPT ![a] = Started(job)]
          /\ UNCHANGED queue
    /\ UNCHANGED <<redisVars, views, index, pending, viewed, created, disturbed>>

\* The thread of the pool takes the next sync.
TakeSync ==
    /\ running[SyncThread] = Null /\ queue # <<>>
    /\ running' = [running EXCEPT ![SyncThread] = Started(Head(queue))]
    /\ queue' = Tail(queue)
    /\ UNCHANGED <<redisVars, views, index, pending, viewed, calls, created, disturbed>>

\* The document of the id is deleted, or the call fails.  The id of a sync of all is
\* "ALL", which is not blank: the one document of that id is deleted, and there is none.
SyncDelete(th) ==
    LET r == running[th] IN
    /\ r # Null /\ ~r.cleared
    /\ running' = [running EXCEPT ![th].cleared = TRUE]
    /\ \/ /\ r.id = ALL
          /\ UNCHANGED <<index, disturbed, calls>>
       \/ /\ r.id # ALL
          /\ index' = [index EXCEPT ![r.id] = Null]
          /\ disturbed' = IF Working(r.id) = {} THEN disturbed \ {r.id} ELSE disturbed \cup {r.id}
          /\ UNCHANGED calls
       \/ /\ r.id # ALL /\ Call
          /\ disturbed' = disturbed \cup {r.id}
          /\ UNCHANGED index
    /\ UNCHANGED <<redisVars, views, pending, queue, viewed, created>>

\* The data of the next blog is read; a blog that has gone is passed over.
SyncData(th, b) ==
    LET r == running[th] IN
    /\ r # Null /\ r.cleared /\ r.at = Null
    /\ b \in r.todo
    /\ \/ /\ data[b] = Null
          /\ running' = [running EXCEPT ![th].todo = @ \ {b}]
          /\ UNCHANGED disturbed
       \/ /\ data[b] # Null
          /\ running' = [running EXCEPT ![th].todo = @ \ {b}, ![th].at = b, ![th].data = data[b]]
          /\ disturbed' = IF Working(b) \subseteq {th} THEN disturbed \ {b} ELSE disturbed \cup {b}
    /\ UNCHANGED <<redisVars, views, index, pending, queue, viewed, calls, created>>

\* The content is read.
SyncContent(th) ==
    LET r == running[th] IN
    /\ r # Null /\ r.at # Null /\ r.content = Null
    /\ \/ /\ content[r.at] = Null
          /\ running' = [running EXCEPT ![th].at = Null, ![th].data = Null]
       \/ /\ content[r.at] # Null
          /\ running' = [running EXCEPT ![th].content = content[r.at]]
    /\ UNCHANGED <<redisVars, views, index, pending, queue, viewed, calls, created, disturbed>>

\* The document is made of the data and the content, or the call fails.
SyncIndex(th) ==
    LET r == running[th] IN
    /\ r # Null /\ r.content # Null
    /\ running' = [running EXCEPT ![th].at = Null, ![th].data = Null, ![th].content = Null]
    /\ \/ /\ index' = [index EXCEPT ![r.at] = [data |-> r.data, content |-> r.content]]
          /\ UNCHANGED <<disturbed, calls>>
       \/ /\ Call
          /\ disturbed' = disturbed \cup {r.at}
          /\ UNCHANGED index
    /\ UNCHANGED <<redisVars, views, pending, queue, viewed, created>>

SyncEnd(th) ==
    LET r == running[th] IN
    /\ r # Null /\ r.cleared /\ r.at = Null /\ r.todo = {}
    /\ running' = [running EXCEPT ![th] = Null]
    /\ UNCHANGED <<redisVars, views, index, pending, queue, viewed, calls, created, disturbed>>

-----------------------------------------------------------------------------
(* Views, and the server going down                                        *)

\* incrementViews.lua: an id that is not there is added, whatever it is.
Viewed(b) == [views EXCEPT ![b] = IF @ = Null THEN 1 ELSE @ + 1]

\* A reader opens a blog: the view is counted by another thread, or by the
\* caller.
View(b) ==
    /\ Call
    /\ b \in created
    /\ \/ /\ ~Full(viewed, ViewQueue)
          /\ viewed' = Append(viewed, b)
          /\ UNCHANGED views
       \/ /\ Full(viewed, ViewQueue)
          /\ views' = Viewed(b)
          /\ UNCHANGED viewed
    /\ UNCHANGED <<redisVars, index, pending, syncVars, created, disturbed>>

CountView ==
    /\ viewed # <<>>
    /\ views' = Viewed(Head(viewed))
    /\ viewed' = Tail(viewed)
    /\ UNCHANGED <<redisVars, index, pending, syncVars, calls, created, disturbed>>

\* The server goes down and comes back: what was in memory is lost.
Crash ==
    /\ Call
    /\ pending' = [a \in Admins |-> Null]
    /\ queue' = <<>>
    /\ running' = [th \in Threads |-> Null]
    /\ viewed' = <<>>
    /\ disturbed' = disturbed \cup {b \in Blogs : Working(b) # {}}
    /\ UNCHANGED <<redisVars, views, index, created>>

Next ==
    \/ \E a \in Admins, b \in Blogs :
        \/ \E p \in Posts, c \in Contents : Create(a, b, p, c) \/ Update(a, b, p, c)
        \/ Delete(a, b)
    \/ \E a \in Admins : CallIndex(a) \/ (\E id \in Blogs \cup {ALL} : Sync(a, id))
    \/ TakeSync
    \/ \E th \in Threads :
        \/ SyncDelete(th) \/ SyncContent(th) \/ SyncIndex(th) \/ SyncEnd(th)
        \/ \E b \in Blogs : SyncData(th, b)
    \/ \E b \in Blogs : View(b)
    \/ CountView
    \/ Crash

Spec == Init /\ [][Next]_vars

-----------------------------------------------------------------------------
(* Properties                                                              *)

\* The blogs of a category, and the places where blogs name a tag.
BlogsOf(c) == {b \in Blogs : data[b] # Null /\ data[b].category = c}
Times(b, t) == IF data[b] = Null THEN 0 ELSE data[b].tags[t]
Mentions(t) == UNION {{b} \X (1 .. Times(b, t)) : b \in Blogs}

\* The scripts keep the counter of categories right: its members are the categories
\* that blogs have, with the number of their blogs.
CategoriesRight ==
    /\ DOMAIN categories = {c \in Categories : BlogsOf(c) # {}}
    /\ \A c \in DOMAIN categories : categories[c] = Cardinality(BlogsOf(c))

\* The same of tags, of which a blog may name one twice.
TagsRight ==
    /\ DOMAIN tags = {t \in Tags : Mentions(t) # {}}
    /\ \A t \in DOMAIN tags : tags[t] = Cardinality(Mentions(t))

\* findAll counts ids, reads a page of them and takes every blog for granted: the
\* ids are the blogs there are, each with its content and its views.
IdsRight ==
    \A b \in Blogs : /\ b \in ids <=> data[b] # Null
                     /\ b \in ids <=> content[b] # Null
                     /\ b \in ids => views[b] # Null

\* The document of a blog, as Redis has it.
DocumentOf(b) == IF data[b] = Null THEN Null ELSE [data |-> data[b], content |-> content[b]]

\* The index says what Redis says of a blog nobody is at work on, unless units of work
\* on the blog overlapped, a call failed or the server went down, and no sync has
\* repaired it since.
IndexFollows ==
    \A b \in Blogs : Working(b) = {} /\ b \notin disturbed => index[b] = DocumentOf(b)
=============================================================================
