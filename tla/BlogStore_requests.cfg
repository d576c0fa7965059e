SPECIFICATION Spec
CONSTANTS
    b1 = b1
    b2 = b2
    a1 = a1
    a2 = a2
    life = life
    work = work
    java = java
    redis = redis
    Blogs = {b1, b2}
    Categories = {life, work}
    Tags = {java, redis}
    Posts <- MCPosts
    Contents = {text, html}
    Admins = {a1, a2}
    SyncThread = SyncThread
    ALL = ALL
    Null = Null
    SyncQueue = 1
    ViewQueue = 1
    MaxCalls = 5
SYMMETRY BlogSymmetry
INVARIANTS TypeOK CategoriesRight TagsRight IdsRight IndexFollows
CHECK_DEADLOCK FALSE
