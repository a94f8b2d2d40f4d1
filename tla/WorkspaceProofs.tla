---------------------------- MODULE WorkspaceProofs ----------------------------
(***************************************************************************)
(* Proofs about Workspace for every set of accounts, conversations, files, *)
(* threads and deployments.                                                *)
(***************************************************************************)
EXTENDS Workspace, FiniteSetTheorems, TLAPS

-----------------------------------------------------------------------------
(* What a request carries and knows.                                        *)

\* The calls of a chat after its conversation was looked at, and the read of the
\* messages.
ChatPC == {"context", "retrieve", "generate", "record", "insert", "commit",
           "question", "reply", "touch"}

Inside(q) == q.pc \in ChatPC \/ (q.pc = "list" /\ q.op = "messages")

\* What a request at q.pc carries.
Local(q) ==
    /\ q.pc # "idle" => q.by \in Users
    /\ q.pc \in {"create", "rename"} => q.title \in Titles
    /\ q.pc \in {"rename", "remove"} => q.conversation \in Conversations
    /\ q.pc # "idle" /\ q.op = "messages" => q.conversation \in Conversations
    /\ q.pc = "remove" => q.op = "remove"
    /\ q.pc # "idle" /\ q.op = "file" => q.file \in Files
    /\ q.pc \in {"check", "disk", "row", "index", "status"} => q.op = "upload"
    /\ q.pc \in {"look", "chunks", "forget", "unlink"} => q.op = "delete"
    /\ q.pc \in {"index", "status", "look", "chunks", "forget", "unlink"} => q.file \in Files
    /\ q.pc \in {"row", "chunks", "forget", "unlink"} => q.path \in Paths
    /\ q.pc \in {"check", "disk", "row", "index"} => ~q.indexed
    /\ q.pc = "audit" => \/ q.op = "remove" /\ q.conversation \in Conversations
                         \/ q.op \in {"upload", "delete"} /\ q.file \in Files

\* In a chat, the conversation was its own and was not given out to another since.
KnowsTalk(q) ==
    /\ Inside(q) =>
          /\ q.conversation \in Conversations
          /\ conversations[q.conversation] # None
          /\ Exists(conversations, q.conversation) =>
                conversations[q.conversation].owner = q.by
    /\ q.pc \in {"question", "reply", "touch"} => data = "supabase"
    /\ q.pc \in {"insert", "commit"} => data = "oracle"
    /\ \A s \in q.shown : s = q.by \/ s = OrgOf[q.by]

\* Of a file, whose it is, that nothing else leads to its path, and where its
\* chunks are.
KnowsFile(q) ==
    /\ q.pc \in {"index", "status", "chunks", "forget"} =>
          /\ files[q.file] # None
          /\ Exists(files, q.file) => files[q.file].org = OrgOf[q.by]
    /\ q.pc = "status" /\ q.indexed /\ Exists(files, q.file) =>
          <<OrgOf[q.by], q.file>> \in chunks \/ q.file \in stripped
    /\ q.pc \in {"chunks", "forget"} =>
          \A f \in Files : Exists(files, f) /\ files[f].path = q.path => f = q.file
    /\ q.pc = "forget" /\ retrieval = "memory" => q.file \in stripped
    /\ q.pc \in {"row", "unlink"} =>
          \A f \in Files : Exists(files, f) => files[f].path # q.path
    /\ q.pc = "row" => q.path \in disk

\* The path of an upload that has no record yet is known to nobody else.
PathsAreOwn ==
    \A r \in Req, p \in Req :
        req[r].pc = "row" /\ p # r => req[p].path # req[r].path

\* The records, the disk and the chunks.
TablesOK ==
    /\ \A f, g \in Files : Exists(files, f) /\ Exists(files, g)
                           /\ files[f].path = files[g].path => f = g
    /\ RecordsHaveTheirFile
    /\ ProcessedIsIndexed
    /\ retrieval = "oracle" /\ data # "oracle" => chunks = {}
    /\ retrieval = "memory" => \A f \in Files : files[f] = Deleted => f \in stripped

StoresTyped ==
    /\ <<data, retrieval, routes>> \in Deployments
    /\ conversations \in [Conversations -> ConversationRow \cup {None, Deleted}]
    /\ messages \in [Conversations -> Seq(Message)]
    /\ files \in [Files -> FileRow \cup {None, Deleted}]
    /\ disk \subseteq Paths
    /\ chunks \subseteq Orgs \X Files
    /\ log \subseteq Event
    /\ restarts \in 0 .. MaxRestarts
    /\ stripped \subseteq Files

RequestsKnow ==
    \A r \in Req : Local(req[r]) /\ KnowsTalk(req[r]) /\ KnowsFile(req[r])

Inv == TypeOK /\ RequestsKnow /\ PathsAreOwn /\ TablesOK

Becomes(r, q) == req' = [req EXCEPT ![r] = q]

-----------------------------------------------------------------------------
(* Rows.                                                                    *)

\* A row that is there is a row.
LEMMA ConversationIsRow ==
    ASSUME TypeOK, NEW c, Exists(conversations, c), c \in Conversations
    PROVE  conversations[c] \in ConversationRow
BY DEF TypeOK, Exists

\* The same of a file.
LEMMA FileIsRow ==
    ASSUME TypeOK, NEW f, Exists(files, f), f \in Files
    PROVE  files[f] \in FileRow
BY DEF TypeOK, Exists

\* A row is neither None nor Deleted, and no id is None.
LEMMA RowsExist ==
    /\ \A row \in ConversationRow \cup FileRow : row \notin {None, Deleted}
    /\ None \notin Conversations /\ None \notin Files /\ None # Deleted
    /\ None \notin Paths
BY RowsAreFresh, StoreAssumption

-----------------------------------------------------------------------------
(* Frames: what a step leaves of what other requests know.                  *)

\* No conversation is given out twice, comes back or changes hands.
TalkKept ==
    \A c \in Conversations : conversations[c] # None =>
        /\ conversations'[c] # None
        /\ Exists(conversations, c)' =>
              /\ Exists(conversations, c)
              /\ conversations'[c].owner = conversations[c].owner

\* The same of a record, which keeps its path; a new record has a path that only
\* p may not hold.
FilesKept(p) ==
    \A f \in Files :
        /\ files[f] # None =>
              /\ files'[f] # None
              /\ Exists(files, f)' => /\ Exists(files, f)
                                      /\ files'[f].path = files[f].path
                                      /\ files'[f].org = files[f].org
        /\ files[f] = None /\ Exists(files, f)' => files'[f].path # p.path

\* Chunks go with their record or to a deletion.
ChunksKept ==
    /\ stripped \subseteq stripped'
    /\ \A k \in chunks : k \in chunks' \/ k[2] \in stripped' \/ ~Exists(files, k[2])'

Kept(p) ==
    /\ UNCHANGED <<data, retrieval>>
    /\ TalkKept /\ FilesKept(p) /\ ChunksKept
    /\ p.pc = "row" /\ p.path \in disk => p.path \in disk'

\* What a request knows stays true under such a step.
LEMMA KnowsKept ==
    ASSUME NEW p \in Request, Local(p), KnowsTalk(p), KnowsFile(p), Kept(p)
    PROVE  KnowsTalk(p)' /\ KnowsFile(p)'
<1>1. KnowsTalk(p)'
  <2>1. Inside(p) =>
          /\ p.conversation \in Conversations
          /\ conversations'[p.conversation] # None
          /\ Exists(conversations, p.conversation)' =>
                conversations'[p.conversation].owner = p.by
    BY DEF KnowsTalk, Kept, TalkKept
  <2> QED
    BY <2>1 DEF KnowsTalk, Kept, Inside
<1>2. KnowsFile(p)'
  <2>1. p.pc \in {"index", "status", "chunks", "forget"} =>
          /\ files'[p.file] # None
          /\ Exists(files, p.file)' => /\ Exists(files, p.file)
                                       /\ files'[p.file].org = OrgOf[p.by]
    BY DEF KnowsFile, Kept, FilesKept, Local
  <2>2. p.pc = "status" /\ p.indexed /\ Exists(files, p.file)' =>
          <<OrgOf[p.by], p.file>> \in chunks' \/ p.file \in stripped'
    <3> SUFFICES ASSUME p.pc = "status", p.indexed, Exists(files, p.file)'
                 PROVE  <<OrgOf[p.by], p.file>> \in chunks' \/ p.file \in stripped'
      OBVIOUS
    <3>1. <<OrgOf[p.by], p.file>> \in chunks \/ p.file \in stripped
      BY <2>1 DEF KnowsFile
    <3>2. \A k \in chunks : k \in chunks' \/ k[2] \in stripped' \/ ~Exists(files, k[2])'
      BY DEF Kept, ChunksKept
    <3>3. <<OrgOf[p.by], p.file>>[2] = p.file
      OBVIOUS
    <3>4. CASE <<OrgOf[p.by], p.file>> \in chunks
      <4> DEFINE k == <<OrgOf[p.by], p.file>>
      <4>1. k \in chunks' \/ k[2] \in stripped' \/ ~Exists(files, k[2])'
        BY <3>2, <3>4
      <4> QED
        BY <3>3, <4>1
    <3> QED
      BY <3>1, <3>4 DEF Kept, ChunksKept
  <2>3. p.pc \in {"chunks", "forget"} =>
          \A f \in Files : Exists(files, f)' /\ files'[f].path = p.path => f = p.file
    BY DEF KnowsFile, Kept, FilesKept
  <2>4. p.pc = "forget" /\ retrieval' = "memory" => p.file \in stripped'
    BY DEF KnowsFile, Kept, ChunksKept
  <2>5. p.pc \in {"row", "unlink"} =>
          \A f \in Files : Exists(files, f)' => files'[f].path # p.path
    BY DEF KnowsFile, Kept, FilesKept
  <2>6. p.pc = "row" => p.path \in disk'
    BY DEF KnowsFile, Kept
  <2> QED
    BY <2>1, <2>2, <2>3, <2>4, <2>5, <2>6 DEF KnowsFile
<1> QED
  BY <1>1, <1>2

\* The paths of an upload and of another request stay apart.
PathsApart(r, q) ==
    \A p \in Req \ {r} : /\ req[p].pc = "row" => q.path # req[p].path
                         /\ q.pc = "row" => req[p].path # q.path

\* A step of r, seen as what it leaves to show.
LEMMA StepKeeps ==
    ASSUME Inv, NEW r \in Req, NEW q \in Request, Becomes(r, q),
           StoresTyped', Local(q), KnowsTalk(q)', KnowsFile(q)', PathsApart(r, q),
           \A p \in Req \ {r} : Kept(req[p]), TablesOK'
    PROVE  Inv'
<1>0. req \in [Req -> Request] /\ RequestsKnow /\ PathsAreOwn
  BY DEF Inv, TypeOK
<1>1. req' \in [Req -> Request] /\ req'[r] = q /\ \A p \in Req \ {r} : req'[p] = req[p]
  BY <1>0 DEF Becomes
<1>2. TypeOK'
  BY <1>1 DEF TypeOK, StoresTyped
<1>3. RequestsKnow'
  <2> SUFFICES ASSUME NEW p \in Req
               PROVE  Local(req'[p]) /\ KnowsTalk(req[p])' /\ KnowsFile(req[p])'
    BY DEF RequestsKnow, Local
  <2>1. CASE p = r
    BY <1>1, <2>1 DEF KnowsTalk, KnowsFile
  <2>2. CASE p # r
    <3>1. PICK v \in Request : v = req[p] /\ v = req'[p]
      BY <1>0, <1>1, <2>2
    <3>2. Local(v) /\ KnowsTalk(v) /\ KnowsFile(v) /\ Kept(v)
      BY <1>0, <2>2, <3>1 DEF RequestsKnow
    <3>3. KnowsTalk(v)' /\ KnowsFile(v)'
      BY <3>2, KnowsKept
    <3> QED
      BY <3>1, <3>2, <3>3 DEF KnowsTalk, KnowsFile
  <2> QED
    BY <2>1, <2>2
<1>4. PathsAreOwn'
  BY <1>0, <1>1 DEF PathsAreOwn, PathsApart
<1> QED
  BY <1>2, <1>3, <1>4 DEF Inv

\* Where the tables stay as they are.
LEMMA TablesQuiet ==
    ASSUME Inv, UNCHANGED <<config, files, disk, chunks, restarts, stripped>>
    PROVE  TablesOK'
BY DEF Inv, TablesOK, RecordsHaveTheirFile, ProcessedIsIndexed, config, Exists

\* The paths a step that gives none leaves apart.
LEMMA PathsStayApart ==
    ASSUME Inv, NEW r \in Req, NEW q,
           \/ q.path = req[r].path
           \/ q.path = None
           \/ \E f \in Files : Exists(files, f) /\ q.path = files[f].path,
           q.pc = "row" => req[r].pc = "row" /\ q.path = req[r].path
    PROVE  PathsApart(r, q)
<1>1. ASSUME NEW p \in Req \ {r}, req[p].pc = "row" PROVE q.path # req[p].path
  <2>1. req[p] \in Request /\ Local(req[p]) /\ KnowsFile(req[p])
    BY DEF Inv, TypeOK, RequestsKnow
  <2>2. req[p].path \in Paths
    BY <1>1, <2>1 DEF Local
  <2>3. \A f \in Files : Exists(files, f) => files[f].path # req[p].path
    BY <1>1, <2>1 DEF KnowsFile
  <2>4. req[r].path # req[p].path
    BY <1>1 DEF Inv, PathsAreOwn
  <2> QED
    BY <2>2, <2>3, <2>4, RowsExist
<1>2. ASSUME NEW p \in Req \ {r}, q.pc = "row" PROVE req[p].path # q.path
  BY <1>2 DEF Inv, PathsAreOwn
<1> QED
  BY <1>1, <1>2 DEF PathsApart

\* A step that changes conversations and messages only.
LEMMA TalkStep ==
    ASSUME Inv, NEW r \in Req, NEW q \in Request, Becomes(r, q),
           UNCHANGED <<config, files, disk, chunks, restarts, stripped>>,
           conversations' \in [Conversations -> ConversationRow \cup {None, Deleted}],
           messages' \in [Conversations -> Seq(Message)],
           log' \subseteq Event, TalkKept,
           Local(q), KnowsTalk(q)', KnowsFile(q), PathsApart(r, q)
    PROVE  Inv'
<1>1. TablesOK'
  BY TablesQuiet
<1>2. StoresTyped'
  BY DEF Inv, TypeOK, StoresTyped, config
<1>3. KnowsFile(q)'
  BY DEF KnowsFile, config, Exists
<1>4. \A p \in Req \ {r} : Kept(req[p])
  BY DEF Kept, FilesKept, ChunksKept, config, Exists
<1> QED
  BY <1>1, <1>2, <1>3, <1>4, StepKeeps

\* Conversations that stay as they are.
LEMMA TalkQuiet ==
    ASSUME UNCHANGED conversations
    PROVE  TalkKept
BY DEF TalkKept, Exists

\* A step that only reads.
LEMMA ReadStepKeeps ==
    ASSUME Inv, NEW r \in Req, NEW q \in Request, Becomes(r, q),
           UNCHANGED <<config, stores, restarts, stripped>>,
           Local(q), KnowsTalk(q), KnowsFile(q), PathsApart(r, q)
    PROVE  Inv'
<1>1. UNCHANGED <<config, conversations, messages, files, disk, chunks, log, restarts,
                  stripped>>
  BY DEF stores, talk
<1>2. KnowsTalk(q)'
  BY <1>1 DEF KnowsTalk, config, Exists
<1>3. /\ conversations' \in [Conversations -> ConversationRow \cup {None, Deleted}]
      /\ messages' \in [Conversations -> Seq(Message)]
      /\ log' \subseteq Event
  BY <1>1 DEF Inv, TypeOK
<1>4. TalkKept
  BY <1>1, TalkQuiet
<1> QED
  BY <1>1, <1>2, <1>3, <1>4, TalkStep

\* What is left of a request that was answered.
LEMMA BlankKnows ==
    /\ Blank \in Request /\ Local(Blank) /\ KnowsTalk(Blank) /\ KnowsFile(Blank)
    /\ KnowsTalk(Blank)' /\ KnowsFile(Blank)'
    /\ Blank.path = None /\ Blank.pc = "idle" /\ Blank.shown = {} /\ Blank.by = None
<1>1. Blank \in Request
  BY DEF Blank, Request, CallPC
<1>2. /\ Blank.path = None /\ Blank.pc = "idle" /\ Blank.shown = {} /\ Blank.by = None
      /\ Blank.op = None
  BY DEF Blank
<1> HIDE DEF Blank
<1>3. Local(Blank)
  BY <1>2 DEF Local
<1>4. ~Inside(Blank)
  BY <1>2 DEF Inside, ChatPC
<1>5. KnowsTalk(Blank) /\ KnowsTalk(Blank)'
  BY <1>2, <1>4 DEF KnowsTalk, Inside
<1>6. KnowsFile(Blank) /\ KnowsFile(Blank)'
  BY <1>2 DEF KnowsFile
<1> QED
  BY <1>1, <1>2, <1>3, <1>5, <1>6

\* An answer.
LEMMA AnswerIs ==
    ASSUME Inv, NEW r \in Req, Answer(r)
    PROVE  \E q \in Request :
             /\ Becomes(r, q) /\ PathsApart(r, q) /\ Local(q) /\ KnowsTalk(q)
             /\ KnowsFile(q) /\ KnowsTalk(q)' /\ KnowsFile(q)'
<1>1. Becomes(r, Blank)
  BY DEF Answer, Becomes
<1>2. PathsApart(r, Blank)
  BY BlankKnows, PathsStayApart
<1> QED
  BY <1>1, <1>2, BlankKnows

\* A request that goes on to another call.
LEMMA ParkIs ==
    ASSUME Inv, NEW r \in Req, NEW pc \in CallPC \ {"row"}, Park(r, pc)
    PROVE  \E q \in Request :
             /\ q.pc = pc /\ q.op = req[r].op /\ q.by = req[r].by
             /\ q.conversation = req[r].conversation /\ q.title = req[r].title
             /\ q.file = req[r].file /\ q.path = req[r].path
             /\ q.indexed = req[r].indexed /\ q.shown = req[r].shown
             /\ Becomes(r, q) /\ PathsApart(r, q)
<1> DEFINE q == [req[r] EXCEPT !.pc = pc]
<1>0. req \in [Req -> Request] /\ req[r] \in Request
  BY DEF Inv, TypeOK
<1>1. /\ q \in Request
      /\ q.pc = pc /\ q.op = req[r].op /\ q.by = req[r].by
      /\ q.conversation = req[r].conversation /\ q.title = req[r].title
      /\ q.file = req[r].file /\ q.path = req[r].path
      /\ q.indexed = req[r].indexed /\ q.shown = req[r].shown
  BY <1>0 DEF Request
<1>2. Becomes(r, q)
  BY <1>0 DEF Park, Becomes
<1>3. PathsApart(r, q)
  BY <1>1, PathsStayApart
<1> QED
  BY <1>1, <1>2, <1>3

-----------------------------------------------------------------------------
(* Conversations and the chat.                                              *)

\* What its route and its caller give a request.
LEMMA CallIs ==
    ASSUME NEW u \in Users, NEW q \in Calls(u)
    PROVE  /\ q \in Request /\ q.by = u /\ q.path = None /\ q.shown = {} /\ ~q.indexed
           /\ Local(q) /\ ~Inside(q)
           /\ q.pc \in {"create", "rename", "remove", "ensure", "check", "look", "owner",
                        "list"}
<1> DEFINE call == [Blank EXCEPT !.by = u]
<1>1. /\ call \in Request /\ call.by = u /\ call.path = None /\ call.shown = {}
      /\ call.conversation = None /\ call.file = None /\ call.indexed = FALSE
  BY DEF Blank, Request, CallPC
<1> HIDE DEF call
<1> SUFFICES
      /\ q \in Request /\ q.by = u /\ q.path = None /\ q.shown = {} /\ ~q.indexed
      /\ \/ q.pc = "create" /\ q.op = "create" /\ q.title \in Titles
         \/ /\ q.pc = "rename" /\ q.op = "rename"
            /\ q.title \in Titles /\ q.conversation \in Conversations
         \/ q.pc = "remove" /\ q.op = "remove" /\ q.conversation \in Conversations
         \/ q.pc = "ensure" /\ q.op = "chat"
         \/ q.pc = "check" /\ q.op = "upload"
         \/ q.pc = "look" /\ q.op = "delete" /\ q.file \in Files
         \/ q.pc = "owner" /\ q.op = "messages" /\ q.conversation \in Conversations
         \/ q.pc = "owner" /\ q.op = "files"
         \/ q.pc = "list" /\ q.op = "file" /\ q.file \in Files
         \/ q.pc = "list" /\ q.op \in {"conversations", "events"}
  BY DEF Local, Inside, ChatPC
<1> DEFINE
      S1 == {[call EXCEPT !.op = "create", !.pc = "create", !.title = t] : t \in Titles}
      S2 == {[call EXCEPT !.op = "rename", !.pc = "rename", !.conversation = edit[1],
                           !.title = edit[2]] :
                  edit \in Conversations \X Titles}
      S3 == {[call EXCEPT !.op = "remove", !.pc = "remove", !.conversation = c] :
                  c \in Conversations}
      S4 == {[call EXCEPT !.op = "chat", !.pc = "ensure", !.conversation = c] :
                  c \in {d \in Conversations : Len(messages[d]) < MaxMessages} \cup {None}}
      S5 == {[call EXCEPT !.op = "upload", !.pc = "check", !.conversation = c] :
                  c \in Conversations \cup {None}}
      S6 == {[call EXCEPT !.op = "delete", !.pc = "look", !.file = f] : f \in Files}
      S7 == {[call EXCEPT !.op = "messages", !.pc = "owner", !.conversation = c] :
                  c \in Conversations}
      S8 == {[call EXCEPT !.op = "files", !.pc = "owner", !.conversation = c] :
                  c \in Conversations \cup {None}}
      S9 == {[call EXCEPT !.op = "file", !.pc = "list", !.file = f] : f \in Files}
      S10 == {[call EXCEPT !.op = op, !.pc = "list"] : op \in {"conversations", "events"}}
<1>2. Calls(u) = S1 \cup S2 \cup S3 \cup S4 \cup S5 \cup S6 \cup S7 \cup S8 \cup S9 \cup S10
  BY DEF Calls, call
<1>3. CASE q \in S1
  <2>1. PICK t \in Titles : q = [call EXCEPT !.op = "create", !.pc = "create", !.title = t]
    BY <1>3
  <2> QED
    BY <1>1, <2>1 DEF Request, CallPC, Operation
<1>4. CASE q \in S2
  <2>1. PICK edit \in Conversations \X Titles :
            q = [call EXCEPT !.op = "rename", !.pc = "rename",
                             !.conversation = edit[1], !.title = edit[2]]
    BY <1>4
  <2> QED
    BY <1>1, <2>1 DEF Request, CallPC, Operation
<1>5. CASE q \in S3
  <2>1. PICK c \in Conversations :
          q = [call EXCEPT !.op = "remove", !.pc = "remove", !.conversation = c]
    BY <1>5
  <2> QED
    BY <1>1, <2>1 DEF Request, CallPC, Operation
<1>6. CASE q \in S4
  <2>1. PICK c \in Conversations \cup {None} :
          q = [call EXCEPT !.op = "chat", !.pc = "ensure", !.conversation = c]
    BY <1>6
  <2> QED
    BY <1>1, <2>1 DEF Request, CallPC, Operation
<1>7. CASE q \in S5
  <2>1. PICK c \in Conversations \cup {None} :
          q = [call EXCEPT !.op = "upload", !.pc = "check", !.conversation = c]
    BY <1>7
  <2> QED
    BY <1>1, <2>1 DEF Request, CallPC, Operation
<1>8. CASE q \in S6
  <2>1. PICK f \in Files : q = [call EXCEPT !.op = "delete", !.pc = "look", !.file = f]
    BY <1>8
  <2> QED
    BY <1>1, <2>1 DEF Request, CallPC, Operation
<1>9. CASE q \in S7
  <2>1. PICK c \in Conversations :
          q = [call EXCEPT !.op = "messages", !.pc = "owner", !.conversation = c]
    BY <1>9
  <2> QED
    BY <1>1, <2>1 DEF Request, CallPC, Operation
<1>10. CASE q \in S8
  <2>1. PICK c \in Conversations \cup {None} :
          q = [call EXCEPT !.op = "files", !.pc = "owner", !.conversation = c]
    BY <1>10
  <2> QED
    BY <1>1, <2>1 DEF Request, CallPC, Operation
<1>11. CASE q \in S9
  <2>1. PICK f \in Files : q = [call EXCEPT !.op = "file", !.pc = "list", !.file = f]
    BY <1>11
  <2> QED
    BY <1>1, <2>1 DEF Request, CallPC, Operation
<1>12. CASE q \in S10
  <2>1. PICK op \in {"conversations", "events"} : q = [call EXCEPT !.op = op, !.pc = "list"]
    BY <1>12
  <2> QED
    BY <1>1, <2>1 DEF Request, CallPC, Operation
<1> HIDE DEF S1, S2, S3, S4, S5, S6, S7, S8, S9, S10
<1> QED
  BY <1>2, <1>3, <1>4, <1>5, <1>6, <1>7, <1>8, <1>9, <1>10, <1>11, <1>12

\* A request begins.
LEMMA BeginKeeps ==
    ASSUME Inv, NEW r \in Req, NEW u \in Users, Begin(r, u)
    PROVE  Inv'
<1>1. PICK q \in Calls(u) : req' = [req EXCEPT ![r] = q]
  BY DEF Begin
<1>2. /\ q \in Request /\ q.path = None /\ q.shown = {} /\ Local(q) /\ ~Inside(q)
      /\ q.pc \in {"create", "rename", "remove", "ensure", "check", "look", "owner", "list"}
  BY CallIs
<1>3. KnowsTalk(q) /\ KnowsFile(q)
  BY <1>2 DEF KnowsTalk, KnowsFile
<1>4. Becomes(r, q) /\ PathsApart(r, q)
  BY <1>1, <1>2, PathsStayApart DEF Becomes
<1> QED
  BY <1>2, <1>3, <1>4, ReadStepKeeps DEF Begin

\* An answer that wrote nothing.
LEMMA AnswerKeeps ==
    ASSUME Inv, NEW r \in Req, Answer(r), UNCHANGED <<config, stores, restarts, stripped>>
    PROVE  Inv'
BY AnswerIs, ReadStepKeeps

\* A conversation that is made was nobody's.
LEMMA CreationKeepsTalk ==
    ASSUME Inv, NEW c \in Conversations, NEW u \in Users, NEW t \in Titles,
           CreateConversation(c, u, t)
    PROVE  /\ conversations[c] = None
           /\ conversations' = [conversations EXCEPT ![c] = [owner |-> u, title |-> t]]
           /\ messages' = [messages EXCEPT ![c] = <<>>] \/ messages' = messages
           /\ conversations' \in [Conversations -> ConversationRow \cup {None, Deleted}]
           /\ messages' \in [Conversations -> Seq(Message)]
           /\ TalkKept
<1>1. /\ conversations[c] = None
      /\ conversations' = [conversations EXCEPT ![c] = [owner |-> u, title |-> t]]
      /\ messages' = [messages EXCEPT ![c] = <<>>] \/ messages' = messages
  BY DEF CreateConversation, MemoryCreateConversation, OracleInsertConversation,
         SupabaseCreateConversation, IsNext
<1>2. /\ conversations \in [Conversations -> ConversationRow \cup {None, Deleted}]
      /\ messages \in [Conversations -> Seq(Message)]
  BY DEF Inv, TypeOK
<1>3. [owner |-> u, title |-> t] \in ConversationRow
  BY DEF ConversationRow
<1>4. /\ conversations' \in [Conversations -> ConversationRow \cup {None, Deleted}]
      /\ messages' \in [Conversations -> Seq(Message)]
  <2>1. <<>> \in Seq(Message)
    OBVIOUS
  <2>2. conversations' \in [Conversations -> ConversationRow \cup {None, Deleted}]
    BY <1>1, <1>2, <1>3
  <2>3. messages' \in [Conversations -> Seq(Message)]
    BY <1>1, <1>2, <2>1
  <2> QED
    BY <2>2, <2>3
<1>5. TalkKept
  BY <1>1, <1>2 DEF TalkKept, Exists
<1> QED
  BY <1>1, <1>4, <1>5

\* POST /api/conversations.
LEMMA AddConversationKeeps ==
    ASSUME Inv, NEW r \in Req, AddConversation(r)
    PROVE  Inv'
<1>1. req[r].by \in Users /\ req[r].title \in Titles
  BY DEF Inv, RequestsKnow, Local, AddConversation, At
<1>2. PICK c \in Conversations : CreateConversation(c, req[r].by, req[r].title)
  BY DEF AddConversation
<1>3. PICK q \in Request : /\ Becomes(r, q) /\ PathsApart(r, q) /\ Local(q)
                           /\ KnowsFile(q) /\ KnowsTalk(q)'
  BY AnswerIs DEF AddConversation
<1>4. log' \subseteq Event
  BY DEF AddConversation, Inv, TypeOK
<1> QED
  BY <1>1, <1>2, <1>3, <1>4, CreationKeepsTalk, TalkStep DEF AddConversation

\* PATCH /api/conversations/{id}.
LEMMA EditConversationKeeps ==
    ASSUME Inv, NEW r \in Req, EditConversation(r)
    PROVE  Inv'
<1>1. req[r].title \in Titles /\ req[r].conversation \in Conversations
  BY DEF Inv, RequestsKnow, Local, EditConversation, At
<1> DEFINE c == req[r].conversation
<1>2. \/ UNCHANGED conversations
      \/ /\ Exists(conversations, c)
         /\ conversations' = [conversations EXCEPT ![c].title = req[r].title]
  BY DEF EditConversation, RenameConversation, MemoryRenameConversation,
         OracleUpdateTitle, SupabaseRenameConversation, Owned
<1>3. PICK q \in Request : /\ Becomes(r, q) /\ PathsApart(r, q) /\ Local(q)
                           /\ KnowsFile(q) /\ KnowsTalk(q)'
  BY AnswerIs DEF EditConversation
<1>4. log' \subseteq Event /\ messages' \in [Conversations -> Seq(Message)]
  BY DEF EditConversation, Inv, TypeOK
<1>5. /\ conversations' \in [Conversations -> ConversationRow \cup {None, Deleted}]
      /\ TalkKept
  <2>0. conversations \in [Conversations -> ConversationRow \cup {None, Deleted}]
    BY DEF Inv, TypeOK
  <2>1. CASE UNCHANGED conversations
    BY <2>0, <2>1, TalkQuiet
  <2>2. CASE ~UNCHANGED conversations
    <3>1. conversations[c] \in ConversationRow
      BY <1>1, <1>2, <2>2, ConversationIsRow DEF Inv
    <3>2. PICK row \in ConversationRow :
              /\ row.owner = conversations[c].owner
              /\ conversations' = [conversations EXCEPT ![c] = row]
      BY <1>1, <1>2, <2>2, <3>1 DEF ConversationRow
    <3> QED
      BY <1>1, <1>2, <2>0, <2>2, <3>2, RowsExist DEF TalkKept, Exists
  <2> QED
    BY <2>1, <2>2
<1> QED
  BY <1>3, <1>4, <1>5, TalkStep DEF EditConversation

\* Records that at most forget the conversation they were uploaded in.
SameFiles ==
    \A f \in Files : \/ files'[f] = files[f]
                     \/ /\ Exists(files, f) /\ Exists(files, f)'
                        /\ files'[f].path = files[f].path
                        /\ files'[f].org = files[f].org
                        /\ files'[f].status = files[f].status

\* They are found, and their files and chunks are, as before.
LEMMA SameFilesKeep ==
    ASSUME Inv, SameFiles, UNCHANGED <<config, disk, chunks, restarts, stripped>>
    PROVE  TablesOK' /\ (\A p : FilesKept(p)) /\ ChunksKept
<1>1. \A f \in Files : Exists(files, f)' <=> Exists(files, f)
  BY DEF SameFiles, Exists
<1>2. \A f \in Files : Exists(files, f) =>
          /\ files'[f].path = files[f].path
          /\ files'[f].org = files[f].org
          /\ files'[f].status = files[f].status
  BY DEF SameFiles
<1>3. \A f \in Files : /\ files[f] = None <=> files'[f] = None
                       /\ files[f] = Deleted <=> files'[f] = Deleted
  BY RowsExist DEF SameFiles, Exists
<1>4. TablesOK'
  <2>1. RecordsHaveTheirFile'
    BY <1>1, <1>2 DEF Inv, TablesOK, RecordsHaveTheirFile
  <2>2. ProcessedIsIndexed'
    BY <1>1, <1>2 DEF Inv, TablesOK, ProcessedIsIndexed, config
  <2> QED
    BY <1>1, <1>2, <1>3, <2>1, <2>2 DEF Inv, TablesOK, config
<1> QED
  <2>1. ASSUME NEW p PROVE FilesKept(p)
    BY <1>1, <1>2, <1>3 DEF FilesKept, Exists
  <2>2. ChunksKept
    BY DEF ChunksKept
  <2> QED
    BY <1>4, <2>1, <2>2

\* Files that were uploaded in a conversation that is gone.
LEMMA UnlinkedFiles ==
    ASSUME Inv, NEW c, files' = UnlinkFiles(c)
    PROVE  SameFiles /\ files' \in [Files -> FileRow \cup {None, Deleted}]
<1>0. files \in [Files -> FileRow \cup {None, Deleted}]
  BY DEF Inv, TypeOK
<1>1. ASSUME NEW f \in Files
      PROVE  \/ files'[f] = files[f]
             \/ /\ Exists(files, f) /\ files'[f] \in FileRow
                /\ files'[f].path = files[f].path
                /\ files'[f].org = files[f].org
                /\ files'[f].status = files[f].status
  <2>1. CASE Exists(files, f) /\ files[f].conversation = c
    <3>1. files[f] \in FileRow
      BY <2>1, FileIsRow DEF Inv
    <3>2. files'[f] = [files[f] EXCEPT !.conversation = None]
      BY <2>1 DEF UnlinkFiles
    <3> QED
      BY <2>1, <3>1, <3>2 DEF FileRow
  <2>2. CASE ~(Exists(files, f) /\ files[f].conversation = c)
    BY <2>2 DEF UnlinkFiles
  <2> QED
    BY <2>1, <2>2
<1>2. SameFiles
  BY <1>0, <1>1, RowsExist DEF SameFiles, Exists
<1>3. \A f \in Files : files'[f] \in FileRow \cup {None, Deleted}
  BY <1>0, <1>1
<1>4. files' = [f \in Files |-> files'[f]]
  BY DEF UnlinkFiles
<1> QED
  BY <1>2, <1>3, <1>4

\* DELETE /api/conversations/{id}.
LEMMA RemoveConversationKeeps ==
    ASSUME Inv, NEW r \in Req, RemoveConversation(r)
    PROVE  Inv'
<1>1. /\ req[r].conversation \in Conversations /\ req[r].op = "remove"
      /\ req[r].by \in Users /\ \A s \in req[r].shown : s = req[r].by \/ s = OrgOf[req[r].by]
  BY DEF Inv, RequestsKnow, Local, KnowsTalk, RemoveConversation, At
<1> DEFINE c == req[r].conversation
<1>2. CASE Answer(r) /\ UNCHANGED <<talk, files>>
  BY <1>2, AnswerKeeps DEF RemoveConversation, stores
<1>3. CASE DeleteConversation(c, req[r].by) /\ Park(r, "audit")
  <2>1. PICK q \in Request :
            /\ q.pc = "audit" /\ q.op = req[r].op /\ q.by = req[r].by
            /\ q.conversation = c /\ q.shown = req[r].shown
            /\ Becomes(r, q) /\ PathsApart(r, q)
    BY <1>3, ParkIs DEF CallPC
  <2>2. Local(q) /\ KnowsTalk(q)' /\ KnowsFile(q)'
    <3>1. Local(q)
      BY <1>1, <2>1 DEF Local
    <3>2. KnowsTalk(q)'
      BY <1>1, <2>1 DEF KnowsTalk, Inside, ChatPC
    <3>3. KnowsFile(q)'
      BY <2>1 DEF KnowsFile
    <3> QED
      BY <3>1, <3>2, <3>3
  <2>3. Forget(c) /\ (UNCHANGED files \/ files' = UnlinkFiles(c))
    BY <1>3 DEF DeleteConversation, MemoryDeleteConversation, OracleDeleteConversation,
                SupabaseDeleteConversation
  <2>4. /\ conversations \in [Conversations -> ConversationRow \cup {None, Deleted}]
        /\ messages \in [Conversations -> Seq(Message)]
        /\ files \in [Files -> FileRow \cup {None, Deleted}]
    BY DEF Inv, TypeOK
  <2>5. /\ conversations' \in [Conversations -> ConversationRow \cup {None, Deleted}]
        /\ TalkKept
    BY <2>3, <2>4, RowsExist DEF Forget, TalkKept, Exists
  <2>6. messages' \in [Conversations -> Seq(Message)]
    <3>1. <<>> \in Seq(Message)
      OBVIOUS
    <3> QED
      BY <2>3, <2>4, <3>1 DEF Forget
  <2>7. SameFiles /\ files' \in [Files -> FileRow \cup {None, Deleted}]
    <3>1. CASE UNCHANGED files
      BY <2>4, <3>1 DEF SameFiles
    <3>2. CASE files' = UnlinkFiles(c)
      BY <3>2, UnlinkedFiles
    <3> QED
      BY <2>3, <3>1, <3>2
  <2>8. UNCHANGED <<config, disk, chunks, log, restarts, stripped>>
    BY DEF RemoveConversation
  <2>9. StoresTyped'
    BY <2>5, <2>6, <2>7, <2>8 DEF Inv, TypeOK, StoresTyped, config
  <2>10. TablesOK' /\ (\A p : FilesKept(p)) /\ ChunksKept
    BY <2>7, <2>8, SameFilesKeep
  <2>11. \A p \in Req \ {r} : Kept(req[p])
    BY <2>5, <2>8, <2>10 DEF Kept, config
  <2> QED
    BY <2>1, <2>2, <2>9, <2>10, <2>11, StepKeeps
<1> QED
  BY <1>2, <1>3 DEF RemoveConversation

\* What a request that went on knows, when it knew enough.
LEMMA ParkKeeps ==
    ASSUME Inv, NEW r \in Req, NEW pc \in CallPC \ {"row"}, Park(r, pc),
           UNCHANGED <<config, stores, restarts, stripped>>,
           \A q \in Request :
              /\ q.pc = pc /\ q.op = req[r].op /\ q.by = req[r].by
              /\ q.conversation = req[r].conversation
              /\ q.file = req[r].file /\ q.path = req[r].path
              /\ q.indexed = req[r].indexed /\ q.shown = req[r].shown
              => Local(q) /\ KnowsTalk(q) /\ KnowsFile(q)
    PROVE  Inv'
<1>1. PICK q \in Request :
          /\ q.pc = pc /\ q.op = req[r].op /\ q.by = req[r].by
          /\ q.conversation = req[r].conversation
          /\ q.file = req[r].file /\ q.path = req[r].path
          /\ q.indexed = req[r].indexed /\ q.shown = req[r].shown
          /\ Becomes(r, q) /\ PathsApart(r, q)
  BY ParkIs
<1> QED
  BY <1>1, ReadStepKeeps

\* What a request knows before its step.
LEMMA RequestKnows ==
    ASSUME Inv, NEW r \in Req
    PROVE  /\ req \in [Req -> Request] /\ req[r] \in Request
           /\ Local(req[r]) /\ KnowsTalk(req[r]) /\ KnowsFile(req[r])
BY DEF Inv, TypeOK, RequestsKnow

\* POST /api/chat: the conversation is looked up or made.
LEMMA EnsureConversationKeeps ==
    ASSUME Inv, NEW r \in Req, EnsureConversation(r)
    PROVE  Inv'
<1> DEFINE c == req[r].conversation
           u == req[r].by
<1>0. /\ req \in [Req -> Request] /\ req[r] \in Request /\ u \in Users
      /\ Local(req[r]) /\ req[r].pc # "idle"
      /\ \A s \in req[r].shown : s = u \/ s = OrgOf[u]
  BY RequestKnows DEF Local, KnowsTalk, EnsureConversation, At
<1>1. CASE c # None /\ Owned(c, u) /\ Park(r, "context") /\ UNCHANGED talk
  <2>1. c \in Conversations /\ conversations[c] # None /\ conversations[c].owner = u
    BY <1>0, <1>1 DEF Owned, Exists, Request
  <2>2. ASSUME NEW q \in Request, q.pc = "context", q.by = u, q.conversation = c,
               q.op = req[r].op, q.file = req[r].file, q.shown = req[r].shown
        PROVE  Local(q) /\ KnowsTalk(q) /\ KnowsFile(q)
    BY <1>0, <2>1, <2>2 DEF Local, KnowsTalk, KnowsFile, Inside, ChatPC
  <2> QED
    BY <1>1, <2>2, ParkKeeps DEF EnsureConversation, CallPC, stores
<1>2. CASE Answer(r) /\ UNCHANGED talk
  BY <1>2, AnswerKeeps DEF EnsureConversation, stores
<1>3. CASE \E d \in Conversations :
              /\ CreateConversation(d, u, Derived)
              /\ req' = [req EXCEPT ![r].pc = "context", ![r].conversation = d]
  <2>1. PICK d \in Conversations :
              /\ CreateConversation(d, u, Derived)
              /\ req' = [req EXCEPT ![r].pc = "context", ![r].conversation = d]
    BY <1>3
  <2>2. PICK q \in Request :
              /\ q.pc = "context" /\ q.op = req[r].op /\ q.by = u /\ q.conversation = d
              /\ q.file = req[r].file
              /\ q.path = req[r].path /\ q.shown = req[r].shown /\ Becomes(r, q)
    <3> DEFINE v == [req[r] EXCEPT !.pc = "context", !.conversation = d]
    <3>1. /\ v \in Request /\ v.pc = "context" /\ v.op = req[r].op /\ v.by = u
          /\ v.file = req[r].file /\ v.conversation = d /\ v.path = req[r].path
          /\ v.shown = req[r].shown
      BY <1>0 DEF Request, CallPC
    <3>2. Becomes(r, v)
      BY <1>0, <2>1 DEF Becomes
    <3> QED
      BY <3>1, <3>2
  <2>3. Derived \in Titles
    BY WorkspaceAssumption
  <2>4. conversations' = [conversations EXCEPT ![d] = [owner |-> u, title |-> Derived]]
    BY <1>0, <2>1, <2>3, CreationKeepsTalk
  <2>5. [owner |-> u, title |-> Derived] \in ConversationRow
    BY <1>0, <2>3 DEF ConversationRow
  <2>6. conversations'[d] # None /\ conversations'[d].owner = u
    BY <2>4, <2>5, RowsExist DEF Inv, TypeOK
  <2>7. KnowsTalk(q)'
    BY <1>0, <2>2, <2>6 DEF KnowsTalk, Inside, ChatPC
  <2>8. Local(q) /\ KnowsFile(q)
    BY <1>0, <2>2 DEF Local, KnowsFile
  <2>9. PathsApart(r, q)
    BY <2>2, PathsStayApart
  <2>10. log' \subseteq Event
    BY DEF EnsureConversation, Inv, TypeOK
  <2> QED
    BY <1>0, <2>1, <2>2, <2>3, <2>7, <2>8, <2>9, <2>10, CreationKeepsTalk, TalkStep
       DEF EnsureConversation
<1> QED
  BY <1>1, <1>2, <1>3 DEF EnsureConversation

Reads(r, pc, whose) == req' = [req EXCEPT ![r].pc = pc, ![r].shown = whose]

\* A request that goes on with what it has read.
LEMMA ReadIs ==
    ASSUME Inv, NEW r \in Req, NEW pc \in CallPC \ {"row"}, NEW whose,
           whose \subseteq Orgs \cup Users, Reads(r, pc, whose)
    PROVE  \E q \in Request :
             /\ q.pc = pc /\ q.op = req[r].op /\ q.by = req[r].by
             /\ q.conversation = req[r].conversation
             /\ q.file = req[r].file /\ q.path = req[r].path /\ q.shown = whose
             /\ Becomes(r, q) /\ PathsApart(r, q)
<1> DEFINE q == [req[r] EXCEPT !.pc = pc, !.shown = whose]
<1>0. req \in [Req -> Request] /\ req[r] \in Request
  BY DEF Inv, TypeOK
<1>1. /\ q \in Request
      /\ q.pc = pc /\ q.op = req[r].op /\ q.by = req[r].by
      /\ q.conversation = req[r].conversation
      /\ q.file = req[r].file /\ q.path = req[r].path /\ q.shown = whose
  BY <1>0 DEF Request
<1>2. Becomes(r, q)
  BY <1>0 DEF Becomes, Reads
<1>3. PathsApart(r, q)
  BY <1>1, PathsStayApart
<1> QED
  BY <1>1, <1>2, <1>3

\* The messages of a conversation that is its own are shown to its owner.
LEMMA MessagesAreOwners ==
    ASSUME Inv, NEW r \in Req, Inside(req[r])
    PROVE  /\ WhoseMessages(req[r].conversation, OrgOfCaller(r)) \subseteq {req[r].by}
           /\ WhoseMessages(req[r].conversation, OrgOfCaller(r)) \subseteq Users
<1> DEFINE c == req[r].conversation
<1>1. /\ c \in Conversations
      /\ Exists(conversations, c) => conversations[c].owner = req[r].by
  BY RequestKnows DEF KnowsTalk
<1>2. data \in {"memory", "oracle", "supabase"}
  BY WorkspaceAssumption DEF Inv, TypeOK
<1>3. ListMessages(c, OrgOfCaller(r)) # <<>> => Exists(conversations, c)
  BY <1>2 DEF ListMessages, MemoryMessages, OracleFetchMessages, SupabaseMessages, InScope
<1>4. Exists(conversations, c) => conversations[c].owner \in Users
  BY <1>1, ConversationIsRow DEF Inv, ConversationRow
<1> QED
  BY <1>1, <1>3, <1>4 DEF WhoseMessages

\* The last messages are the context.
LEMMA ReadContextKeeps ==
    ASSUME Inv, NEW r \in Req, ReadContext(r)
    PROVE  Inv'
<1> DEFINE whose == WhoseMessages(req[r].conversation, OrgOfCaller(r))
<1>0. /\ req[r].by \in Users /\ Local(req[r]) /\ req[r].pc # "idle" /\ Inside(req[r])
      /\ KnowsTalk(req[r])
  BY RequestKnows DEF Local, ReadContext, At, Inside, ChatPC
<1>1. whose \subseteq {req[r].by} /\ whose \subseteq Orgs \cup Users
  BY <1>0, MessagesAreOwners
<1>2. PICK q \in Request :
          /\ q.pc = "retrieve" /\ q.by = req[r].by /\ q.op = req[r].op
          /\ q.file = req[r].file /\ q.shown = whose
          /\ q.conversation = req[r].conversation
          /\ Becomes(r, q) /\ PathsApart(r, q)
  <2>1. /\ "retrieve" \in CallPC \ {"row"}
        /\ Reads(r, "retrieve", whose)
    BY DEF ReadContext, CallPC, Reads
  <2> HIDE DEF whose
  <2> QED
    BY <1>1, <2>1, ReadIs
<1>3. Local(q) /\ KnowsFile(q)
  BY <1>0, <1>2 DEF Local, KnowsFile
<1>4. KnowsTalk(q)
  BY <1>0, <1>1, <1>2 DEF KnowsTalk, Inside, ChatPC
<1> QED
  BY <1>2, <1>3, <1>4, ReadStepKeeps DEF ReadContext

\* The search stays in the organization of its caller.
LEMMA RetrieveContextKeeps ==
    ASSUME Inv, NEW r \in Req, RetrieveContext(r)
    PROVE  Inv'
<1>0. /\ req \in [Req -> Request] /\ req[r] \in Request
      /\ req[r].by \in Users /\ Local(req[r]) /\ req[r].pc # "idle" /\ Inside(req[r])
      /\ KnowsTalk(req[r])
  BY RequestKnows DEF Local, RetrieveContext, At, Inside, ChatPC
<1>1. PICK found \in {Search(OrgOfCaller(r)), {}} :
          req' = [req EXCEPT ![r].pc = "generate",
                             ![r].shown = @ \cup {k[1] : k \in found}]
  BY DEF RetrieveContext
<1> DEFINE whose == req[r].shown \cup {k[1] : k \in found}
<1>2. \A k \in found : k[1] = OrgOf[req[r].by]
  BY DEF Search, MemorySearch, OracleSearch, OrgOfCaller
<1>3. OrgOf[req[r].by] \in Orgs /\ req[r].shown \subseteq Orgs \cup Users
  BY <1>0, StoreAssumption DEF Request
<1>4. /\ whose \subseteq Orgs \cup Users
      /\ \A s \in whose : s = req[r].by \/ s = OrgOf[req[r].by]
  BY <1>0, <1>2, <1>3 DEF KnowsTalk
<1>5. Reads(r, "generate", whose)
  BY <1>1 DEF Reads
<1>6. PICK q \in Request :
          /\ q.pc = "generate" /\ q.by = req[r].by /\ q.op = req[r].op
          /\ q.file = req[r].file /\ q.shown = whose
          /\ q.conversation = req[r].conversation
          /\ Becomes(r, q) /\ PathsApart(r, q)
  <2>1. "generate" \in CallPC \ {"row"}
    BY DEF CallPC
  <2> HIDE DEF whose
  <2> QED
    BY <1>4, <1>5, <2>1, ReadIs
<1>7. Local(q) /\ KnowsFile(q)
  BY <1>0, <1>6 DEF Local, KnowsFile
<1>8. KnowsTalk(q)
  BY <1>0, <1>4, <1>6 DEF KnowsTalk, Inside, ChatPC
<1> QED
  BY <1>6, <1>7, <1>8, ReadStepKeeps DEF RetrieveContext

\* The model answers or fails.
LEMMA SendMessageKeeps ==
    ASSUME Inv, NEW r \in Req, SendMessage(r)
    PROVE  Inv'
<1>1. CASE Answer(r)
  BY <1>1, AnswerKeeps DEF SendMessage
<1>2. CASE Park(r, "record")
  <2>1. /\ req[r].by \in Users /\ Local(req[r]) /\ req[r].pc # "idle" /\ Inside(req[r])
        /\ KnowsTalk(req[r])
    BY RequestKnows DEF Local, SendMessage, At, Inside, ChatPC
  <2>2. ASSUME NEW q \in Request, q.pc = "record", q.by = req[r].by,
               q.op = req[r].op, q.file = req[r].file,
               q.conversation = req[r].conversation, q.shown = req[r].shown
        PROVE  Local(q) /\ KnowsTalk(q) /\ KnowsFile(q)
    BY <2>1, <2>2 DEF Local, KnowsTalk, KnowsFile, Inside, ChatPC
  <2> QED
    BY <1>2, <2>2, ParkKeeps DEF SendMessage, CallPC
<1> QED
  BY <1>1, <1>2 DEF SendMessage

\* Messages that are added to a conversation.
LEMMA SaidIsTyped ==
    ASSUME Inv, NEW c, NEW ms \in Seq(Message), Say(c, ms)
    PROVE  messages' \in [Conversations -> Seq(Message)]
<1>1. messages \in [Conversations -> Seq(Message)]
  BY DEF Inv, TypeOK
<1>2. c \in Conversations => messages[c] \o ms \in Seq(Message)
  BY <1>1
<1> QED
  BY <1>1, <1>2 DEF Say

\* A question and an answer are messages.
LEMMA SpokenIsMessage ==
    ASSUME NEW r \in Req
    PROVE  /\ Question(r) \in Message /\ Reply(r) \in Message
           /\ <<Question(r), Reply(r)>> \in Seq(Message)
           /\ <<Question(r)>> \in Seq(Message) /\ <<Reply(r)>> \in Seq(Message)
           /\ Open(Question(r)) \in Message /\ Open(Reply(r)) \in Message
           /\ <<Open(Question(r))>> \in Seq(Message) /\ <<Open(Reply(r))>> \in Seq(Message)
<1>1. /\ Question(r) \in Message /\ Reply(r) \in Message
      /\ Open(Question(r)) \in Message /\ Open(Reply(r)) \in Message
  BY DEF Question, Reply, Open, Message
<1> QED
  BY <1>1

\* The exchange is recorded, or its conversation is gone.
LEMMA RecordExchangeKeeps ==
    ASSUME Inv, NEW r \in Req, RecordExchange(r)
    PROVE  Inv'
<1> DEFINE c == req[r].conversation
<1>0. /\ req[r].by \in Users /\ Local(req[r]) /\ req[r].pc # "idle" /\ Inside(req[r])
      /\ KnowsTalk(req[r])
  BY RequestKnows DEF Local, RecordExchange, At, Inside, ChatPC
<1>a. messages' \in [Conversations -> Seq(Message)]
  <2>1. CASE Say(c, <<Question(r), Reply(r)>>) \/ Say(c, <<Open(Question(r))>>)
    BY <2>1, SaidIsTyped, SpokenIsMessage
  <2>2. CASE UNCHANGED messages
    BY <2>2 DEF Inv, TypeOK
  <2> QED
    BY <2>1, <2>2 DEF RecordExchange, MemoryAddMessages, OracleInsertMessage
<1>b. /\ conversations' \in [Conversations -> ConversationRow \cup {None, Deleted}]
      /\ log' \subseteq Event /\ TalkKept
  BY TalkQuiet DEF RecordExchange, Inv, TypeOK
<1>1. CASE Answer(r)
  <2>2. PICK q \in Request : /\ Becomes(r, q) /\ PathsApart(r, q) /\ Local(q)
                             /\ KnowsFile(q) /\ KnowsTalk(q)'
    BY <1>1, AnswerIs
  <2> QED
    BY <1>a, <1>b, <2>2, TalkStep DEF RecordExchange
<1>2. CASE Park(r, "question") /\ data = "supabase" /\ UNCHANGED messages
  <2>1. ASSUME NEW q \in Request, q.pc = "question", q.by = req[r].by,
               q.op = req[r].op, q.file = req[r].file,
               q.conversation = req[r].conversation, q.shown = req[r].shown
        PROVE  Local(q) /\ KnowsTalk(q) /\ KnowsFile(q)
    BY <1>0, <1>2, <2>1 DEF Local, KnowsTalk, KnowsFile, Inside, ChatPC
  <2> QED
    BY <1>2, <2>1, ParkKeeps DEF RecordExchange, CallPC, stores, talk
<1>3. CASE Park(r, "insert") /\ data = "oracle"
  <2>1. PICK q \in Request :
            /\ q.pc = "insert" /\ q.by = req[r].by /\ q.op = req[r].op
            /\ q.file = req[r].file /\ q.conversation = c
            /\ q.shown = req[r].shown /\ Becomes(r, q) /\ PathsApart(r, q)
    BY <1>3, ParkIs DEF CallPC
  <2>2. Local(q) /\ KnowsFile(q)
    BY <1>0, <2>1 DEF Local, KnowsFile
  <2>3. KnowsTalk(q)'
    BY <1>0, <1>3, <2>1 DEF KnowsTalk, Inside, ChatPC, RecordExchange, config
  <2> QED
    BY <1>a, <1>b, <2>1, <2>2, <2>3, TalkStep DEF RecordExchange
<1> QED
  BY <1>1, <1>2, <1>3 DEF RecordExchange

\* What the end of a transaction makes of the rows.
LEMMA SettleIs ==
    ASSUME NEW ms \in Seq(Message), NEW rs, NEW row \in {"kept", "undone"}
    PROVE  /\ Settle(ms, rs, row) \in Seq(Message)
           /\ Len(Settle(ms, rs, row)) = Len(ms)
           /\ \A i \in 1 .. Len(ms) :
                 Settle(ms, rs, row)[i] = IF ms[i].row = "open" /\ ms[i].from \in rs
                                          THEN [ms[i] EXCEPT !.row = row] ELSE ms[i]
<1>1. Len(ms) \in Nat /\ \A i \in 1 .. Len(ms) : ms[i] \in Message
  OBVIOUS
<1>2. \A m \in Message : [m EXCEPT !.row = row] \in Message
  BY DEF Message
<1>3. \A i \in 1 .. Len(ms) :
         (IF ms[i].row = "open" /\ ms[i].from \in rs
          THEN [ms[i] EXCEPT !.row = row] ELSE ms[i]) \in Message
  BY <1>1, <1>2
<1>4. Settle(ms, rs, row) \in [1 .. Len(ms) -> Message]
  BY <1>3 DEF Settle
<1> QED
  BY <1>1, <1>4 DEF Settle

\* What it makes of the tables.
LEMMA EndIsTyped ==
    ASSUME Inv, NEW c, NEW r, NEW row \in {"kept", "undone"}, OracleEnd(c, r, row)
    PROVE  messages' \in [Conversations -> Seq(Message)]
<1>1. messages \in [Conversations -> Seq(Message)]
  BY DEF Inv, TypeOK
<1>2. c \in Conversations => Settle(messages[c], {r}, row) \in Seq(Message)
  BY <1>1, SettleIs
<1> QED
  BY <1>1, <1>2 DEF OracleEnd

\* A call that fails, with a transaction under way or without.
LEMMA CallFailsKeeps ==
    ASSUME Inv, NEW r \in Req, CallFails(r)
    PROVE  Inv'
<1>1. messages' \in [Conversations -> Seq(Message)]
  <2>1. CASE UNCHANGED messages
    BY <2>1 DEF Inv, TypeOK
  <2> QED
    BY <2>1, EndIsTyped DEF CallFails
<1>2. /\ conversations' \in [Conversations -> ConversationRow \cup {None, Deleted}]
      /\ log' \subseteq Event /\ TalkKept
  BY TalkQuiet DEF CallFails, Inv, TypeOK
<1>3. PICK q \in Request : /\ Becomes(r, q) /\ PathsApart(r, q) /\ Local(q)
                           /\ KnowsFile(q) /\ KnowsTalk(q)'
  BY AnswerIs DEF CallFails
<1> QED
  BY <1>1, <1>2, <1>3, TalkStep DEF CallFails

\* In Oracle, the second row and the end of the transaction.
LEMMA OracleStepsKeep ==
    ASSUME Inv, NEW r \in Req, OracleInsertReply(r) \/ OracleCommit(r)
    PROVE  Inv'
<1> DEFINE c == req[r].conversation
<1>0. /\ req[r].by \in Users /\ Local(req[r]) /\ req[r].pc # "idle" /\ Inside(req[r])
      /\ KnowsTalk(req[r]) /\ data = "oracle"
  BY RequestKnows DEF Local, KnowsTalk, OracleInsertReply, OracleCommit, At, Inside, ChatPC
<1>1. /\ conversations' \in [Conversations -> ConversationRow \cup {None, Deleted}]
      /\ log' \subseteq Event /\ TalkKept
      /\ UNCHANGED <<config, files, disk, chunks, restarts, stripped>>
  BY TalkQuiet DEF OracleInsertReply, OracleCommit, Inv, TypeOK
<1>2. CASE OracleInsertReply(r)
  <2>1. messages' \in [Conversations -> Seq(Message)]
    BY <1>2, SaidIsTyped, SpokenIsMessage DEF OracleInsertReply, OracleInsertMessage
  <2>2. PICK q \in Request :
            /\ q.pc = "commit" /\ q.by = req[r].by /\ q.op = req[r].op
            /\ q.file = req[r].file /\ q.conversation = c
            /\ q.shown = req[r].shown /\ Becomes(r, q) /\ PathsApart(r, q)
    BY <1>2, ParkIs DEF CallPC, OracleInsertReply
  <2>3. Local(q) /\ KnowsFile(q)
    BY <1>0, <2>2 DEF Local, KnowsFile
  <2>4. KnowsTalk(q)'
    BY <1>0, <1>2, <2>2 DEF KnowsTalk, Inside, ChatPC, OracleInsertReply, config
  <2> QED
    BY <1>1, <2>1, <2>2, <2>3, <2>4, TalkStep
<1>3. CASE OracleCommit(r)
  <2>1. messages' \in [Conversations -> Seq(Message)]
    BY <1>3, EndIsTyped DEF OracleCommit
  <2>2. PICK q \in Request : /\ Becomes(r, q) /\ PathsApart(r, q) /\ Local(q)
                             /\ KnowsFile(q) /\ KnowsTalk(q)'
    BY <1>3, AnswerIs DEF OracleCommit
  <2> QED
    BY <1>1, <2>1, <2>2, TalkStep
<1> QED
  BY <1>2, <1>3

\* In Supabase, one message after the other.
LEMMA SupabaseAddMessagesKeeps ==
    ASSUME Inv, NEW r \in Req, SupabaseAddMessages(r)
    PROVE  Inv'
<1> DEFINE c == req[r].conversation
<1>0. /\ req[r].by \in Users /\ Local(req[r]) /\ req[r].pc # "idle" /\ Inside(req[r])
      /\ KnowsTalk(req[r]) /\ data = "supabase"
  BY RequestKnows DEF Local, KnowsTalk, SupabaseAddMessages, At, Inside, ChatPC
<1>1. messages' \in [Conversations -> Seq(Message)]
  <2>1. CASE \E m \in Message : Say(c, <<m>>)
    <3>1. PICK m \in Message : Say(c, <<m>>)
      BY <2>1
    <3>2. <<m>> \in Seq(Message)
      OBVIOUS
    <3> QED
      BY <3>1, <3>2, SaidIsTyped
  <2>2. CASE UNCHANGED messages
    BY <2>2 DEF Inv, TypeOK
  <2> QED
    BY <2>1, <2>2, SpokenIsMessage DEF SupabaseAddMessages, SupabaseInsertMessage
<1>2. /\ conversations' \in [Conversations -> ConversationRow \cup {None, Deleted}]
      /\ log' \subseteq Event /\ TalkKept
  BY TalkQuiet DEF SupabaseAddMessages, Inv, TypeOK
<1>3. CASE Answer(r)
  <2>1. PICK q \in Request : /\ Becomes(r, q) /\ PathsApart(r, q) /\ Local(q)
                             /\ KnowsFile(q) /\ KnowsTalk(q)'
    BY <1>3, AnswerIs
  <2> QED
    BY <1>1, <1>2, <2>1, TalkStep DEF SupabaseAddMessages
<1>4. CASE Park(r, IF At(r, "question") THEN "reply" ELSE "touch")
  <2>1. PICK pc \in {"reply", "touch"} : Park(r, pc)
    BY <1>4
  <2>2. PICK q \in Request :
            /\ q.pc = pc /\ q.by = req[r].by /\ q.op = req[r].op /\ q.file = req[r].file
            /\ q.conversation = c
            /\ q.shown = req[r].shown /\ Becomes(r, q) /\ PathsApart(r, q)
    BY <2>1, ParkIs DEF CallPC
  <2>3. Local(q) /\ KnowsFile(q)
    BY <1>0, <2>2 DEF Local, KnowsFile
  <2>4. KnowsTalk(q)'
    BY <1>0, <2>2 DEF KnowsTalk, Inside, ChatPC, SupabaseAddMessages, config
  <2> QED
    BY <1>1, <1>2, <2>2, <2>3, <2>4, TalkStep DEF SupabaseAddMessages
<1> QED
  BY <1>3, <1>4 DEF SupabaseAddMessages

\* updated_at says nothing.
LEMMA SupabaseTouchKeeps ==
    ASSUME Inv, NEW r \in Req, SupabaseTouch(r)
    PROVE  Inv'
BY AnswerKeeps DEF SupabaseTouch

-----------------------------------------------------------------------------
(* Files.                                                                   *)

\* A step of a file request: conversations and their messages stay.
LEMMA FileStepKeeps ==
    ASSUME Inv, NEW r \in Req, NEW q \in Request, Becomes(r, q),
           UNCHANGED <<config, talk, log, restarts>>,
           files' \in [Files -> FileRow \cup {None, Deleted}],
           disk' \subseteq Paths, chunks' \subseteq Orgs \X Files, stripped' \subseteq Files,
           Local(q), KnowsTalk(q), KnowsFile(q)', PathsApart(r, q),
           \A p \in Req \ {r} : FilesKept(req[p]), ChunksKept,
           \A p \in Req \ {r} : req[p].pc = "row" /\ req[p].path \in disk => req[p].path \in disk',
           TablesOK'
    PROVE  Inv'
<1>1. StoresTyped'
  BY DEF Inv, TypeOK, StoresTyped, config, talk
<1>2. KnowsTalk(q)'
  BY DEF KnowsTalk, config, talk, Exists
<1>3. UNCHANGED conversations /\ UNCHANGED <<data, retrieval>>
  BY DEF talk, config
<1>4. \A p \in Req \ {r} : Kept(req[p])
  BY <1>3, TalkQuiet DEF Kept
<1> QED
  BY <1>1, <1>2, <1>4, StepKeeps

\* Records that stay as they are.
LEMMA FilesQuiet ==
    ASSUME UNCHANGED files, NEW p
    PROVE  FilesKept(p)
BY DEF FilesKept, Exists

\* Messages are not read, nor a conversation extended, by a file request.
LEMMA FileRequestKnows ==
    ASSUME Inv, NEW r \in Req, NEW q,
           q.pc \in {"check", "disk", "row", "index", "status", "chunks", "forget", "unlink",
                     "audit"},
           q.by = req[r].by, q.shown = req[r].shown
    PROVE  KnowsTalk(q)
BY RequestKnows DEF KnowsTalk, Inside, ChatPC

\* POST /api/files: the conversation it is for is looked up.
LEMMA CheckConversationKeeps ==
    ASSUME Inv, NEW r \in Req, CheckConversation(r)
    PROVE  Inv'
<1>1. CASE Answer(r)
  BY <1>1, AnswerKeeps DEF CheckConversation
<1>2. CASE Park(r, "disk")
  <2>1. Local(req[r]) /\ req[r].pc = "check" /\ req[r].op = "upload" /\ req[r].by \in Users
    BY RequestKnows DEF CheckConversation, At, Local
  <2>2. ASSUME NEW q \in Request, q.pc = "disk", q.by = req[r].by, q.op = req[r].op,
               q.conversation = req[r].conversation, q.file = req[r].file,
               q.shown = req[r].shown, q.indexed = req[r].indexed
        PROVE  Local(q) /\ KnowsTalk(q) /\ KnowsFile(q)
    <3>1. KnowsTalk(q)
      BY <2>2, FileRequestKnows
    <3> QED
      BY <2>1, <2>2, <3>1 DEF Local, KnowsFile
  <2> QED
    BY <1>2, <2>2, ParkKeeps DEF CheckConversation, CallPC
<1> QED
  BY <1>1, <1>2 DEF CheckConversation

\* The file is written under a path of its own.
LEMMA WriteBytesKeeps ==
    ASSUME Inv, NEW r \in Req, WriteBytes(r)
    PROVE  Inv'
<1>1. CASE Answer(r) /\ UNCHANGED disk
  BY <1>1, AnswerKeeps DEF WriteBytes, stores
<1>2. CASE \E p \in Paths : /\ IsFresh(p) /\ disk' = disk \cup {p}
                            /\ req' = [req EXCEPT ![r].pc = "row", ![r].path = p]
  <2>1. PICK p \in Paths : /\ IsFresh(p) /\ disk' = disk \cup {p}
                           /\ req' = [req EXCEPT ![r].pc = "row", ![r].path = p]
    BY <1>2
  <2>2. /\ req \in [Req -> Request] /\ req[r] \in Request /\ Local(req[r]) /\ ~req[r].indexed
        /\ req[r].pc = "disk" /\ req[r].op = "upload" /\ req[r].by \in Users
    BY RequestKnows DEF WriteBytes, At, Local
  <2>3. PICK q \in Request :
            /\ q.pc = "row" /\ q.path = p /\ q.by = req[r].by
            /\ q.op = "upload" /\ q.shown = req[r].shown /\ ~q.indexed /\ Becomes(r, q)
    <3> DEFINE v == [req[r] EXCEPT !.pc = "row", !.path = p]
    <3>1. /\ v \in Request /\ v.pc = "row" /\ v.path = p /\ v.by = req[r].by
          /\ v.op = "upload" /\ v.shown = req[r].shown /\ ~v.indexed
      BY <2>2 DEF Request, CallPC
    <3>2. Becomes(r, v)
      BY <2>1, <2>2 DEF Becomes
    <3> QED
      BY <3>1, <3>2
  <2>5. Local(q) /\ KnowsTalk(q)
    BY <2>2, <2>3, FileRequestKnows DEF Local
  <2>6. UNCHANGED <<config, talk, files, chunks, log, restarts, stripped>>
    BY DEF WriteBytes
  <2>7. KnowsFile(q)'
    BY <2>1, <2>3, <2>6 DEF KnowsFile, IsFresh, Exists
  <2>8. PathsApart(r, q)
    BY <2>1, <2>3 DEF PathsApart, IsFresh
  <2>9. TablesOK'
    BY <2>1, <2>6
       DEF Inv, TablesOK, RecordsHaveTheirFile, ProcessedIsIndexed, config, Exists
  <2>10. (\A v \in Req \ {r} : FilesKept(req[v])) /\ ChunksKept
    BY <2>6, FilesQuiet DEF ChunksKept
  <2>11. /\ disk' \subseteq Paths /\ chunks' \subseteq Orgs \X Files
         /\ stripped' \subseteq Files
         /\ files' \in [Files -> FileRow \cup {None, Deleted}]
    BY <2>1, <2>6 DEF Inv, TypeOK
  <2> QED
    BY <2>1, <2>3, <2>5, <2>6, <2>7, <2>8, <2>9, <2>10, <2>11, FileStepKeeps
<1> QED
  BY <1>1, <1>2 DEF WriteBytes

\* A record of r's file, in every store.
LEMMA CreatedFile ==
    ASSUME Inv, NEW f \in Files, NEW u \in Users, NEW c \in Conversations \cup {None},
           NEW p \in Paths, CreateFile(f, u, c, p)
    PROVE  \E row \in FileRow :
             /\ files[f] = None /\ files' = [files EXCEPT ![f] = row]
             /\ row.org = OrgOf[u] /\ row.path = p /\ row.status # "processed"
<1>1. \A status \in Statuses : NewFile(u, c, p, status) \in FileRow
  BY StoreAssumption DEF NewFile, FileRow
<1>2. \A status \in Statuses : /\ NewFile(u, c, p, status).org = OrgOf[u]
                               /\ NewFile(u, c, p, status).path = p
                               /\ NewFile(u, c, p, status).status = status
  BY DEF NewFile
<1>3. \E status \in {"pending", "uploaded"} :
          files[f] = None /\ files' = [files EXCEPT ![f] = NewFile(u, c, p, status)]
  BY DEF CreateFile, MemoryCreateFile, OracleInsertFile, SupabaseCreateFile, IsNext
<1> QED
  BY <1>1, <1>2, <1>3 DEF Statuses

\* The record leads to the file that was written.
LEMMA RecordFileKeeps ==
    ASSUME Inv, NEW r \in Req, RecordFile(r)
    PROVE  Inv'
<1>0. /\ req \in [Req -> Request] /\ req[r] \in Request /\ Local(req[r]) /\ ~req[r].indexed
      /\ KnowsFile(req[r]) /\ req[r].pc = "row" /\ req[r].op = "upload"
      /\ req[r].by \in Users /\ req[r].path \in Paths
      /\ req[r].conversation \in Conversations \cup {None}
  BY RequestKnows DEF RecordFile, At, Local, Request
<1>1. CASE Answer(r) /\ UNCHANGED files
  BY <1>1, AnswerKeeps DEF RecordFile, stores
<1>2. CASE \E f \in Files :
              /\ CreateFile(f, req[r].by, req[r].conversation, req[r].path)
              /\ req' = [req EXCEPT ![r].pc = "index", ![r].file = f]
  <2>1. PICK f \in Files :
              /\ CreateFile(f, req[r].by, req[r].conversation, req[r].path)
              /\ req' = [req EXCEPT ![r].pc = "index", ![r].file = f]
    BY <1>2
  <2>2. PICK row \in FileRow :
             /\ files[f] = None /\ files' = [files EXCEPT ![f] = row]
             /\ row.org = OrgOf[req[r].by] /\ row.path = req[r].path
             /\ row.status # "processed"
    BY <1>0, <2>1, CreatedFile
  <2>3. PICK q \in Request :
            /\ q.pc = "index" /\ q.path = req[r].path /\ q.by = req[r].by
            /\ q.op = "upload" /\ q.shown = req[r].shown /\ ~q.indexed /\ q.file = f
            /\ Becomes(r, q)
    <3> DEFINE v == [req[r] EXCEPT !.pc = "index", !.file = f]
    <3>1. /\ v \in Request /\ v.pc = "index" /\ v.path = req[r].path
          /\ v.by = req[r].by /\ v.op = "upload" /\ v.shown = req[r].shown /\ ~v.indexed
          /\ v.file = f
      BY <1>0 DEF Request, CallPC
    <3>2. Becomes(r, v)
      BY <1>0, <2>1 DEF Becomes
    <3> QED
      BY <3>1, <3>2
  <2>5. Local(q) /\ KnowsTalk(q) /\ PathsApart(r, q)
    BY <1>0, <2>3, FileRequestKnows, PathsStayApart DEF Local
  <2>6. UNCHANGED <<config, talk, disk, chunks, log, restarts, stripped>>
    BY DEF RecordFile
  <2>7. files \in [Files -> FileRow \cup {None, Deleted}]
    BY DEF Inv, TypeOK
  <2>8. /\ files' \in [Files -> FileRow \cup {None, Deleted}]
        /\ files'[f] = row /\ Exists(files, f)' /\ ~Exists(files, f)
        /\ \A g \in Files \ {f} : files'[g] = files[g] /\ (Exists(files, g)' <=> Exists(files, g))
    BY <2>2, <2>7, RowsExist DEF Exists
  <2>9. KnowsFile(q)'
    BY <2>2, <2>3, <2>8, RowsExist DEF KnowsFile
  <2>10. \A g \in Files : Exists(files, g) => files[g].path # req[r].path
    BY <1>0 DEF KnowsFile
  <2>11. TablesOK'
    <3>1. RecordsHaveTheirFile'
      BY <1>0, <2>2, <2>6, <2>8 DEF Inv, TablesOK, RecordsHaveTheirFile, KnowsFile
    <3>2. ProcessedIsIndexed'
      BY <2>2, <2>6, <2>8 DEF Inv, TablesOK, ProcessedIsIndexed, config
    <3>3. \A g, h \in Files : Exists(files, g)' /\ Exists(files, h)'
                              /\ files'[g].path = files'[h].path => g = h
      BY <2>2, <2>8, <2>10 DEF Inv, TablesOK
    <3>4. \A g \in Files : files'[g] = Deleted => files[g] = Deleted
      BY <2>2, <2>8, RowsExist
    <3> QED
      BY <2>6, <3>1, <3>2, <3>3, <3>4 DEF Inv, TablesOK, config
  <2>12. ASSUME NEW p \in Req \ {r} PROVE FilesKept(req[p])
    <3>1. req[p].path # req[r].path
      BY <1>0 DEF Inv, PathsAreOwn
    <3>2. files'[f].path = req[r].path
      BY <2>2, <2>8
    <3>3. \A g \in Files \ {f} : files[g] = None => ~Exists(files, g)'
      BY <2>8 DEF Exists
    <3> QED
      BY <2>2, <2>8, <3>1, <3>2, <3>3, RowsExist DEF FilesKept
  <2>13. ChunksKept
    BY <2>6 DEF ChunksKept
  <2>14. disk' \subseteq Paths /\ chunks' \subseteq Orgs \X Files /\ stripped' \subseteq Files
    BY <2>6 DEF Inv, TypeOK
  <2> QED
    BY <2>3, <2>5, <2>6, <2>8, <2>9, <2>11, <2>12, <2>13, <2>14, FileStepKeeps
<1> QED
  BY <1>1, <1>2 DEF RecordFile

\* The chunks are saved, or something failed on the way.
LEMMA IndexForSearchKeeps ==
    ASSUME Inv, NEW r \in Req, IndexForSearch(r)
    PROVE  Inv'
<1> DEFINE f == req[r].file
           o == OrgOf[req[r].by]
<1>0. /\ req \in [Req -> Request] /\ req[r] \in Request /\ Local(req[r])
      /\ KnowsFile(req[r]) /\ req[r].pc = "index" /\ req[r].op = "upload"
      /\ req[r].by \in Users /\ f \in Files /\ o \in Orgs
      /\ files[f] # None /\ (Exists(files, f) => files[f].org = o)
  BY RequestKnows, StoreAssumption DEF IndexForSearch, At, Local, KnowsFile
<1>1. CASE Park(r, "status") /\ UNCHANGED chunks
  <2>1. ASSUME NEW q \in Request, q.pc = "status", q.by = req[r].by, q.op = req[r].op,
               q.file = f, q.indexed = req[r].indexed, q.shown = req[r].shown
        PROVE  Local(q) /\ KnowsTalk(q) /\ KnowsFile(q)
    <3>1. KnowsTalk(q)
      BY <2>1, FileRequestKnows
    <3>2. Local(q)
      BY <1>0, <2>1 DEF Local
    <3>3. ~req[r].indexed
      BY <1>0 DEF Local
    <3> QED
      BY <1>0, <2>1, <3>1, <3>2, <3>3 DEF KnowsFile
  <2> QED
    BY <1>1, <2>1, ParkKeeps DEF IndexForSearch, CallPC, stores
<1>2. CASE /\ SaveChunks(f, o)
           /\ req' = [req EXCEPT ![r].pc = "status", ![r].indexed = TRUE]
  <2>1. PICK q \in Request :
            /\ q.pc = "status" /\ q.path = req[r].path /\ q.by = req[r].by
            /\ q.op = "upload" /\ q.shown = req[r].shown /\ q.file = f /\ Becomes(r, q)
    <3> DEFINE v == [req[r] EXCEPT !.pc = "status", !.indexed = TRUE]
    <3>1. /\ v \in Request /\ v.pc = "status" /\ v.path = req[r].path
          /\ v.by = req[r].by /\ v.op = "upload" /\ v.shown = req[r].shown /\ v.file = f
      BY <1>0 DEF Request, CallPC
    <3>2. Becomes(r, v)
      BY <1>0, <1>2 DEF Becomes
    <3> QED
      BY <3>1, <3>2
  <2>2. UNCHANGED <<config, talk, files, disk, log, restarts, stripped>>
    BY DEF IndexForSearch
  <2>3. /\ chunks' = chunks \cup {<<o, f>>}
        /\ retrieval = "memory" \/ data = "oracle"
    BY <1>2 DEF SaveChunks, MemorySave, OracleSaveChunks
  <2>4. Local(q) /\ KnowsTalk(q) /\ PathsApart(r, q)
    BY <1>0, <2>1, FileRequestKnows, PathsStayApart DEF Local
  <2>5. KnowsFile(q)'
    BY <1>0, <2>1, <2>2, <2>3 DEF KnowsFile, Exists
  <2>6. TablesOK'
    <3>1. ProcessedIsIndexed'
      BY <2>2, <2>3 DEF Inv, TablesOK, ProcessedIsIndexed, config, Exists
    <3> QED
      BY <2>2, <2>3, <3>1 DEF Inv, TablesOK, RecordsHaveTheirFile, config, Exists
  <2>7. ChunksKept
    BY <2>2, <2>3 DEF ChunksKept
  <2>8. \A p \in Req \ {r} : FilesKept(req[p])
    BY <2>2, FilesQuiet
  <2>9. /\ disk' \subseteq Paths /\ chunks' \subseteq Orgs \X Files /\ stripped' \subseteq Files
        /\ files' \in [Files -> FileRow \cup {None, Deleted}]
    BY <1>0, <2>2, <2>3 DEF Inv, TypeOK
  <2> QED
    BY <2>1, <2>2, <2>4, <2>5, <2>6, <2>7, <2>8, <2>9, FileStepKeeps
<1> QED
  BY <1>1, <1>2 DEF IndexForSearch, OrgOfCaller

\* A status that is written.
LEMMA StatusWritten ==
    ASSUME Inv, NEW f \in Files, NEW o, NEW status \in Statuses, SetStatus(f, o, status)
    PROVE  \E row \in FileRow :
             /\ Exists(files, f) /\ files[f].org = o /\ files' = [files EXCEPT ![f] = row]
             /\ row.path = files[f].path /\ row.org = o /\ row.status = status
<1>1. /\ Exists(files, f) /\ files[f].org = o
      /\ files' = [files EXCEPT ![f].status = status]
  BY DEF SetStatus, MemorySetStatus, OracleUpdateStatus, SupabaseSetStatus, GetFile
<1>2. files[f] \in FileRow
  BY <1>1, FileIsRow DEF Inv
<1> DEFINE row == [files[f] EXCEPT !.status = status]
<1>3. row \in FileRow /\ row.path = files[f].path /\ row.org = o /\ row.status = status
  BY <1>1, <1>2 DEF FileRow
<1>4. files' = [files EXCEPT ![f] = row]
  BY <1>1 DEF Inv, TypeOK
<1> QED
  BY <1>1, <1>3, <1>4

\* What is called processed was indexed.
LEMMA MarkFileKeeps ==
    ASSUME Inv, NEW r \in Req, MarkFile(r)
    PROVE  Inv'
<1>b. /\ req \in [Req -> Request] /\ req[r] \in Request /\ Local(req[r])
      /\ KnowsFile(req[r]) /\ req[r].pc = "status" /\ req[r].op = "upload"
      /\ req[r].by \in Users /\ req[r].file \in Files /\ OrgOf[req[r].by] \in Orgs
      /\ files[req[r].file] # None
  BY RequestKnows, StoreAssumption DEF MarkFile, At, Local, KnowsFile
<1>c. PICK f \in Files : f = req[r].file
  BY <1>b
<1>d. PICK o \in Orgs : o = OrgOf[req[r].by]
  BY <1>b
<1>e. PICK status \in Statuses :
          /\ status = StatusOf(req[r]) /\ (status = "processed" => req[r].indexed)
  BY DEF StatusOf, Statuses
<1>0. /\ Local(req[r]) /\ KnowsFile(req[r]) /\ req[r].pc = "status"
      /\ req[r].op = "upload" /\ req[r].by \in Users /\ files[f] # None
      /\ f = req[r].file /\ o = OrgOf[req[r].by]
  BY <1>b, <1>c, <1>d
<1>1. CASE Answer(r) /\ UNCHANGED files
  BY <1>1, AnswerKeeps DEF MarkFile, stores
<1>a. ASSUME NEW q \in Request, q.pc = "audit", q.by = req[r].by, q.op = req[r].op,
             q.file = f, q.shown = req[r].shown
      PROVE  Local(q) /\ KnowsTalk(q) /\ KnowsFile(q) /\ KnowsFile(q)'
  <2>1. KnowsTalk(q)
    BY <1>a, FileRequestKnows
  <2>2. KnowsFile(q) /\ KnowsFile(q)'
    BY <1>a DEF KnowsFile
  <2> QED
    BY <1>0, <1>a, <2>1, <2>2 DEF Local
<1>2. CASE Park(r, "audit") /\ UNCHANGED files
  BY <1>0, <1>2, <1>a, ParkKeeps DEF MarkFile, CallPC, stores
<1>3. CASE SetStatus(f, o, status) /\ Park(r, "audit")
  <2>2. PICK row \in FileRow :
             /\ Exists(files, f) /\ files[f].org = o /\ files' = [files EXCEPT ![f] = row]
             /\ row.path = files[f].path /\ row.org = o /\ row.status = status
    BY <1>3, StatusWritten
  <2>3. PICK q \in Request :
            /\ q.pc = "audit" /\ q.op = req[r].op /\ q.by = req[r].by /\ q.file = f
            /\ q.shown = req[r].shown /\ Becomes(r, q) /\ PathsApart(r, q)
    BY <1>0, <1>3, ParkIs DEF CallPC
  <2>4. UNCHANGED <<config, talk, disk, chunks, log, restarts, stripped>>
    BY DEF MarkFile
  <2>5. Local(q) /\ KnowsTalk(q) /\ KnowsFile(q)'
    BY <1>0, <1>a, <2>3
  <2>6. files \in [Files -> FileRow \cup {None, Deleted}]
    BY DEF Inv, TypeOK
  <2>7. /\ files' \in [Files -> FileRow \cup {None, Deleted}]
        /\ files'[f] = row /\ Exists(files, f)'
        /\ \A g \in Files \ {f} : files'[g] = files[g] /\ (Exists(files, g)' <=> Exists(files, g))
    BY <1>0, <2>2, <2>6, RowsExist DEF Exists
  <2>8. TablesOK'
    <3>1. RecordsHaveTheirFile'
      BY <2>2, <2>4, <2>7 DEF Inv, TablesOK, RecordsHaveTheirFile
    <3>2. status = "processed" => <<o, f>> \in chunks \/ f \in stripped
      BY <1>0, <1>e, <2>2 DEF KnowsFile
    <3>3. ProcessedIsIndexed'
      BY <2>2, <2>4, <2>7, <3>2 DEF Inv, TablesOK, ProcessedIsIndexed, config
    <3>4. \A g, h \in Files : Exists(files, g)' /\ Exists(files, h)'
                              /\ files'[g].path = files'[h].path => g = h
      BY <2>2, <2>7 DEF Inv, TablesOK
    <3>5. \A g \in Files : files'[g] = Deleted => files[g] = Deleted
      BY <2>2, <2>7, RowsExist
    <3> QED
      BY <2>4, <3>1, <3>3, <3>4, <3>5 DEF Inv, TablesOK, config
  <2>9. ASSUME NEW p \in Req \ {r} PROVE FilesKept(req[p])
    <3>1. \A g \in Files : files[g] = None => g # f /\ ~Exists(files, g)'
      BY <1>0, <2>7 DEF Exists
    <3>2. \A g \in Files : files[g] # None => files'[g] # None
      BY <2>7, RowsExist
    <3> QED
      BY <2>2, <2>7, <3>1, <3>2 DEF FilesKept
  <2>10. ChunksKept
    BY <2>4 DEF ChunksKept
  <2>11. disk' \subseteq Paths /\ chunks' \subseteq Orgs \X Files /\ stripped' \subseteq Files
    BY <2>4 DEF Inv, TypeOK
  <2> QED
    BY <2>3, <2>4, <2>5, <2>7, <2>8, <2>9, <2>10, <2>11, FileStepKeeps
<1> QED
  BY <1>0, <1>1, <1>2, <1>3, <1>e DEF MarkFile, OrgOfCaller

\* DELETE /api/files/{id}: the record is looked up.
LEMMA LookUpFileKeeps ==
    ASSUME Inv, NEW r \in Req, LookUpFile(r)
    PROVE  Inv'
<1> DEFINE f == req[r].file
<1>0. /\ req \in [Req -> Request] /\ req[r] \in Request /\ Local(req[r])
      /\ req[r].pc = "look" /\ req[r].op = "delete"
      /\ req[r].by \in Users /\ f \in Files
  BY RequestKnows DEF LookUpFile, At, Local
<1>1. CASE Answer(r)
  BY <1>1, AnswerKeeps DEF LookUpFile
<1>2. CASE /\ GetFile(f, OrgOfCaller(r))
           /\ req' = [req EXCEPT ![r].pc = "chunks", ![r].path = files[f].path]
  <2>1. Exists(files, f) /\ files[f].org = OrgOf[req[r].by]
    BY <1>2 DEF GetFile, OrgOfCaller
  <2>2. PICK p \in Paths : p = files[f].path
    BY <1>0, <2>1, FileIsRow DEF Inv, FileRow
  <2>3. PICK q \in Request :
            /\ q.pc = "chunks" /\ q.path = p /\ q.by = req[r].by
            /\ q.op = "delete" /\ q.shown = req[r].shown /\ q.file = f /\ Becomes(r, q)
    <3> DEFINE v == [req[r] EXCEPT !.pc = "chunks", !.path = p]
    <3>1. /\ v \in Request /\ v.pc = "chunks" /\ v.path = p
          /\ v.by = req[r].by /\ v.op = "delete" /\ v.shown = req[r].shown /\ v.file = f
      BY <1>0 DEF Request, CallPC
    <3>2. Becomes(r, v)
      BY <1>0, <1>2, <2>2 DEF Becomes
    <3> QED
      BY <3>1, <3>2
  <2>4. Local(q) /\ KnowsTalk(q)
    BY <1>0, <2>3, FileRequestKnows DEF Local
  <2>5. PathsApart(r, q)
    BY <1>0, <2>1, <2>2, <2>3, PathsStayApart
  <2>6. KnowsFile(q)
    <3>1. \A g \in Files : Exists(files, g) /\ files[g].path = p => g = f
      BY <1>0, <2>1, <2>2 DEF Inv, TablesOK
    <3> QED
      BY <2>1, <2>3, <3>1 DEF KnowsFile, Exists
  <2> QED
    BY <2>3, <2>4, <2>5, <2>6, ReadStepKeeps DEF LookUpFile
<1> QED
  BY <1>1, <1>2 DEF LookUpFile

\* The chunks are taken before the record.
LEMMA DropChunksKeeps ==
    ASSUME Inv, NEW r \in Req, DropChunks(r)
    PROVE  Inv'
<1> DEFINE f == req[r].file
           o == OrgOf[req[r].by]
<1>0. /\ req \in [Req -> Request] /\ req[r] \in Request /\ Local(req[r])
      /\ KnowsFile(req[r]) /\ req[r].pc = "chunks" /\ req[r].op = "delete"
      /\ req[r].by \in Users /\ f \in Files /\ req[r].path \in Paths
  BY RequestKnows DEF DropChunks, At, Local
<1>1. PICK q \in Request :
          /\ q.pc = "forget" /\ q.op = "delete" /\ q.by = req[r].by /\ q.file = f
          /\ q.path = req[r].path
          /\ q.shown = req[r].shown /\ Becomes(r, q) /\ PathsApart(r, q)
  BY <1>0, ParkIs DEF CallPC, DropChunks
<1>2. UNCHANGED <<config, talk, files, disk, log, restarts>>
  BY DEF DropChunks
<1>3. /\ \A k \in chunks : k \in chunks' \/ (k = <<o, f>> /\ f \in stripped')
      /\ chunks' \subseteq chunks
      /\ stripped \subseteq stripped' /\ stripped' \subseteq Files
      /\ retrieval # "oracle" => f \in stripped'
  <2>1. \/ /\ chunks' = chunks \ {<<o, f>>} \/ chunks' = {k \in chunks : k # <<o, f>>}
           /\ stripped' = stripped \cup {f}
        \/ retrieval = "oracle" /\ UNCHANGED <<chunks, stripped>>
    BY DEF DropChunks, DeleteFileChunks, MemoryDeleteFileChunks, OracleDeleteChunks,
           OrgOfCaller
  <2> QED
    BY <1>0, <2>1 DEF Inv, TypeOK
<1>4. Local(q) /\ KnowsTalk(q)
  BY <1>0, <1>1, FileRequestKnows DEF Local
<1>5. KnowsFile(q)'
  BY <1>0, <1>1, <1>2, <1>3 DEF KnowsFile, config, Exists
<1>6. ChunksKept
  BY <1>3 DEF ChunksKept
<1>7. TablesOK'
  <2>1. ProcessedIsIndexed'
    <3> SUFFICES ASSUME NEW g \in Files, Exists(files, g)', files'[g].status = "processed"
                 PROVE  \/ <<files'[g].org, g>> \in chunks'
                        \/ g \in stripped'
                        \/ restarts' > 0 /\ retrieval' = "memory"
      BY DEF ProcessedIsIndexed
    <3>1. \/ <<files[g].org, g>> \in chunks
          \/ g \in stripped
          \/ restarts > 0 /\ retrieval = "memory"
      BY <1>2 DEF Inv, TablesOK, ProcessedIsIndexed, Exists
    <3>2. <<files[g].org, g>> = <<o, f>> => g = f
      OBVIOUS
    <3> QED
      BY <1>2, <1>3, <3>1, <3>2 DEF config
  <2>2. RecordsHaveTheirFile'
    BY <1>2 DEF Inv, TablesOK, RecordsHaveTheirFile, Exists
  <2> QED
    BY <1>2, <1>3, <2>1, <2>2 DEF Inv, TablesOK, config, Exists
<1>8. \A p \in Req \ {r} : FilesKept(req[p])
  BY <1>2, FilesQuiet
<1>9. /\ disk' \subseteq Paths /\ chunks' \subseteq Orgs \X Files
      /\ files' \in [Files -> FileRow \cup {None, Deleted}]
  BY <1>2, <1>3 DEF Inv, TypeOK
<1> QED
  BY <1>1, <1>2, <1>3, <1>4, <1>5, <1>6, <1>7, <1>8, <1>9, FileStepKeeps

\* The record is removed before its file.
LEMMA ForgetFileKeeps ==
    ASSUME Inv, NEW r \in Req, ForgetFile(r)
    PROVE  Inv'
<1>c. PICK f : f = req[r].file
  OBVIOUS
<1>d. PICK o : o = OrgOf[req[r].by]
  OBVIOUS
<1>0. /\ req \in [Req -> Request] /\ req[r] \in Request /\ Local(req[r])
      /\ KnowsFile(req[r]) /\ req[r].pc = "forget" /\ req[r].op = "delete"
      /\ req[r].by \in Users /\ f \in Files /\ req[r].path \in Paths
      /\ (Exists(files, f) => files[f].org = o)
      /\ \A g \in Files : Exists(files, g) /\ files[g].path = req[r].path => g = f
      /\ retrieval = "memory" => f \in stripped
  BY <1>c, <1>d, RequestKnows DEF ForgetFile, At, Local, KnowsFile
<1>1. PICK q \in Request :
          /\ q.pc = "unlink" /\ q.op = "delete" /\ q.by = req[r].by /\ q.file = f
          /\ q.path = req[r].path
          /\ q.shown = req[r].shown /\ Becomes(r, q) /\ PathsApart(r, q)
  BY <1>0, <1>c, ParkIs DEF CallPC, ForgetFile
<1>2. UNCHANGED <<config, talk, disk, log, restarts, stripped>>
  BY DEF ForgetFile
<1>a. files \in [Files -> FileRow \cup {None, Deleted}] /\ chunks \subseteq Orgs \X Files
  BY DEF Inv, TypeOK
<1>3. /\ files' \in [Files -> FileRow \cup {None, Deleted}]
      /\ ~Exists(files, f)'
      /\ files'[f] = files[f] \/ files'[f] = Deleted
      /\ \A g \in Files \ {f} : files'[g] = files[g]
      /\ chunks' \subseteq chunks /\ \A k \in chunks : k \in chunks' \/ k[2] = f
  <2>1. CASE GetFile(f, o) /\ DeleteFile(f)
    <3>1. /\ files' = [files EXCEPT ![f] = Deleted]
          /\ chunks' = chunks \/ chunks' = {k \in chunks : k[2] # f}
      BY <2>1 DEF DeleteFile, MemoryDeleteFile, OracleDeleteFile, SupabaseDeleteFile
    <3> QED
      BY <1>0, <1>a, <3>1 DEF Exists
  <2>2. CASE ~GetFile(f, o) /\ UNCHANGED <<files, chunks>>
    BY <1>0, <1>a, <2>2 DEF GetFile, Exists
  <2> QED
    BY <1>c, <1>d, <2>1, <2>2 DEF ForgetFile, OrgOfCaller
<1>b. \A g \in Files \ {f} : Exists(files, g)' <=> Exists(files, g)
  BY <1>3 DEF Exists
<1>4. Local(q) /\ KnowsTalk(q)
  BY <1>0, <1>1, FileRequestKnows DEF Local
<1>5. KnowsFile(q)'
  <2>1. \A g \in Files : Exists(files, g)' => files'[g].path # req[r].path
    BY <1>0, <1>3, <1>b
  <2> QED
    BY <1>1, <2>1 DEF KnowsFile
<1>6. ChunksKept
  BY <1>2, <1>3 DEF ChunksKept
<1>7. TablesOK'
  <2>1. ProcessedIsIndexed'
    <3> SUFFICES ASSUME NEW g \in Files, Exists(files, g)', files'[g].status = "processed"
                 PROVE  \/ <<files'[g].org, g>> \in chunks'
                        \/ g \in stripped'
                        \/ restarts' > 0 /\ retrieval' = "memory"
      BY DEF ProcessedIsIndexed
    <3>1. g # f
      BY <1>3
    <3>2. /\ files'[g] = files[g]
          /\ \/ <<files[g].org, g>> \in chunks
             \/ g \in stripped
             \/ restarts > 0 /\ retrieval = "memory"
      BY <1>3, <1>b, <3>1 DEF Inv, TablesOK, ProcessedIsIndexed
    <3>3. <<files[g].org, g>> \in chunks => <<files[g].org, g>> \in chunks'
      BY <1>3, <3>1
    <3> QED
      BY <1>2, <3>2, <3>3 DEF config
  <2>2. RecordsHaveTheirFile'
    BY <1>2, <1>3, <1>b DEF Inv, TablesOK, RecordsHaveTheirFile
  <2>3. \A g, h \in Files : Exists(files, g)' /\ Exists(files, h)'
                            /\ files'[g].path = files'[h].path => g = h
    BY <1>3, <1>b DEF Inv, TablesOK
  <2>4. retrieval' = "memory" => \A g \in Files : files'[g] = Deleted => g \in stripped'
    BY <1>0, <1>2, <1>3 DEF Inv, TablesOK, config
  <2>5. retrieval' = "oracle" /\ data' # "oracle" => chunks' = {}
    BY <1>2, <1>3 DEF Inv, TablesOK, config
  <2> QED
    BY <2>1, <2>2, <2>3, <2>4, <2>5 DEF TablesOK
<1>8. ASSUME NEW p \in Req \ {r} PROVE FilesKept(req[p])
  BY <1>3, <1>b, RowsExist DEF FilesKept, Exists
<1>9. /\ disk' \subseteq Paths /\ chunks' \subseteq Orgs \X Files /\ stripped' \subseteq Files
  BY <1>2, <1>3 DEF Inv, TypeOK
<1> QED
  BY <1>1, <1>2, <1>3, <1>4, <1>5, <1>6, <1>7, <1>8, <1>9, FileStepKeeps

\* The file goes last.
LEMMA UnlinkFileKeeps ==
    ASSUME Inv, NEW r \in Req, UnlinkFile(r)
    PROVE  Inv'
<1> DEFINE p == req[r].path
<1>0. /\ req \in [Req -> Request] /\ req[r] \in Request /\ Local(req[r])
      /\ KnowsFile(req[r]) /\ req[r].pc = "unlink" /\ req[r].op = "delete"
      /\ req[r].by \in Users /\ req[r].file \in Files
      /\ \A f \in Files : Exists(files, f) => files[f].path # p
  BY RequestKnows DEF UnlinkFile, At, Local, KnowsFile
<1>1. PICK q \in Request :
          /\ q.pc = "audit" /\ q.op = "delete" /\ q.by = req[r].by /\ q.file = req[r].file
          /\ q.shown = req[r].shown /\ Becomes(r, q) /\ PathsApart(r, q)
  BY <1>0, ParkIs DEF CallPC, UnlinkFile
<1>2. /\ UNCHANGED <<config, talk, files, chunks, log, restarts, stripped>>
      /\ disk' = disk \ {p} \/ UNCHANGED disk
  BY DEF UnlinkFile
<1>3. Local(q) /\ KnowsTalk(q)
  BY <1>0, <1>1, FileRequestKnows DEF Local
<1>4. KnowsFile(q)'
  BY <1>1 DEF KnowsFile
<1>5. TablesOK'
  <2>1. RecordsHaveTheirFile'
    BY <1>0, <1>2 DEF Inv, TablesOK, RecordsHaveTheirFile, Exists
  <2> QED
    BY <1>2, <2>1 DEF Inv, TablesOK, ProcessedIsIndexed, config, Exists
<1>6. (\A v \in Req \ {r} : FilesKept(req[v])) /\ ChunksKept
  BY <1>2, FilesQuiet DEF ChunksKept
<1>7. \A v \in Req \ {r} : req[v].pc = "row" /\ req[v].path \in disk => req[v].path \in disk'
  BY <1>2 DEF Inv, PathsAreOwn
<1>8. /\ disk' \subseteq Paths /\ chunks' \subseteq Orgs \X Files /\ stripped' \subseteq Files
      /\ files' \in [Files -> FileRow \cup {None, Deleted}]
  BY <1>2 DEF Inv, TypeOK
<1> QED
  BY <1>1, <1>2, <1>3, <1>4, <1>5, <1>6, <1>7, <1>8, FileStepKeeps

-----------------------------------------------------------------------------
(* Reads, events and the process.                                           *)

\* The owner is asked for before the messages are.
LEMMA CheckReaderKeeps ==
    ASSUME Inv, NEW r \in Req, CheckReader(r)
    PROVE  Inv'
<1> DEFINE c == req[r].conversation
<1>0. /\ Local(req[r]) /\ req[r].pc = "owner" /\ req[r].by \in Users /\ KnowsTalk(req[r])
      /\ req[r].op = "messages" => c \in Conversations
  BY RequestKnows DEF CheckReader, At, Local
<1>1. CASE Answer(r)
  BY <1>1, AnswerKeeps DEF CheckReader
<1>2. CASE (c = None \/ Owned(c, req[r].by)) /\ Park(r, "list")
  <2>1. req[r].op = "messages" =>
          c \in Conversations /\ conversations[c] # None /\ conversations[c].owner = req[r].by
    BY <1>0, <1>2, RowsExist DEF Owned, Exists
  <2>2. ASSUME NEW q \in Request, q.pc = "list", q.by = req[r].by, q.op = req[r].op,
               q.conversation = c, q.file = req[r].file, q.shown = req[r].shown
        PROVE  Local(q) /\ KnowsTalk(q) /\ KnowsFile(q)
    <3>1. Local(q) /\ KnowsFile(q)
      BY <1>0, <2>2 DEF Local, KnowsFile
    <3>2. KnowsTalk(q)
      BY <1>0, <2>1, <2>2 DEF KnowsTalk, Inside, ChatPC
    <3> QED
      BY <3>1, <3>2
  <2> QED
    BY <1>2, <2>2, ParkKeeps DEF CheckReader, CallPC
<1> QED
  BY <1>1, <1>2 DEF CheckReader

\* What was read goes out as the caller's own.
LEMMA ShowKeeps ==
    ASSUME Inv, NEW r \in Req, NEW op, NEW whose \in SUBSET (Orgs \cup Users),
           Show(r, op, whose), \A s \in whose : s = req[r].by \/ s = OrgOf[req[r].by]
    PROVE  Inv'
<1>0. Local(req[r]) /\ req[r].pc = "list" /\ req[r].by \in Users
  BY RequestKnows DEF Show, At, Local
<1>1. "answer" \in CallPC \ {"row"} /\ Reads(r, "answer", whose)
  BY DEF Show, CallPC, Reads
<1>2. PICK q \in Request :
          /\ q.pc = "answer" /\ q.op = req[r].op /\ q.by = req[r].by
          /\ q.conversation = req[r].conversation
          /\ q.file = req[r].file /\ q.shown = whose
          /\ Becomes(r, q) /\ PathsApart(r, q)
  BY <1>1, ReadIs
<1>3. Local(q) /\ KnowsFile(q)
  BY <1>0, <1>2 DEF Local, KnowsFile
<1>4. KnowsTalk(q)
  BY <1>2 DEF KnowsTalk, Inside, ChatPC
<1> QED
  BY <1>2, <1>3, <1>4, ReadStepKeeps DEF Show

\* The lists and the record hold what is the caller's or its organization's.
LEMMA ReadsKeep ==
    ASSUME Inv, NEW r \in Req,
           \/ ReadConversations(r) \/ ReadMessages(r) \/ ReadFiles(r) \/ ReadFile(r)
           \/ ReadAuditLogs(r)
    PROVE  Inv'
<1>0. /\ Local(req[r]) /\ req[r].pc = "list" /\ req[r].by \in Users
      /\ OrgOf[req[r].by] \in Orgs
  BY RequestKnows, StoreAssumption
     DEF ReadConversations, ReadMessages, ReadFiles, ReadFile, ReadAuditLogs, Show, At, Local
<1>a. data \in {"memory", "oracle", "supabase"}
  BY WorkspaceAssumption DEF Inv, TypeOK
<1>1. CASE ReadConversations(r)
  <2> DEFINE whose == {conversations[c].owner : c \in ListConversations(req[r].by)}
  <2>1. \A c \in ListConversations(req[r].by) : conversations[c].owner = req[r].by
    BY <1>a DEF ListConversations, MemoryConversations, OracleFetchConversations,
                SupabaseConversations, Owned
  <2>2. \A s \in whose : s = req[r].by
    BY <2>1
  <2>3. Show(r, "conversations", whose)
    BY <1>1 DEF ReadConversations
  <2> HIDE DEF whose
  <2> QED
    BY <1>0, <2>2, <2>3, ShowKeeps
<1>2. CASE ReadMessages(r)
  <2> DEFINE whose == WhoseMessages(req[r].conversation, OrgOfCaller(r))
  <2>1. Show(r, "messages", whose) /\ Inside(req[r])
    BY <1>0, <1>2 DEF ReadMessages, Show, Inside
  <2>2. whose \subseteq {req[r].by}
    BY <2>1, MessagesAreOwners
  <2> HIDE DEF whose
  <2> QED
    BY <1>0, <2>1, <2>2, ShowKeeps
<1>3. CASE ReadFiles(r)
  <2> DEFINE list  == ListFiles(OrgOfCaller(r), req[r].conversation)
             whose == {files[f].org : f \in list}
  <2>1. \A f \in list : files[f].org = OrgOf[req[r].by]
    BY <1>a DEF ListFiles, MemoryFiles, OracleFetchFiles, SupabaseFiles, GetFile, OrgOfCaller
  <2>2. \A s \in whose : s = OrgOf[req[r].by]
    BY <2>1
  <2>3. Show(r, "files", whose)
    BY <1>3 DEF ReadFiles
  <2> HIDE DEF whose
  <2> QED
    BY <1>0, <2>2, <2>3, ShowKeeps
<1>4. CASE ReadFile(r)
  <2> DEFINE whose == IF GetFile(req[r].file, OrgOfCaller(r)) THEN {files[req[r].file].org}
                                                             ELSE {}
  <2>1. \A s \in whose : s = OrgOf[req[r].by]
    BY DEF GetFile, OrgOfCaller
  <2>2. Show(r, "file", whose)
    BY <1>4 DEF ReadFile
  <2> HIDE DEF whose
  <2> QED
    BY <1>0, <2>1, <2>2, ShowKeeps
<1>5. CASE ReadAuditLogs(r)
  <2> DEFINE list  == ListEvents(OrgOfCaller(r))
             whose == IF req[r].by \in Admins THEN {e.org : e \in list} ELSE {}
  <2>1. \A e \in list : e.org = OrgOf[req[r].by]
    BY <1>a DEF ListEvents, MemoryEvents, OracleFetchEvents, SupabaseEvents, OrgOfCaller
  <2>2. \A s \in whose : s = OrgOf[req[r].by]
    BY <2>1
  <2>3. Show(r, "events", whose)
    BY <1>5 DEF ReadAuditLogs
  <2> HIDE DEF whose
  <2> QED
    BY <1>0, <2>2, <2>3, ShowKeeps
<1> QED
  BY <1>1, <1>2, <1>3, <1>4, <1>5

\* An event names what the request did.
LEMMA RecordEventKeeps ==
    ASSUME Inv, NEW r \in Req, RecordEvent(r)
    PROVE  Inv'
<1>0. Local(req[r]) /\ req[r].pc = "audit" /\ req[r].by \in Users
  BY RequestKnows DEF RecordEvent, At, Local
<1>1. Told(req[r]) \in {"conversation_deleted"} \X Conversations
                       \cup {"file_uploaded", "file_deleted"} \X Files
  BY <1>0 DEF Told, Local
<1>2. [org |-> OrgOf[req[r].by], by |-> req[r].by, of |-> Told(req[r])] \in Event
  BY <1>0, <1>1, StoreAssumption DEF Event
<1>3. log' \subseteq Event
  BY <1>2 DEF RecordEvent, AppendEvent, MemoryAppend, OracleInsertEvent, SupabaseAppend,
              Inv, TypeOK
<1>4. PICK q \in Request : /\ Becomes(r, q) /\ PathsApart(r, q) /\ Local(q)
                           /\ KnowsFile(q) /\ KnowsTalk(q)'
  BY AnswerIs DEF RecordEvent
<1>5. UNCHANGED <<config, conversations, messages, files, disk, chunks, restarts, stripped>>
  BY DEF RecordEvent, talk
<1>6. /\ conversations' \in [Conversations -> ConversationRow \cup {None, Deleted}]
      /\ messages' \in [Conversations -> Seq(Message)]
  BY <1>5 DEF Inv, TypeOK
<1>7. TalkKept
  BY <1>5, TalkQuiet
<1> QED
  BY <1>3, <1>4, <1>5, <1>6, <1>7, TalkStep

\* A restart forgets every request, and what was in the memory of the process.
LEMMA RestartKeeps ==
    ASSUME Inv, Restart
    PROVE  Inv'
<1>1. req' = [r \in Req |-> Blank]
  BY DEF Restart
<1>2. UNCHANGED <<config, disk>> /\ restarts' = restarts + 1 /\ restarts' \in 0 .. MaxRestarts
  BY WorkspaceAssumption DEF Restart, Inv, TypeOK
<1>3. CASE data = "memory"
  <2>1. /\ conversations' = [c \in Conversations |-> None]
        /\ messages' = [c \in Conversations |-> <<>>]
        /\ files' = [f \in Files |-> None]
        /\ log' = {} /\ stripped' = {}
        /\ chunks' = {} \/ (chunks' = chunks /\ retrieval # "memory")
    BY <1>3 DEF Restart
  <2>2. retrieval \in {"memory", "oracle"}
    BY WorkspaceAssumption DEF Inv, TypeOK
  <2>3. chunks' = {}
    BY <1>3, <2>1, <2>2 DEF Inv, TablesOK
  <2>4. <<>> \in Seq(Message)
    OBVIOUS
  <2>5. TypeOK'
    BY <1>1, <1>2, <2>1, <2>3, <2>4, BlankKnows DEF Inv, TypeOK, config
  <2>6. \A f \in Files : ~Exists(files, f)' /\ files'[f] # Deleted
    BY <2>1, RowsExist DEF Exists
  <2>7. TablesOK'
    BY <2>3, <2>6 DEF TablesOK, RecordsHaveTheirFile, ProcessedIsIndexed
  <2>8. RequestsKnow' /\ PathsAreOwn'
    <3>1. \A r \in Req : req'[r] = Blank
      BY <1>1
    <3>2. PathsAreOwn'
      BY <3>1, BlankKnows DEF PathsAreOwn
    <3>3. ASSUME NEW r \in Req
          PROVE  Local(req[r])' /\ KnowsTalk(req[r])' /\ KnowsFile(req[r])'
      BY <3>1, BlankKnows DEF Local, KnowsTalk, KnowsFile
    <3> QED
      BY <3>2, <3>3 DEF RequestsKnow
  <2> QED
    BY <2>5, <2>7, <2>8 DEF Inv
<1>4. CASE data # "memory"
  <2>1. /\ UNCHANGED <<conversations, files, log, stripped>>
        /\ messages' \in [Conversations -> Seq(Message)]
    <3>1. \A c \in Conversations : Settle(messages[c], Req, "undone") \in Seq(Message)
      BY SettleIs DEF Inv, TypeOK
    <3> QED
      BY <1>4, <3>1 DEF Restart
  <2>2. chunks' = IF retrieval = "memory" THEN {} ELSE chunks
    BY DEF Restart
  <2>3. TypeOK'
    BY <1>1, <1>2, <2>1, <2>2, BlankKnows DEF Inv, TypeOK, config
  <2>4. ProcessedIsIndexed'
    BY <1>2, <2>1, <2>2 DEF Inv, TablesOK, ProcessedIsIndexed, TypeOK, config, Exists
  <2>5. TablesOK'
    BY <1>2, <2>1, <2>2, <2>4 DEF Inv, TablesOK, RecordsHaveTheirFile, config, Exists
  <2>6. RequestsKnow' /\ PathsAreOwn'
    <3>1. \A r \in Req : req'[r] = Blank
      BY <1>1
    <3>2. PathsAreOwn'
      BY <3>1, BlankKnows DEF PathsAreOwn
    <3>3. ASSUME NEW r \in Req
          PROVE  Local(req[r])' /\ KnowsTalk(req[r])' /\ KnowsFile(req[r])'
      BY <3>1, BlankKnows DEF Local, KnowsTalk, KnowsFile
    <3> QED
      BY <3>2, <3>3 DEF RequestsKnow
  <2> QED
    BY <2>3, <2>5, <2>6 DEF Inv
<1> QED
  BY <1>3, <1>4

\* Nothing is there at the beginning.
LEMMA InitInv == Init => Inv
<1> SUFFICES ASSUME Init PROVE Inv
  OBVIOUS
<1>1. TypeOK
  <2>1. \A d \in Deployments : <<d[1], d[2], d[3]>> = d
    BY WorkspaceAssumption
  <2>2. <<data, retrieval, routes>> \in Deployments
    BY <2>1 DEF Init
  <2>3. <<>> \in Seq(Message)
    OBVIOUS
  <2> QED
    BY <2>2, <2>3, BlankKnows, WorkspaceAssumption DEF Init, TypeOK
<1>2. \A f \in Files : ~Exists(files, f) /\ files[f] # Deleted
  BY RowsExist DEF Init, Exists
<1>3. TablesOK
  BY <1>2 DEF Init, TablesOK, RecordsHaveTheirFile, ProcessedIsIndexed
<1>4. RequestsKnow /\ PathsAreOwn
  BY BlankKnows DEF Init, RequestsKnow, PathsAreOwn
<1> QED
  BY <1>1, <1>3, <1>4 DEF Inv

\* A step of r.
Act(r) == \/ \E u \in Users : Begin(r, u)
          \/ ConversationStep(r) \/ FileStep(r) \/ ReadStep(r)
          \/ RecordEvent(r) \/ CallFails(r)

\* Every step of a request keeps the invariant.
LEMMA ActKeeps ==
    ASSUME Inv, NEW r \in Req, Act(r)
    PROVE  Inv'
<1>1. CASE \E u \in Users : Begin(r, u)
  BY <1>1, BeginKeeps
<1>2. CASE ConversationStep(r)
  BY <1>2, AddConversationKeeps, EditConversationKeeps, RemoveConversationKeeps,
     EnsureConversationKeeps, ReadContextKeeps, RetrieveContextKeeps, SendMessageKeeps,
     RecordExchangeKeeps, OracleStepsKeep, SupabaseAddMessagesKeeps, SupabaseTouchKeeps
     DEF ConversationStep
<1>3. CASE FileStep(r)
  BY <1>3, CheckConversationKeeps, WriteBytesKeeps, RecordFileKeeps, IndexForSearchKeeps,
     MarkFileKeeps, LookUpFileKeeps, DropChunksKeeps, ForgetFileKeeps, UnlinkFileKeeps
     DEF FileStep
<1>4. CASE ReadStep(r)
  <2>1. CASE Shown(r)
    BY <2>1, AnswerKeeps DEF Shown
  <2> QED
    BY <1>4, <2>1, CheckReaderKeeps, ReadsKeep DEF ReadStep
<1>5. CASE RecordEvent(r)
  BY <1>5, RecordEventKeeps
<1>6. CASE CallFails(r)
  BY <1>6, CallFailsKeeps
<1> QED
  BY <1>1, <1>2, <1>3, <1>4, <1>5, <1>6 DEF Act

\* Nothing changes, and nothing is unlearnt.
LEMMA StutterKeeps ==
    ASSUME Inv, UNCHANGED vars
    PROVE  Inv'
<1> USE DEF vars, config, stores, talk
<1>1. TypeOK'
  BY DEF Inv, TypeOK
<1>2. TablesOK'
  BY DEF Inv, TablesOK, RecordsHaveTheirFile, ProcessedIsIndexed, Exists
<1>3. RequestsKnow'
  BY DEF Inv, RequestsKnow, Local, KnowsTalk, KnowsFile, Exists
<1>4. PathsAreOwn'
  BY DEF Inv, PathsAreOwn
<1> QED
  BY <1>1, <1>2, <1>3, <1>4 DEF Inv

\* Every step keeps it.
LEMMA NextInv == Inv /\ [Next]_vars => Inv'
BY ActKeeps, RestartKeeps, StutterKeeps DEF Next, Act

\* What requests know of each other's writes, in every interleaving of the threads,
\* with calls that fail and a process that is restarted.
THEOREM InvHolds == Spec => []Inv
BY InitInv, NextInv, PTL DEF Spec

\* Every variable of the workspace keeps its type: no event names what was not done.
THEOREM WorkspaceTyped == Spec => []TypeOK
<1>1. Inv => TypeOK
  BY DEF Inv
<1> QED
  BY <1>1, InvHolds, PTL

\* A record leads to its file, and what it calls processed is found.
THEOREM RecordsAreTrueHolds == Spec => []RecordsAreTrue
<1>1. Inv => RecordsAreTrue
  BY DEF Inv, TablesOK, RecordsAreTrue
<1> QED
  BY <1>1, InvHolds, PTL

-----------------------------------------------------------------------------
(* Conversations are their owner's.                                         *)

\* A step of a request is seen in it.
LEMMA StepIsSeen ==
    ASSUME Inv, NEW r \in Req, req[r].pc # "idle",
           \/ Answer(r)
           \/ \E pc \in CallPC : pc # req[r].pc /\ Park(r, pc)
    PROVE  req'[r] # req[r]
<1>0. req \in [Req -> Request] /\ req[r] \in Request
  BY RequestKnows
<1>1. CASE Answer(r)
  <2>1. req'[r] = Blank
    BY <1>0, <1>1 DEF Answer
  <2> QED
    BY <2>1, BlankKnows
<1>2. CASE \E pc \in CallPC : pc # req[r].pc /\ Park(r, pc)
  <2>1. PICK pc \in CallPC : pc # req[r].pc /\ req' = [req EXCEPT ![r].pc = pc]
    BY <1>2 DEF Park
  <2>2. req'[r].pc = pc
    BY <1>0, <2>1 DEF Request
  <2> QED
    BY <2>1, <2>2
<1> QED
  BY <1>1, <1>2

\* A step that touches one conversation, which is its caller's if it is there.
LEMMA OneIsTouched ==
    ASSUME NEW r \in Req, NEW d \in Conversations,
           \A c \in Conversations \ {d} :
              conversations'[c] = conversations[c] /\ messages'[c] = messages[c],
           Exists(conversations, d) =>
              req[r].by = conversations[d].owner /\ req'[r] # req[r]
    PROVE  \A c \in Conversations : OwnerActs(c)
BY DEF OwnerActs

\* One that touches none.
LEMMA NoneIsTouched ==
    ASSUME UNCHANGED <<conversations, messages>>
    PROVE  \A c \in Conversations : OwnerActs(c)
BY DEF OwnerActs

\* A conversation that is made is nobody's before.
LEMMA CreationTouchesNone ==
    ASSUME Inv, NEW r \in Req, NEW d \in Conversations, NEW u \in Users, NEW t \in Titles,
           CreateConversation(d, u, t)
    PROVE  \A c \in Conversations : OwnerActs(c)
<1>1. /\ conversations[d] = None
      /\ conversations' = [conversations EXCEPT ![d] = [owner |-> u, title |-> t]]
      /\ messages' = [messages EXCEPT ![d] = <<>>] \/ messages' = messages
  BY CreationKeepsTalk
<1>2. /\ DOMAIN conversations = Conversations /\ DOMAIN messages = Conversations
      /\ ~Exists(conversations, d)
  BY <1>1 DEF Inv, TypeOK, Exists
<1>3. \A c \in Conversations \ {d} :
         conversations'[c] = conversations[c] /\ messages'[c] = messages[c]
  BY <1>1, <1>2
<1> QED
  BY <1>2, <1>3, OneIsTouched

\* Who renames or deletes it is asked in the write.
LEMMA OwnerEdits ==
    ASSUME Inv, NEW r \in Req, EditConversation(r) \/ RemoveConversation(r)
    PROVE  \A c \in Conversations : OwnerActs(c)
<1> DEFINE d == req[r].conversation
<1>0. /\ Local(req[r]) /\ req[r].pc \in {"rename", "remove"} /\ d \in Conversations
      /\ DOMAIN conversations = Conversations /\ DOMAIN messages = Conversations
  BY RequestKnows DEF EditConversation, RemoveConversation, At, Local, Inv, TypeOK
<1>1. req'[r] # req[r]
  <2>1. Answer(r) \/ Park(r, "audit")
    BY DEF EditConversation, RemoveConversation
  <2> QED
    BY <1>0, <2>1, StepIsSeen DEF CallPC
<1>2. \/ UNCHANGED <<conversations, messages>>
      \/ /\ Exists(conversations, d) /\ conversations[d].owner = req[r].by
         /\ \/ /\ conversations' = [conversations EXCEPT ![d].title = req[r].title]
               /\ messages' = messages
            \/ Forget(d)
  <2>1. CASE EditConversation(r)
    BY <2>1 DEF EditConversation, RenameConversation, MemoryRenameConversation,
                OracleUpdateTitle, SupabaseRenameConversation, Owned
  <2>2. CASE RemoveConversation(r)
    BY <2>2 DEF RemoveConversation, DeleteConversation, MemoryDeleteConversation,
                OracleDeleteConversation, SupabaseDeleteConversation, Owned, talk
  <2> QED
    BY <2>1, <2>2
<1>3. CASE UNCHANGED <<conversations, messages>>
  BY <1>3, NoneIsTouched
<1>4. CASE /\ Exists(conversations, d) /\ conversations[d].owner = req[r].by
           /\ \/ /\ conversations' = [conversations EXCEPT ![d].title = req[r].title]
                 /\ messages' = messages
              \/ Forget(d)
  <2>1. \A c \in Conversations \ {d} :
            conversations'[c] = conversations[c] /\ messages'[c] = messages[c]
    BY <1>0, <1>4 DEF Forget
  <2> QED
    BY <1>0, <1>1, <1>4, <2>1, OneIsTouched
<1> QED
  BY <1>2, <1>3, <1>4

\* A call that fails in a transaction, and elsewhere.
RollsBack(r)    == req[r].pc \in {"insert", "commit"} /\ CallFails(r)
FailsOutside(r) == req[r].pc \notin {"insert", "commit"} /\ CallFails(r)

\* A call of a chat that may write, or a transaction that is undone.
Writes(r) ==
    \/ RecordExchange(r) \/ OracleInsertReply(r) \/ OracleCommit(r)
    \/ SupabaseAddMessages(r)
    \/ RollsBack(r)

\* Who extends it was asked when the chat began, and it did not change hands since.
LEMMA OwnerExtends ==
    ASSUME Inv, NEW r \in Req, Writes(r)
    PROVE  \A c \in Conversations : OwnerActs(c)
<1> DEFINE d == req[r].conversation
<1>0. /\ KnowsTalk(req[r])
      /\ req[r].pc \in {"record", "insert", "commit", "question", "reply"}
      /\ d \in Conversations
      /\ Exists(conversations, d) => conversations[d].owner = req[r].by
      /\ DOMAIN conversations = Conversations /\ DOMAIN messages = Conversations
  BY RequestKnows
     DEF Writes, RollsBack, RecordExchange, OracleInsertReply, OracleCommit, SupabaseAddMessages,
         At, KnowsTalk, Inside, ChatPC, Inv, TypeOK
<1>1. req'[r] # req[r]
  <2>1. CASE RecordExchange(r)
    <3>1. req[r].pc = "record" /\ (Answer(r) \/ Park(r, "question") \/ Park(r, "insert"))
      BY <2>1 DEF RecordExchange, At
    <3> QED
      BY <3>1, StepIsSeen DEF CallPC
  <2>2. CASE SupabaseAddMessages(r)
    <3>1. \/ Answer(r)
          \/ req[r].pc = "question" /\ Park(r, "reply")
          \/ req[r].pc = "reply" /\ Park(r, "touch")
      BY <2>2 DEF SupabaseAddMessages, At
    <3> QED
      BY <1>0, <3>1, StepIsSeen DEF CallPC
  <2>3. CASE OracleInsertReply(r)
    <3>1. req[r].pc = "insert" /\ Park(r, "commit")
      BY <2>3 DEF OracleInsertReply, At
    <3> QED
      BY <3>1, StepIsSeen DEF CallPC
  <2>4. CASE OracleCommit(r) \/ CallFails(r)
    <3>1. Answer(r)
      BY <2>4 DEF OracleCommit, CallFails
    <3> QED
      BY <1>0, <3>1, StepIsSeen
  <2> QED
    BY <2>1, <2>2, <2>3, <2>4 DEF Writes, RollsBack
<1>2. /\ UNCHANGED conversations
      /\ \/ UNCHANGED messages
         \/ \E ms : messages' = [messages EXCEPT ![d] = ms]
  BY DEF Writes, RecordExchange, MemoryAddMessages, OracleInsertMessage, Say,
         OracleInsertReply, OracleCommit, OracleEnd, CallFails,
         RollsBack, SupabaseAddMessages, SupabaseInsertMessage
<1>3. \A c \in Conversations \ {d} :
          conversations'[c] = conversations[c] /\ messages'[c] = messages[c]
  BY <1>0, <1>2
<1> QED
  BY <1>0, <1>1, <1>3, OneIsTouched

\* The steps that leave conversations and messages alone.
LEMMA OtherStepsTouchNone ==
    ASSUME NEW r \in Req,
           \/ \E u \in Users : Begin(r, u)
           \/ ReadContext(r) \/ RetrieveContext(r) \/ SendMessage(r) \/ SupabaseTouch(r)
           \/ FileStep(r) \/ ReadStep(r) \/ RecordEvent(r)
           \/ FailsOutside(r)
    PROVE  UNCHANGED <<conversations, messages>>
<1> USE DEF stores, talk
<1>1. CASE \/ \E u \in Users : Begin(r, u)
           \/ ReadContext(r) \/ RetrieveContext(r) \/ SendMessage(r) \/ SupabaseTouch(r)
           \/ RecordEvent(r) \/ FailsOutside(r)
  BY <1>1 DEF Begin, ReadContext, RetrieveContext, SendMessage, SupabaseTouch, RecordEvent,
              CallFails, FailsOutside
<1>2. CASE FileStep(r)
  BY <1>2 DEF FileStep, CheckConversation, WriteBytes, RecordFile, IndexForSearch, MarkFile,
              LookUpFile, DropChunks, ForgetFile, UnlinkFile
<1>3. CASE ReadStep(r)
  BY <1>3 DEF ReadStep, CheckReader, ReadConversations, ReadMessages, ReadFiles, ReadFile,
              ReadAuditLogs, Show, Shown
<1> QED
  BY <1>1, <1>2, <1>3

\* Every step is the owner's, or one of a process that starts again.
LEMMA OwnersAct == Inv /\ [Next]_vars => \A c \in Conversations : OwnerActs(c)
<1> SUFFICES ASSUME Inv, [Next]_vars PROVE \A c \in Conversations : OwnerActs(c)
  OBVIOUS
<1>1. ASSUME NEW r \in Req, Act(r) PROVE \A c \in Conversations : OwnerActs(c)
  <2>1. CASE AddConversation(r)
    <3>1. req[r].by \in Users /\ req[r].title \in Titles
      BY <2>1, RequestKnows DEF Local, AddConversation, At
    <3> QED
      BY <2>1, <3>1, CreationTouchesNone DEF AddConversation
  <2>2. CASE EnsureConversation(r)
    <3>1. req[r].by \in Users /\ Derived \in Titles
      BY <2>2, RequestKnows, WorkspaceAssumption DEF Local, EnsureConversation, At
    <3>2. \/ UNCHANGED <<conversations, messages>>
          \/ \E d \in Conversations : CreateConversation(d, req[r].by, Derived)
      BY <2>2 DEF EnsureConversation, talk
    <3> QED
      BY <3>1, <3>2, NoneIsTouched, CreationTouchesNone
  <2>3. CASE EditConversation(r) \/ RemoveConversation(r)
    BY <2>3, OwnerEdits
  <2>4. CASE Writes(r)
    BY <2>4, OwnerExtends
  <2>5. CASE \/ \E u \in Users : Begin(r, u)
             \/ ReadContext(r) \/ RetrieveContext(r) \/ SendMessage(r) \/ SupabaseTouch(r)
             \/ FileStep(r) \/ ReadStep(r) \/ RecordEvent(r)
             \/ FailsOutside(r)
    BY <2>5, OtherStepsTouchNone, NoneIsTouched
  <2> QED
    BY <1>1, <2>1, <2>2, <2>3, <2>4, <2>5
       DEF Act, ConversationStep, Writes, RollsBack, FailsOutside
<1>2. CASE Restart
  <2>1. restarts \in Nat /\ restarts' = restarts + 1
    BY <1>2, WorkspaceAssumption DEF Restart, Inv, TypeOK
  <2> QED
    BY <2>1 DEF OwnerActs
<1>3. CASE UNCHANGED vars
  BY <1>3, NoneIsTouched DEF vars, stores, talk
<1> QED
  BY <1>1, <1>2, <1>3 DEF Next, Act

\* A conversation is its owner's alone, and what a request has read is the caller's
\* or its organization's, whichever requests run between its calls.
THEOREM ConversationIsPrivateHolds == Spec => ConversationIsPrivate
<1>1. Inv => OwnerInside /\ ShownIsOurs
  <2> SUFFICES ASSUME Inv PROVE OwnerInside /\ ShownIsOurs
    OBVIOUS
  <2>1. OwnerInside
    BY RequestKnows DEF OwnerInside, KnowsTalk, Inside, ChatPC
  <2>2. ShownIsOurs
    BY RequestKnows DEF ShownIsOurs, KnowsTalk, OrgOfCaller
  <2> QED
    BY <2>1, <2>2
<1>2. Inv /\ [Next]_vars => [\A c \in Conversations : OwnerActs(c)]_vars
  BY OwnersAct
<1> QED
  BY <1>1, <1>2, InvHolds, PTL DEF Spec, ConversationIsPrivate

-----------------------------------------------------------------------------
(* Chunks that outlive their file.                                          *)

\* What a step adds to them.
LateChunks == \A k \in Outliving' \ Outliving : retrieval = "memory" /\ k[2] \in stripped

\* None, where no chunk is saved and no record goes.
LEMMA RecordsStay ==
    ASSUME Inv, chunks' \subseteq chunks,
           \A f \in Files : Exists(files, f) => Exists(files, f)'
    PROVE  LateChunks
<1>1. chunks \subseteq Orgs \X Files
  BY DEF Inv, TypeOK
<1>2. ASSUME NEW k \in chunks', ~Exists(files, k[2])' PROVE k \in chunks /\ ~Exists(files, k[2])
  <2>1. k[2] \in Files
    BY <1>1, <1>2
  <2> QED
    BY <1>2, <2>1
<1> QED
  BY <1>2 DEF LateChunks, Outliving

\* An upload saves the chunks of a record that is there, or of one whose deletion
\* has taken what was there.
LEMMA IndexSavesLate ==
    ASSUME Inv, NEW r \in Req, IndexForSearch(r)
    PROVE  LateChunks
<1>1. PICK f \in Files : f = req[r].file /\ files[f] # None
  BY RequestKnows DEF IndexForSearch, At, Local, KnowsFile
<1>2. PICK o : o = OrgOfCaller(r)
  OBVIOUS
<1>3. UNCHANGED files
  BY DEF IndexForSearch
<1>4. CASE UNCHANGED chunks
  BY <1>3, <1>4, RecordsStay DEF Exists
<1>5. CASE SaveChunks(f, o)
  <2>1. /\ chunks' = chunks \cup {<<o, f>>}
        /\ retrieval = "memory" \/ Exists(files, f)
    BY <1>5 DEF SaveChunks, MemorySave, OracleSaveChunks
  <2>2. ~Exists(files, f) => f \in stripped
    <3>1. files[f] = Deleted /\ retrieval = "memory" => f \in stripped
      BY DEF Inv, TablesOK
    <3>2. ~Exists(files, f) => files[f] = Deleted
      BY <1>1, RowsExist DEF Exists
    <3> QED
      BY <2>1, <3>1, <3>2
  <2>3. ASSUME NEW k \in Outliving' \ Outliving PROVE k = <<o, f>> /\ ~Exists(files, f)
    <3>1. k \in chunks' /\ ~Exists(files, k[2])
      BY <1>3, <2>3 DEF Outliving, Exists
    <3>2. k \notin chunks
      BY <2>3, <3>1 DEF Outliving
    <3>3. k = <<o, f>>
      BY <2>1, <3>1, <3>2
    <3> QED
      BY <3>1, <3>3
  <2> QED
    BY <2>1, <2>2, <2>3 DEF LateChunks
<1> QED
  BY <1>1, <1>2, <1>4, <1>5 DEF IndexForSearch

\* A deletion has taken the chunks, or the foreign key takes them.
LEMMA ForgetLeavesNone ==
    ASSUME Inv, NEW r \in Req, ForgetFile(r)
    PROVE  LateChunks
<1>1. PICK f \in Files : /\ f = req[r].file
                         /\ retrieval = "memory" => f \in stripped
  BY RequestKnows DEF ForgetFile, At, Local, KnowsFile
<1>0. /\ files \in [Files -> FileRow \cup {None, Deleted}] /\ chunks \subseteq Orgs \X Files
      /\ data \in {"memory", "oracle", "supabase"} /\ retrieval \in {"memory", "oracle"}
  BY WorkspaceAssumption DEF Inv, TypeOK
<1>2. CASE UNCHANGED <<files, chunks>>
  BY <1>2, RecordsStay DEF Exists
<1>3. CASE DeleteFile(f)
  <2>1. /\ files' = [files EXCEPT ![f] = Deleted] /\ chunks' \subseteq chunks
        /\ data = "oracle" /\ retrieval = "oracle" => \A k \in chunks' : k[2] # f
    BY <1>3 DEF DeleteFile, MemoryDeleteFile, OracleDeleteFile, SupabaseDeleteFile
  <2>2. \A g \in Files \ {f} : Exists(files, g) => Exists(files, g)'
    BY <1>0, <2>1 DEF Exists
  <2>3. ASSUME NEW k \in Outliving' \ Outliving PROVE k \in chunks' /\ k \in chunks /\ k[2] = f
    <3>1. k \in chunks' /\ k \in chunks /\ ~Exists(files, k[2])' /\ Exists(files, k[2])
      BY <2>1, <2>3 DEF Outliving
    <3>2. k[2] \in Files
      BY <1>0, <3>1
    <3> QED
      BY <2>2, <3>1, <3>2
  <2>4. retrieval = "oracle" /\ data # "oracle" => chunks = {}
    BY DEF Inv, TablesOK
  <2> QED
    BY <1>0, <1>1, <2>1, <2>3, <2>4 DEF LateChunks
<1> QED
  BY <1>1, <1>2, <1>3 DEF ForgetFile

\* A process that starts again has no chunks of the files it has forgotten.
LEMMA RestartLeavesNone ==
    ASSUME Inv, Restart
    PROVE  LateChunks
<1>0. retrieval \in {"memory", "oracle"}
  BY WorkspaceAssumption DEF Inv, TypeOK
<1>1. chunks' = IF retrieval = "memory" THEN {} ELSE chunks
  BY DEF Restart
<1>2. CASE data = "memory"
  <2>1. chunks' = {}
    BY <1>0, <1>1, <1>2 DEF Inv, TablesOK
  <2> QED
    BY <2>1 DEF LateChunks, Outliving
<1>3. CASE data # "memory"
  <2>1. UNCHANGED files /\ chunks' \subseteq chunks
    BY <1>1, <1>3 DEF Restart
  <2> QED
    BY <2>1, RecordsStay DEF Exists
<1> QED
  BY <1>2, <1>3

\* The steps that save no chunks and keep every record.
LEMMA OtherStepsKeepRecords ==
    ASSUME Inv, NEW r \in Req,
           \/ \E u \in Users : Begin(r, u)
           \/ ConversationStep(r) \/ ReadStep(r) \/ RecordEvent(r) \/ CallFails(r)
           \/ CheckConversation(r) \/ WriteBytes(r) \/ RecordFile(r) \/ MarkFile(r)
           \/ LookUpFile(r) \/ DropChunks(r) \/ UnlinkFile(r)
    PROVE  LateChunks
<1>1. CASE \/ \E u \in Users : Begin(r, u)
           \/ AddConversation(r) \/ EditConversation(r)
           \/ EnsureConversation(r) \/ ReadContext(r) \/ RetrieveContext(r) \/ SendMessage(r)
           \/ RecordExchange(r) \/ OracleInsertReply(r) \/ OracleCommit(r)
           \/ SupabaseAddMessages(r) \/ SupabaseTouch(r)
           \/ ReadStep(r) \/ RecordEvent(r) \/ CallFails(r)
           \/ CheckConversation(r) \/ WriteBytes(r) \/ LookUpFile(r) \/ UnlinkFile(r)
  <2>1. UNCHANGED <<files, chunks>>
    BY <1>1
       DEF Begin, AddConversation, EditConversation, EnsureConversation, ReadContext,
           RetrieveContext, SendMessage, RecordExchange, OracleInsertReply, OracleCommit,
           SupabaseAddMessages, SupabaseTouch, ReadStep, CheckReader, ReadConversations,
           ReadMessages, ReadFiles, ReadFile, ReadAuditLogs, Show, Shown, RecordEvent,
           CallFails, CheckConversation, WriteBytes, LookUpFile, UnlinkFile, stores
  <2> QED
    BY <2>1, RecordsStay DEF Exists
<1>2. CASE RemoveConversation(r)
  <2>1. UNCHANGED chunks /\ (UNCHANGED files \/ files' = UnlinkFiles(req[r].conversation))
    BY <1>2 DEF RemoveConversation, DeleteConversation, MemoryDeleteConversation,
                OracleDeleteConversation, SupabaseDeleteConversation
  <2>2. SameFiles \/ UNCHANGED files
    BY <2>1, UnlinkedFiles
  <2>3. \A f \in Files : Exists(files, f) => Exists(files, f)'
    BY <2>2 DEF SameFiles, Exists
  <2> QED
    BY <2>1, <2>3, RecordsStay
<1>3. CASE RecordFile(r)
  <2>1. req[r].by \in Users /\ req[r].path \in Paths /\ UNCHANGED chunks
    BY <1>3, RequestKnows DEF RecordFile, At, Local
  <2>2. \/ UNCHANGED files
        \/ \E f \in Files : \E row : files[f] = None /\ files' = [files EXCEPT ![f] = row]
    BY <1>3 DEF RecordFile, CreateFile, MemoryCreateFile, OracleInsertFile,
                SupabaseCreateFile, IsNext
  <2>3. \A f \in Files : Exists(files, f) => Exists(files, f)'
    BY <2>2 DEF Exists, Inv, TypeOK
  <2> QED
    BY <2>1, <2>3, RecordsStay
<1>4. CASE MarkFile(r)
  <2>1. /\ UNCHANGED chunks /\ req[r].file \in Files
        /\ \/ UNCHANGED files
           \/ SetStatus(req[r].file, OrgOfCaller(r), StatusOf(req[r]))
    BY <1>4, RequestKnows DEF MarkFile, At, Local
  <2>2. StatusOf(req[r]) \in Statuses
    BY DEF StatusOf, Statuses
  <2>3. \/ UNCHANGED files
        \/ \E row \in FileRow : files' = [files EXCEPT ![req[r].file] = row]
    BY <2>1, <2>2, StatusWritten
  <2>4. \A f \in Files : Exists(files, f) => Exists(files, f)'
    BY <2>1, <2>3, RowsExist DEF Exists, Inv, TypeOK
  <2> QED
    BY <2>1, <2>4, RecordsStay
<1>5. CASE DropChunks(r)
  <2>1. UNCHANGED files /\ chunks' \subseteq chunks
    BY <1>5 DEF DropChunks, DeleteFileChunks, MemoryDeleteFileChunks, OracleDeleteChunks
  <2> QED
    BY <2>1, RecordsStay DEF Exists
<1> QED
  BY <1>1, <1>2, <1>3, <1>4, <1>5 DEF ConversationStep

\* Only what an upload saved after the deletion outlives a file, and only where no
\* foreign key binds it.
THEOREM OnlyLateChunksOutliveHolds == Spec => OnlyLateChunksOutlive
<1>1. Inv /\ [Next]_vars => [LateChunks]_vars
  <2> SUFFICES ASSUME Inv, Next PROVE LateChunks
    OBVIOUS
  <2>1. ASSUME NEW r \in Req, Act(r) PROVE LateChunks
    BY <2>1, IndexSavesLate, ForgetLeavesNone, OtherStepsKeepRecords DEF Act, FileStep
  <2> QED
    BY <2>1, RestartLeavesNone DEF Next, Act
<1>2. Spec => [][LateChunks]_vars
  BY <1>1, InvHolds, PTL DEF Spec
<1> QED
  BY <1>2 DEF LateChunks, OnlyLateChunksOutlive

-----------------------------------------------------------------------------
(* Exchanges: what a sequence of messages holds.                            *)

\* How often m is among the first n messages.
Heard(ms, m, n) == Cardinality({i \in 1 .. n : ms[i] = m})

\* A question is followed by its own answer.
Paired(ms) ==
    \A i \in 1 .. Len(ms) :
        IF i % 2 = 1
        THEN ms[i].role = "user" /\ i < Len(ms) /\ ms[i + 1] = Reply(ms[i].from)
        ELSE ms[i].role = "assistant"

\* No answer a comes before a question q.
Follows(ms, q, a) == \A n \in 1 .. Len(ms) : Heard(ms, a, n) <= Heard(ms, q, n)

\* Neither among the messages nor among the rows of transactions under way.
Answered(ms) ==
    \A r \in Req : /\ Follows(ms, Question(r), Reply(r))
                   /\ Follows(ms, Open(Question(r)), Open(Reply(r)))

\* A question of r has no answer yet.
Asked(ms, r) == Heard(ms, Reply(r), Len(ms)) < Heard(ms, Question(r), Len(ms))

\* Oracle holds as many questions of r as answers, and in a transaction under way
\* too, but for the question whose answer is the next row.
Even(ms, r, lent) ==
    /\ Heard(ms, Question(r), Len(ms)) = Heard(ms, Reply(r), Len(ms))
    /\ Heard(ms, Open(Question(r)), Len(ms)) = Heard(ms, Open(Reply(r)), Len(ms)) + lent

Lent(q, c) == IF q.pc = "insert" /\ q.conversation = c THEN 1 ELSE 0

\* How often a message was heard is a number, and none was at the beginning.
LEMMA HeardIsNat ==
    ASSUME NEW ms, NEW m, NEW n \in Nat
    PROVE  /\ Heard(ms, m, n) \in Nat /\ IsFiniteSet({i \in 1 .. n : ms[i] = m})
           /\ Heard(ms, m, 0) = 0
<1>1. ASSUME NEW k \in Nat PROVE IsFiniteSet({i \in 1 .. k : ms[i] = m})
  <2>1. IsFiniteSet(1 .. k)
    BY FS_Interval
  <2>2. {i \in 1 .. k : ms[i] = m} \in SUBSET (1 .. k)
    OBVIOUS
  <2> QED
    BY <2>1, <2>2, FS_Subset
<1>2. Heard(ms, m, n) \in Nat
  BY <1>1, FS_CardinalityType DEF Heard
<1>3. {i \in 1 .. 0 : ms[i] = m} = {}
  OBVIOUS
<1> QED
  BY <1>1, <1>2, <1>3, FS_EmptySet DEF Heard

\* One message more.
LEMMA HeardOneMore ==
    ASSUME NEW ms \in Seq(Message), NEW x \in Message, NEW m
    PROVE  /\ \A n \in 0 .. Len(ms) : Heard(ms \o <<x>>, m, n) = Heard(ms, m, n)
           /\ Heard(ms \o <<x>>, m, Len(ms) + 1) =
                 IF x = m THEN Heard(ms, m, Len(ms)) + 1 ELSE Heard(ms, m, Len(ms))
<1>0. Len(ms) \in Nat
  OBVIOUS
<1> DEFINE more == ms \o <<x>>
           S    == {i \in 1 .. Len(ms) : ms[i] = m}
<1>1. /\ \A i \in 1 .. Len(ms) : more[i] = ms[i]
      /\ more[Len(ms) + 1] = x
  OBVIOUS
<1> HIDE DEF more
<1>2. ASSUME NEW n \in 0 .. Len(ms) PROVE Heard(more, m, n) = Heard(ms, m, n)
  <2>1. {i \in 1 .. n : more[i] = m} = {i \in 1 .. n : ms[i] = m}
    BY <1>0, <1>1
  <2> QED
    BY <2>1 DEF Heard
<1>3. {i \in 1 .. Len(ms) + 1 : more[i] = m} =
          IF x = m THEN S \cup {Len(ms) + 1} ELSE S
  BY <1>0, <1>1
<1>4. IsFiniteSet(S) /\ Cardinality(S) = Heard(ms, m, Len(ms))
  BY <1>0, HeardIsNat DEF Heard
<1>5. Len(ms) + 1 \notin S
  BY <1>0
<1> HIDE DEF S
<1>6. Cardinality(S \cup {Len(ms) + 1}) = Cardinality(S) + 1
  BY <1>4, <1>5, FS_AddElement
<1>7. Heard(more, m, Len(ms) + 1) =
          IF x = m THEN Heard(ms, m, Len(ms)) + 1 ELSE Heard(ms, m, Len(ms))
  BY <1>3, <1>4, <1>6 DEF Heard
<1> QED
  BY <1>2, <1>7 DEF more

\* What tells the messages of requests apart.
LEMMA MessagesAre ==
    ASSUME NEW r \in Req
    PROVE  /\ Question(r).role = "user" /\ Open(Question(r)).role = "user"
           /\ Reply(r).role = "assistant" /\ Open(Reply(r)).role = "assistant"
           /\ Question(r).row = "kept" /\ Reply(r).row = "kept"
           /\ Open(Question(r)).row = "open" /\ Open(Reply(r)).row = "open"
           /\ Question(r).from = r /\ Reply(r).from = r
           /\ Open(Question(r)).from = r /\ Open(Reply(r)).from = r
BY DEF Question, Reply, Open

\* A question and an answer are not the same message, nor those of two requests.
LEMMA MessagesDiffer ==
    ASSUME NEW r \in Req, NEW p \in Req
    PROVE  /\ Question(r) # Reply(p) /\ Open(Question(r)) # Open(Reply(p))
           /\ Question(r) # Open(Question(p)) /\ Question(r) # Open(Reply(p))
           /\ Reply(r) # Open(Question(p)) /\ Reply(r) # Open(Reply(p))
           /\ p # r => /\ Question(r) # Question(p) /\ Reply(r) # Reply(p)
                       /\ Open(Question(r)) # Open(Question(p))
                       /\ Open(Reply(r)) # Open(Reply(p))
BY MessagesAre

\* The bound at the end, where there may be no message.
LEMMA FollowsAtEnd ==
    ASSUME NEW ms \in Seq(Message), NEW q, NEW a, Follows(ms, q, a)
    PROVE  /\ Heard(ms, a, Len(ms)) <= Heard(ms, q, Len(ms))
           /\ Heard(ms, a, Len(ms)) \in Nat /\ Heard(ms, q, Len(ms)) \in Nat
<1>0. Len(ms) \in Nat
  OBVIOUS
<1>1. /\ Heard(ms, a, Len(ms)) \in Nat /\ Heard(ms, q, Len(ms)) \in Nat
      /\ Heard(ms, a, 0) = 0 /\ Heard(ms, q, 0) = 0
  BY <1>0, HeardIsNat
<1>2. Len(ms) # 0 => Len(ms) \in 1 .. Len(ms)
  BY <1>0
<1> QED
  BY <1>1, <1>2 DEF Follows

\* One message more, which is not an answer too many.
LEMMA PairSpeaks ==
    ASSUME NEW ms \in Seq(Message), NEW x \in Message, NEW q, NEW a, q # a,
           Follows(ms, q, a),
           x = a => Heard(ms, a, Len(ms)) < Heard(ms, q, Len(ms))
    PROVE  Follows(ms \o <<x>>, q, a)
<1> DEFINE more == ms \o <<x>>
<1>0. Len(ms) \in Nat /\ Len(more) = Len(ms) + 1
  OBVIOUS
<1>1. ASSUME NEW n \in 1 .. Len(ms) PROVE Heard(more, a, n) <= Heard(more, q, n)
  <2>1. Heard(ms, a, n) <= Heard(ms, q, n)
    BY DEF Follows
  <2>2. n \in 0 .. Len(ms)
    BY <1>0
  <2> QED
    BY <2>1, <2>2, HeardOneMore
<1>2. /\ Heard(more, a, Len(ms) + 1) =
            IF x = a THEN Heard(ms, a, Len(ms)) + 1 ELSE Heard(ms, a, Len(ms))
      /\ Heard(more, q, Len(ms) + 1) =
            IF x = q THEN Heard(ms, q, Len(ms)) + 1 ELSE Heard(ms, q, Len(ms))
  BY HeardOneMore
<1>3. /\ Heard(ms, a, Len(ms)) <= Heard(ms, q, Len(ms))
      /\ Heard(ms, a, Len(ms)) \in Nat /\ Heard(ms, q, Len(ms)) \in Nat
  BY FollowsAtEnd
<1> HIDE DEF more
<1>4. Heard(more, a, Len(ms) + 1) <= Heard(more, q, Len(ms) + 1)
  BY <1>2, <1>3
<1>5. \A n \in 1 .. Len(ms) + 1 : n \in 1 .. Len(ms) \/ n = Len(ms) + 1
  BY <1>0
<1>6. Follows(more, q, a)
  BY <1>0, <1>1, <1>4, <1>5 DEF Follows
<1> QED
  BY <1>6 DEF more

\* What one more message of r changes.
LEMMA OneSpeaks ==
    ASSUME NEW ms \in Seq(Message), Answered(ms), NEW r \in Req, NEW x \in Message,
           x \in {Question(r), Reply(r), Open(Question(r)), Open(Reply(r))},
           x = Reply(r) => Asked(ms, r),
           x = Open(Reply(r)) =>
              Heard(ms, Open(Reply(r)), Len(ms)) < Heard(ms, Open(Question(r)), Len(ms))
    PROVE  /\ ms \o <<x>> \in Seq(Message) /\ Answered(ms \o <<x>>)
           /\ x = Question(r) => Asked(ms \o <<x>>, r)
           /\ \A p \in Req \ {r} : Asked(ms, p) => Asked(ms \o <<x>>, p)
<1> DEFINE more == ms \o <<x>>
<1>0. Len(ms) \in Nat /\ Len(more) = Len(ms) + 1 /\ more \in Seq(Message)
  OBVIOUS
<1>1. ASSUME NEW p \in Req
      PROVE  /\ Follows(more, Question(p), Reply(p))
             /\ Follows(more, Open(Question(p)), Open(Reply(p)))
  <2>1. /\ Question(p) # Reply(p) /\ Open(Question(p)) # Open(Reply(p))
        /\ x = Reply(p) => p = r
        /\ x = Open(Reply(p)) => p = r
    BY MessagesDiffer
  <2>2. /\ x = Reply(p) => Heard(ms, Reply(p), Len(ms)) < Heard(ms, Question(p), Len(ms))
        /\ x = Open(Reply(p)) =>
              Heard(ms, Open(Reply(p)), Len(ms)) < Heard(ms, Open(Question(p)), Len(ms))
    BY <2>1 DEF Asked
  <2>3. /\ Follows(ms, Question(p), Reply(p))
        /\ Follows(ms, Open(Question(p)), Open(Reply(p)))
    BY DEF Answered
  <2>4. Follows(more, Question(p), Reply(p))
    BY <2>1, <2>2, <2>3, PairSpeaks
  <2>5. Follows(more, Open(Question(p)), Open(Reply(p)))
    BY <2>1, <2>2, <2>3, PairSpeaks
  <2> QED
    BY <2>4, <2>5
<1>2. ASSUME NEW p \in Req
      PROVE  /\ Heard(more, Reply(p), Len(ms) + 1) =
                   IF x = Reply(p) THEN Heard(ms, Reply(p), Len(ms)) + 1
                   ELSE Heard(ms, Reply(p), Len(ms))
             /\ Heard(more, Question(p), Len(ms) + 1) =
                   IF x = Question(p) THEN Heard(ms, Question(p), Len(ms)) + 1
                   ELSE Heard(ms, Question(p), Len(ms))
  BY HeardOneMore
<1> HIDE DEF more
<1>3. ASSUME NEW p \in Req
      PROVE  /\ x = Question(r) /\ p = r => Asked(more, p)
             /\ p # r /\ Asked(ms, p) => Asked(more, p)
  <2>1. /\ Heard(ms, Reply(p), Len(ms)) <= Heard(ms, Question(p), Len(ms))
        /\ Heard(ms, Reply(p), Len(ms)) \in Nat /\ Heard(ms, Question(p), Len(ms)) \in Nat
    BY FollowsAtEnd DEF Answered
  <2>2. CASE p = r /\ x = Question(r)
    <3>1. x # Reply(p) /\ x = Question(p)
      BY <2>2, MessagesDiffer
    <3> QED
      BY <1>0, <1>2, <2>1, <2>2, <3>1 DEF Asked
  <2>3. CASE p # r
    <3>1. x # Reply(p) /\ x # Question(p)
      BY <2>3, MessagesDiffer
    <3> QED
      BY <1>0, <1>2, <2>1, <2>3, <3>1 DEF Asked
  <2> QED
    BY <2>2, <2>3
<1> QED
  BY <1>0, <1>1, <1>3 DEF more, Answered

\* A row of a transaction of r, in Oracle.
LEMMA RowSpeaks ==
    ASSUME NEW ms \in Seq(Message), NEW r \in Req, NEW p \in Req,
           NEW x \in {Open(Question(r)), Open(Reply(r))}, NEW lent \in {0, 1},
           Even(ms, p, lent), p = r => lent = (IF x = Open(Question(r)) THEN 0 ELSE 1)
    PROVE  Even(ms \o <<x>>, p, IF p = r THEN 1 - lent ELSE lent)
<1> DEFINE more == ms \o <<x>>
<1>0. Len(ms) \in Nat /\ Len(more) = Len(ms) + 1 /\ x \in Message
  BY SpokenIsMessage
<1>1. \A m : Heard(more, m, Len(ms) + 1) =
                 IF x = m THEN Heard(ms, m, Len(ms)) + 1 ELSE Heard(ms, m, Len(ms))
  BY <1>0, HeardOneMore
<1>2. \A m : Heard(ms, m, Len(ms)) \in Nat
  BY <1>0, HeardIsNat
<1> HIDE DEF more
<1>3. x # Question(p) /\ x # Reply(p)
  BY MessagesDiffer
<1>4. CASE p # r
  <2>1. x # Open(Question(p)) /\ x # Open(Reply(p))
    BY <1>4, MessagesDiffer
  <2>2. Even(more, p, lent)
    BY <1>0, <1>1, <1>3, <2>1 DEF Even
  <2> QED
    BY <1>4, <2>2 DEF more
<1>5. CASE p = r /\ x = Open(Question(r))
  <2>1. x = Open(Question(p)) /\ x # Open(Reply(p)) /\ lent = 0
    BY <1>5, MessagesDiffer
  <2>2. Even(more, p, 1)
    BY <1>0, <1>1, <1>2, <1>3, <2>1 DEF Even
  <2> QED
    BY <1>5, <2>1, <2>2 DEF more
<1>6. CASE p = r /\ x = Open(Reply(r))
  <2>1. x # Open(Question(p)) /\ x = Open(Reply(p)) /\ lent = 1
    BY <1>6, MessagesDiffer
  <2>2. Even(more, p, 0)
    BY <1>0, <1>1, <1>2, <1>3, <2>1 DEF Even
  <2> QED
    BY <1>6, <2>1, <2>2 DEF more
<1> QED
  BY <1>4, <1>5, <1>6

\* What the end of a transaction makes of one kind of message m.
LEMMA SettleHeard ==
    ASSUME NEW ms \in Seq(Message), NEW rs, NEW row \in {"kept", "undone"},
           NEW m \in Message, m.row = "kept", NEW n \in 0 .. Len(ms)
    PROVE  /\ Heard(Settle(ms, rs, row), m, n) =
                 IF row = "kept" /\ m.from \in rs THEN Heard(ms, m, n) + Heard(ms, Open(m), n)
                 ELSE Heard(ms, m, n)
           /\ Heard(Settle(ms, rs, row), Open(m), n) =
                 IF m.from \in rs THEN 0 ELSE Heard(ms, Open(m), n)
<1> DEFINE S == {i \in 1 .. n : ms[i] = m}
           T == {i \in 1 .. n : ms[i] = Open(m)}
<1>0. PICK set : set = Settle(ms, rs, row)
  OBVIOUS
<1>1. /\ Len(ms) \in Nat /\ n \in Nat
      /\ \A i \in 1 .. n : i \in 1 .. Len(ms) /\ ms[i] \in Message
  OBVIOUS
<1>2. /\ Open(m).row = "open" /\ Open(m).from = m.from /\ Open(m) # m
      /\ Open(m) \in Message
  BY DEF Open, Message
<1>3. \A i \in 1 .. n : set[i] = IF ms[i].row = "open" /\ ms[i].from \in rs
                                THEN [ms[i] EXCEPT !.row = row] ELSE ms[i]
  BY <1>0, <1>1, SettleIs
<1>4. ASSUME NEW v \in Message, v.row = "open"
      PROVE  /\ [v EXCEPT !.row = row] # Open(m)
             /\ [v EXCEPT !.row = row] = m <=> row = "kept" /\ v = Open(m)
  BY <1>4 DEF Open, Message
<1>5. ASSUME NEW i \in 1 .. n
      PROVE  /\ set[i] = m <=> \/ ms[i] = m
                               \/ row = "kept" /\ m.from \in rs /\ ms[i] = Open(m)
             /\ set[i] = Open(m) <=> ms[i] = Open(m) /\ m.from \notin rs
  <2>1. CASE ms[i].row = "open" /\ ms[i].from \in rs
    <3>1. set[i] = [ms[i] EXCEPT !.row = row] /\ ms[i] # m
      BY <1>3, <2>1
    <3> QED
      BY <1>1, <1>2, <1>4, <2>1, <3>1
  <2>2. CASE ~(ms[i].row = "open" /\ ms[i].from \in rs)
    <3>1. set[i] = ms[i]
      BY <1>3, <2>2
    <3> QED
      BY <1>2, <2>2, <3>1
  <2> QED
    BY <2>1, <2>2
<1>6. {i \in 1 .. n : set[i] = m} = IF row = "kept" /\ m.from \in rs THEN S \cup T ELSE S
  BY <1>5
<1>7. {i \in 1 .. n : set[i] = Open(m)} = IF m.from \in rs THEN {} ELSE T
  BY <1>5
<1>8. /\ IsFiniteSet(S) /\ IsFiniteSet(T) /\ S \cap T = {}
      /\ Cardinality(S) = Heard(ms, m, n) /\ Cardinality(T) = Heard(ms, Open(m), n)
  <2>1. S \cap T = {}
    BY <1>2
  <2>2. IsFiniteSet(S) /\ IsFiniteSet(T)
    BY <1>1, HeardIsNat
  <2> QED
    BY <2>1, <2>2 DEF Heard
<1>9. Heard(ms, m, n) \in Nat /\ Heard(ms, Open(m), n) \in Nat
  BY <1>1, HeardIsNat
<1> HIDE DEF S, T
<1>10. Cardinality(S \cup T) = Heard(ms, m, n) + Heard(ms, Open(m), n)
  <2>1. Cardinality(S \cup T) = Cardinality(S) + Cardinality(T) - Cardinality(S \cap T)
    BY <1>8, FS_Union
  <2>2. Cardinality(S \cap T) = 0
    BY <1>8, FS_EmptySet
  <2> QED
    BY <1>8, <1>9, <2>1, <2>2
<1>11. /\ Heard(set, m, n) = IF row = "kept" /\ m.from \in rs
                             THEN Heard(ms, m, n) + Heard(ms, Open(m), n) ELSE Heard(ms, m, n)
       /\ Heard(set, Open(m), n) = IF m.from \in rs THEN 0 ELSE Heard(ms, Open(m), n)
  BY <1>6, <1>7, <1>8, <1>10, FS_EmptySet DEF Heard
<1> QED
  BY <1>0, <1>11

\* Of all questions and answers.
LEMMA EndSpeaks ==
    ASSUME NEW ms \in Seq(Message), NEW rs, NEW row \in {"kept", "undone"}, Answered(ms)
    PROVE  /\ Settle(ms, rs, row) \in Seq(Message) /\ Answered(Settle(ms, rs, row))
           /\ \A p \in Req, lent \in {0, 1} :
                 Even(ms, p, lent) /\ (p \in rs /\ row = "kept" => lent = 0) =>
                    Even(Settle(ms, rs, row), p, IF p \in rs THEN 0 ELSE lent)
<1>0. PICK set \in Seq(Message) : set = Settle(ms, rs, row) /\ Len(set) = Len(ms)
  BY SettleIs
<1>1. Len(ms) \in Nat
  OBVIOUS
<1>2. ASSUME NEW p \in Req, NEW n \in 0 .. Len(ms)
      PROVE  /\ Heard(set, Question(p), n) =
                   IF row = "kept" /\ p \in rs
                   THEN Heard(ms, Question(p), n) + Heard(ms, Open(Question(p)), n)
                   ELSE Heard(ms, Question(p), n)
             /\ Heard(set, Reply(p), n) =
                   IF row = "kept" /\ p \in rs
                   THEN Heard(ms, Reply(p), n) + Heard(ms, Open(Reply(p)), n)
                   ELSE Heard(ms, Reply(p), n)
             /\ Heard(set, Open(Question(p)), n) =
                   IF p \in rs THEN 0 ELSE Heard(ms, Open(Question(p)), n)
             /\ Heard(set, Open(Reply(p)), n) =
                   IF p \in rs THEN 0 ELSE Heard(ms, Open(Reply(p)), n)
             /\ Heard(ms, Question(p), n) \in Nat /\ Heard(ms, Open(Question(p)), n) \in Nat
             /\ Heard(ms, Reply(p), n) \in Nat /\ Heard(ms, Open(Reply(p)), n) \in Nat
  <2>1. /\ Question(p) \in Message /\ Question(p).row = "kept" /\ Question(p).from = p
        /\ Reply(p) \in Message /\ Reply(p).row = "kept" /\ Reply(p).from = p
    BY MessagesAre, SpokenIsMessage
  <2>2. n \in Nat
    BY <1>1
  <2>3. /\ Heard(set, Question(p), n) =
              IF row = "kept" /\ p \in rs
              THEN Heard(ms, Question(p), n) + Heard(ms, Open(Question(p)), n)
              ELSE Heard(ms, Question(p), n)
        /\ Heard(set, Open(Question(p)), n) =
              IF p \in rs THEN 0 ELSE Heard(ms, Open(Question(p)), n)
    BY <1>0, <2>1, SettleHeard
  <2>4. /\ Heard(set, Reply(p), n) =
              IF row = "kept" /\ p \in rs
              THEN Heard(ms, Reply(p), n) + Heard(ms, Open(Reply(p)), n)
              ELSE Heard(ms, Reply(p), n)
        /\ Heard(set, Open(Reply(p)), n) =
              IF p \in rs THEN 0 ELSE Heard(ms, Open(Reply(p)), n)
    BY <1>0, <2>1, SettleHeard
  <2>5. \A m : Heard(ms, m, n) \in Nat
    BY <2>2, HeardIsNat
  <2> QED
    BY <2>3, <2>4, <2>5
<1>3. ASSUME NEW p \in Req
      PROVE  /\ Follows(set, Question(p), Reply(p))
             /\ Follows(set, Open(Question(p)), Open(Reply(p)))
  <2> SUFFICES ASSUME NEW n \in 1 .. Len(ms)
               PROVE  /\ Heard(set, Reply(p), n) <= Heard(set, Question(p), n)
                      /\ Heard(set, Open(Reply(p)), n) <= Heard(set, Open(Question(p)), n)
    BY <1>0 DEF Follows
  <2>1. n \in 0 .. Len(ms)
    BY <1>1
  <2>2. /\ Heard(ms, Reply(p), n) <= Heard(ms, Question(p), n)
        /\ Heard(ms, Open(Reply(p)), n) <= Heard(ms, Open(Question(p)), n)
    BY DEF Answered, Follows
  <2> QED
    BY <1>2, <2>1, <2>2
<1>4. ASSUME NEW p \in Req, NEW lent \in {0, 1}, Even(ms, p, lent),
             p \in rs /\ row = "kept" => lent = 0
      PROVE  Even(set, p, IF p \in rs THEN 0 ELSE lent)
  <2>1. Len(ms) \in 0 .. Len(ms)
    BY <1>1
  <2> QED
    BY <1>0, <1>2, <1>4, <2>1 DEF Even
<1> QED
  BY <1>0, <1>3, <1>4 DEF Answered

\* An exchange that is recorded as one.
LEMMA ExchangeSpeaks ==
    ASSUME NEW ms \in Seq(Message), Answered(ms), NEW r \in Req
    PROVE  /\ Answered(ms \o <<Question(r), Reply(r)>>)
           /\ Paired(ms) => Paired(ms \o <<Question(r), Reply(r)>>)
<1>0. /\ Question(r) \in Message /\ Reply(r) \in Message
      /\ Question(r).role = "user" /\ Question(r).from = r /\ Reply(r).role = "assistant"
  BY DEF Question, Reply, Message
<1> DEFINE asked == ms \o <<Question(r)>>
           both  == ms \o <<Question(r), Reply(r)>>
<1>1. asked \in Seq(Message) /\ Answered(asked) /\ Asked(asked, r)
  BY <1>0, OneSpeaks, MessagesDiffer
<1>2. both = asked \o <<Reply(r)>>
  BY <1>0
<1>3. Answered(both)
  <2> HIDE DEF asked, both
  <2> QED
    BY <1>0, <1>1, <1>2, OneSpeaks, MessagesDiffer
<1>4. ASSUME Paired(ms) PROVE Paired(both)
  <2>1. /\ Len(ms) \in Nat /\ Len(both) = Len(ms) + 2
        /\ \A i \in 1 .. Len(ms) : both[i] = ms[i]
        /\ both[Len(ms) + 1] = Question(r) /\ both[Len(ms) + 2] = Reply(r)
    BY <1>0
  <2>2. Len(ms) % 2 = 0
    <3>1. Len(ms) % 2 # 1 \/ Len(ms) = 0
      BY <1>4, <2>1 DEF Paired
    <3> QED
      BY <2>1, <3>1
  <2> HIDE DEF both
  <2>3. ASSUME NEW i \in 1 .. Len(ms)
        PROVE  IF i % 2 = 1
               THEN both[i].role = "user" /\ i < Len(both) /\ both[i + 1] = Reply(both[i].from)
               ELSE both[i].role = "assistant"
    <3>1. i % 2 = 1 => i < Len(ms) /\ i + 1 \in 1 .. Len(ms)
      BY <1>4, <2>1 DEF Paired
    <3> QED
      BY <1>4, <2>1, <3>1 DEF Paired
  <2>4. (Len(ms) + 1) % 2 = 1 /\ (Len(ms) + 2) % 2 = 0
    BY <2>1, <2>2
  <2>5. \A i \in 1 .. Len(both) : i \in 1 .. Len(ms) \/ i = Len(ms) + 1 \/ i = Len(ms) + 2
    BY <2>1
  <2>6. Len(ms) + 1 < Len(both) /\ (Len(ms) + 1) + 1 = Len(ms) + 2
    BY <2>1
  <2> QED
    BY <1>0, <2>1, <2>3, <2>4, <2>5, <2>6 DEF Paired
<1> QED
  BY <1>3, <1>4

-----------------------------------------------------------------------------
(* Exchanges: what the stores hold.                                         *)

\* A conversation that is gone has no messages; in memory a question has its answer
\* behind it, in Oracle as many answers as questions are kept, nowhere does an answer
\* come first, and in Supabase a request that is about to answer has asked.
WholeIn(c) ==
    /\ Exists(conversations, c) \/ messages[c] = <<>>
    /\ data = "memory" => Paired(messages[c])
    /\ Answered(messages[c])
    /\ data = "oracle" => \A r \in Req : Even(messages[c], r, Lent(req[r], c))

Whole ==
    /\ \A c \in Conversations : WholeIn(c)
    /\ \A r \in Req :
          req[r].pc = "reply" /\ Exists(conversations, req[r].conversation) =>
              Asked(messages[req[r].conversation], r)

\* Where nothing was said.
LEMMA SilenceIsWhole ==
    Paired(<<>>) /\ Answered(<<>>) /\ \A r \in Req : Even(<<>>, r, 0)
<1>1. Len(<<>>) = 0 /\ \A m : Heard(<<>>, m, 0) = 0
  BY HeardIsNat
<1> QED
  BY <1>1 DEF Paired, Answered, Follows, Even

\* Where no transaction is under way, none lends a question.
LEMMA SettledLendsNone ==
    ASSUME NEW ms \in Seq(Message), Settled(ms), NEW r \in Req, NEW lent \in {0, 1},
           Even(ms, r, lent)
    PROVE  lent = 0
<1>0. Len(ms) \in Nat
  OBVIOUS
<1>1. /\ {i \in 1 .. Len(ms) : ms[i] = Open(Question(r))} = {}
      /\ {i \in 1 .. Len(ms) : ms[i] = Open(Reply(r))} = {}
  BY MessagesAre DEF Settled
<1>2. /\ Heard(ms, Open(Question(r)), Len(ms)) = 0
      /\ Heard(ms, Open(Reply(r)), Len(ms)) = 0
  BY <1>1, FS_EmptySet DEF Heard
<1> QED
  BY <1>2 DEF Even

\* A request that neither comes to its answer nor begins or ends a loan.
Quiet(p) ==
    /\ req'[p].pc = "reply" => req'[p] = req[p]
    /\ \A c : Lent(req'[p], c) = Lent(req[p], c)

\* A step that says nothing and lets no request come to its answer.
LEMMA SilenceKeepsWhole ==
    ASSUME Inv, Whole, UNCHANGED data, \A p \in Req : Quiet(p),
           \A c \in Conversations :
              /\ \/ messages'[c] = messages[c]
                 \/ messages'[c] = <<>> /\ (data = "oracle" => Settled(messages[c]))
              /\ Exists(conversations, c)' \/ messages'[c] = <<>>
              /\ conversations[c] # None /\ Exists(conversations, c)' =>
                    Exists(conversations, c) /\ messages'[c] = messages[c]
    PROVE  Whole'
<1>1. ASSUME NEW c \in Conversations
      PROVE  /\ Exists(conversations, c)' \/ messages'[c] = <<>>
             /\ data' = "memory" => Paired(messages'[c])
             /\ Answered(messages'[c])
             /\ data' = "oracle" => \A p \in Req : Even(messages'[c], p, Lent(req'[p], c))
  <2>1. PICK ms : ms = messages'[c]
    OBVIOUS
  <2>2. /\ data = "memory" => Paired(messages[c])
        /\ Answered(messages[c])
        /\ data = "oracle" => \A p \in Req : Even(messages[c], p, Lent(req[p], c))
    BY DEF Whole, WholeIn
  <2>3. \A p \in Req : Lent(req'[p], c) = Lent(req[p], c) /\ Lent(req[p], c) \in {0, 1}
    BY DEF Quiet, Lent
  <2>4. CASE ms = messages[c]
    BY <2>1, <2>2, <2>3, <2>4
  <2>5. CASE ms = <<>> /\ (data = "oracle" => Settled(messages[c]))
    <3>1. ASSUME data = "oracle", NEW p \in Req PROVE Even(ms, p, Lent(req'[p], c))
      <4>1. messages[c] \in Seq(Message)
        BY DEF Inv, TypeOK
      <4>2. Lent(req[p], c) = 0
        BY <2>2, <2>3, <2>5, <3>1, <4>1, SettledLendsNone
      <4> QED
        BY <2>3, <2>5, <4>2, SilenceIsWhole
    <3> QED
      BY <2>1, <2>5, <3>1, SilenceIsWhole
  <2> QED
    BY <2>1, <2>4, <2>5
<1>2. ASSUME NEW p \in Req, req'[p].pc = "reply", Exists(conversations', req'[p].conversation)
      PROVE  Asked(messages'[req'[p].conversation], p)
  <2>1. req'[p] = req[p] /\ KnowsTalk(req[p])
    BY <1>2, RequestKnows DEF Quiet
  <2>2. PICK c \in Conversations : c = req[p].conversation /\ conversations[c] # None
    BY <1>2, <2>1 DEF KnowsTalk, Inside, ChatPC
  <2>3. Exists(conversations, c) /\ messages'[c] = messages[c]
    BY <1>2, <2>1, <2>2 DEF Exists
  <2>4. Asked(messages[c], p)
    BY <1>2, <2>1, <2>2, <2>3 DEF Whole
  <2> QED
    BY <2>1, <2>2, <2>3, <2>4
<1> QED
  BY <1>1, <1>2 DEF Whole, WholeIn, Exists

\* A step of r is seen in r alone.
LEMMA OthersStay ==
    ASSUME Inv, NEW r \in Req, Answer(r) \/ \E pc \in CallPC : Park(r, pc)
    PROVE  /\ \A p \in Req \ {r} : req'[p] = req[p]
           /\ Answer(r) => req'[r].pc = "idle"
           /\ \A pc \in CallPC : Park(r, pc) =>
                 req'[r].pc = pc /\ req'[r].conversation = req[r].conversation
<1>1. req \in [Req -> Request] /\ req[r] \in Request
  BY RequestKnows
<1>2. CASE Answer(r)
  <2>1. (\A p \in Req \ {r} : req'[p] = req[p]) /\ req'[r].pc = "idle"
    BY <1>1, <1>2, BlankKnows DEF Answer
  <2>2. ASSUME NEW pc \in CallPC, Park(r, pc)
        PROVE  req'[r].pc = pc /\ req'[r].conversation = req[r].conversation
    BY <1>1, <2>2 DEF Park, Request
  <2> QED
    BY <2>1, <2>2
<1>3. CASE \E pc \in CallPC : Park(r, pc)
  <2>1. ASSUME NEW pc \in CallPC, Park(r, pc)
        PROVE  /\ \A p \in Req \ {r} : req'[p] = req[p]
               /\ req'[r].pc = pc /\ req'[r].conversation = req[r].conversation
    BY <1>1, <2>1 DEF Park, Request
  <2>2. Answer(r) => req'[r].pc = "idle"
    BY <1>1, BlankKnows DEF Answer
  <2> QED
    BY <1>3, <2>1, <2>2
<1> QED
  BY <1>2, <1>3

\* Every other step lets no request come to its answer.
LEMMA NobodyComesToAnswer ==
    ASSUME Inv, NEW r \in Req, Act(r), ~Writes(r)
    PROVE  \A p \in Req : Quiet(p)
<1>0. req \in [Req -> Request] /\ req[r] \in Request
  BY RequestKnows
<1>z. req[r].pc # "insert"
  <2>1. CASE ConversationStep(r)
    BY <2>1 DEF ConversationStep, Writes, AddConversation, EditConversation,
                RemoveConversation, EnsureConversation, ReadContext, RetrieveContext,
                SendMessage, SupabaseTouch, At
  <2>2. CASE FileStep(r)
    BY <2>2 DEF FileStep, CheckConversation, WriteBytes, RecordFile, IndexForSearch, MarkFile,
                LookUpFile, DropChunks, ForgetFile, UnlinkFile, At
  <2>3. CASE ReadStep(r)
    BY <2>3 DEF ReadStep, CheckReader, ReadConversations, ReadMessages, ReadFiles, ReadFile,
                ReadAuditLogs, Show, Shown, At
  <2> QED
    BY <2>1, <2>2, <2>3 DEF Act, Begin, RecordEvent, Writes, RollsBack, At
<1>y. ASSUME \A p \in Req \ {r} : req'[p] = req[p], req'[r].pc \notin {"reply", "insert"}
      PROVE  \A p \in Req : Quiet(p)
  BY <1>y, <1>z DEF Quiet, Lent
<1>a. ASSUME NEW q, req' = [req EXCEPT ![r] = q], q.pc \notin {"reply", "insert"}
      PROVE  \A p \in Req : Quiet(p)
  BY <1>0, <1>a, <1>y
<1>b. CASE Answer(r)
  BY <1>b, <1>a, BlankKnows DEF Answer
<1>c. ASSUME NEW pc \in CallPC \ {"reply", "insert"}, Park(r, pc)
      PROVE  \A p \in Req : Quiet(p)
  <2>1. \A p \in Req \ {r} : req'[p] = req[p]
    BY <1>0, <1>c DEF Park
  <2>2. req'[r].pc = pc
    BY <1>0, <1>c DEF Park, Request
  <2> QED
    BY <1>y, <2>1, <2>2
<1>d. ASSUME NEW pc \in CallPC \ {"reply", "insert"}, NEW whose, Reads(r, pc, whose)
      PROVE  \A p \in Req : Quiet(p)
  <2>1. \A p \in Req \ {r} : req'[p] = req[p]
    BY <1>0, <1>d DEF Reads
  <2>2. req'[r].pc = pc
    BY <1>0, <1>d DEF Reads, Request
  <2> QED
    BY <1>y, <2>1, <2>2
<1>1. CASE \E u \in Users : Begin(r, u)
  <2>1. PICK u \in Users : Begin(r, u)
    BY <1>1
  <2>2. PICK q \in Calls(u) : req' = [req EXCEPT ![r] = q]
    BY <2>1 DEF Begin
  <2>3. q.pc \notin {"reply", "insert"}
    BY CallIs
  <2> QED
    BY <1>a, <2>2, <2>3
<1>2. CASE \/ AddConversation(r) \/ EditConversation(r) \/ RemoveConversation(r)
           \/ SendMessage(r) \/ SupabaseTouch(r)
           \/ CheckConversation(r) \/ MarkFile(r) \/ DropChunks(r) \/ ForgetFile(r)
           \/ UnlinkFile(r) \/ CheckReader(r) \/ Shown(r) \/ RecordEvent(r) \/ CallFails(r)
  <2>1. \/ Answer(r)
        \/ \E pc \in {"audit", "record", "disk", "forget", "unlink", "list"} :
              Park(r, pc)
    BY <1>2 DEF AddConversation, EditConversation, RemoveConversation, SendMessage,
                SupabaseTouch, CheckConversation, MarkFile, DropChunks,
                ForgetFile, UnlinkFile, CheckReader, Shown, RecordEvent, CallFails
  <2> QED
    BY <1>b, <1>c, <2>1 DEF CallPC
<1>3. CASE EnsureConversation(r)
  <2>1. CASE \E d : req' = [req EXCEPT ![r].pc = "context", ![r].conversation = d]
    <3>1. PICK d : req' = [req EXCEPT ![r].pc = "context", ![r].conversation = d]
      BY <2>1
    <3>2. (\A p \in Req \ {r} : req'[p] = req[p]) /\ req'[r].pc = "context"
      BY <1>0, <3>1 DEF Request
    <3> QED
      BY <1>y, <3>2
  <2>2. Park(r, "context") \/ Answer(r)
        \/ \E d : req' = [req EXCEPT ![r].pc = "context", ![r].conversation = d]
    BY <1>3 DEF EnsureConversation
  <2> QED
    BY <1>b, <1>c, <2>1, <2>2 DEF CallPC
<1>4. CASE ReadContext(r) \/ RetrieveContext(r)
  <2>1. CASE ReadContext(r)
    BY <1>d, <2>1 DEF ReadContext, Reads, CallPC
  <2>2. CASE RetrieveContext(r)
    <3>1. PICK found : req' = [req EXCEPT ![r].pc = "generate",
                                          ![r].shown = @ \cup {k[1] : k \in found}]
      BY <2>2 DEF RetrieveContext
    <3>2. (\A p \in Req \ {r} : req'[p] = req[p]) /\ req'[r].pc = "generate"
      BY <1>0, <3>1 DEF Request
    <3> QED
      BY <1>y, <3>2
  <2> QED
    BY <1>4, <2>1, <2>2
<1>5. CASE WriteBytes(r)
  <2>1. CASE \E path : req' = [req EXCEPT ![r].pc = "row", ![r].path = path]
    <3>1. PICK path : req' = [req EXCEPT ![r].pc = "row", ![r].path = path]
      BY <2>1
    <3>2. (\A p \in Req \ {r} : req'[p] = req[p]) /\ req'[r].pc = "row"
      BY <1>0, <3>1 DEF Request
    <3> QED
      BY <1>y, <3>2
  <2> QED
    BY <1>5, <1>b, <2>1 DEF WriteBytes
<1>6. CASE RecordFile(r)
  <2>1. CASE \E f : req' = [req EXCEPT ![r].pc = "index", ![r].file = f]
    <3>1. PICK f : req' = [req EXCEPT ![r].pc = "index", ![r].file = f]
      BY <2>1
    <3>2. (\A p \in Req \ {r} : req'[p] = req[p]) /\ req'[r].pc = "index"
      BY <1>0, <3>1 DEF Request
    <3> QED
      BY <1>y, <3>2
  <2> QED
    BY <1>6, <1>b, <2>1 DEF RecordFile
<1>7. CASE IndexForSearch(r)
  <2>1. CASE req' = [req EXCEPT ![r].pc = "status", ![r].indexed = TRUE]
    <3>1. (\A p \in Req \ {r} : req'[p] = req[p]) /\ req'[r].pc = "status"
      BY <1>0, <2>1 DEF Request
    <3> QED
      BY <1>y, <3>1
  <2> QED
    BY <1>7, <1>c, <2>1 DEF IndexForSearch, CallPC
<1>8. CASE LookUpFile(r)
  <2>1. CASE \E path : req' = [req EXCEPT ![r].pc = "chunks", ![r].path = path]
    <3>1. PICK path : req' = [req EXCEPT ![r].pc = "chunks", ![r].path = path]
      BY <2>1
    <3>2. (\A p \in Req \ {r} : req'[p] = req[p]) /\ req'[r].pc = "chunks"
      BY <1>0, <3>1 DEF Request
    <3> QED
      BY <1>y, <3>2
  <2> QED
    BY <1>8, <1>b, <2>1 DEF LookUpFile
<1>9. CASE \/ ReadConversations(r) \/ ReadMessages(r) \/ ReadFiles(r) \/ ReadFile(r)
           \/ ReadAuditLogs(r)
  <2>1. \E whose : Reads(r, "answer", whose)
    BY <1>9 DEF ReadConversations, ReadMessages, ReadFiles, ReadFile, ReadAuditLogs, Show,
                Reads
  <2> QED
    BY <1>d, <2>1 DEF CallPC
<1> QED
  BY <1>1, <1>2, <1>3, <1>4, <1>5, <1>6, <1>7, <1>8, <1>9
     DEF Act, ConversationStep, FileStep, ReadStep, Writes

\* One conversation is spoken in: d now holds ms.
Speech(r, d, ms) ==
    /\ UNCHANGED <<data, conversations>>
    /\ Exists(conversations, d)
    /\ ms \in Seq(Message)
    /\ messages' = [messages EXCEPT ![d] = ms]
    /\ data = "memory" => Paired(ms)
    /\ Answered(ms)
    /\ \A p \in Req : /\ data = "oracle" => Even(ms, p, Lent(req'[p], d))
                      /\ \A c \in Conversations \ {d} : Lent(req'[p], c) = Lent(req[p], c)
    /\ \A p \in Req : req'[p].pc = "reply" =>
          /\ req'[p] = req[p] \/ (p = r /\ req'[p].conversation = d)
          /\ req'[p].conversation = d => Asked(ms, p)

LEMMA SpeechKeepsWhole ==
    ASSUME Inv, Whole, NEW r \in Req, NEW d \in Conversations, NEW ms, Speech(r, d, ms)
    PROVE  Whole'
<1> USE DEF Speech
<1>0. /\ messages'[d] = ms /\ \A c \in Conversations \ {d} : messages'[c] = messages[c]
  BY DEF Inv, TypeOK
<1>1. ASSUME NEW c \in Conversations
      PROVE  /\ Exists(conversations, c)' \/ messages'[c] = <<>>
             /\ data' = "memory" => Paired(messages'[c])
             /\ Answered(messages'[c])
             /\ data' = "oracle" => \A p \in Req : Even(messages'[c], p, Lent(req'[p], c))
  <2>1. CASE c = d
    BY <1>0, <2>1 DEF Exists
  <2>2. CASE c # d
    <3>1. /\ messages'[c] = messages[c]
          /\ Exists(conversations, c) \/ messages[c] = <<>>
          /\ data = "memory" => Paired(messages[c])
          /\ Answered(messages[c])
          /\ data = "oracle" => \A p \in Req : Even(messages[c], p, Lent(req[p], c))
          /\ \A p \in Req : Lent(req'[p], c) = Lent(req[p], c)
      BY <1>0, <2>2 DEF Whole, WholeIn
    <3> QED
      BY <3>1 DEF Exists
  <2> QED
    BY <2>1, <2>2
<1>2. ASSUME NEW p \in Req, req'[p].pc = "reply", Exists(conversations', req'[p].conversation)
      PROVE  Asked(messages'[req'[p].conversation], p)
  <2>1. CASE req'[p].conversation = d
    BY <1>0, <1>2, <2>1
  <2>2. CASE req'[p].conversation # d
    <3>1. req'[p] = req[p] /\ KnowsTalk(req[p])
      BY <1>2, <2>2, RequestKnows
    <3>2. PICK c \in Conversations \ {d} : c = req[p].conversation
      BY <1>2, <2>2, <3>1 DEF KnowsTalk, Inside, ChatPC
    <3>3. Asked(messages[c], p)
      BY <1>2, <3>1, <3>2 DEF Whole, Exists
    <3> QED
      BY <1>0, <3>1, <3>2, <3>3
  <2> QED
    BY <2>1, <2>2
<1> QED
  BY <1>1, <1>2 DEF Whole, WholeIn, Exists

\* In memory the exchange is one write; elsewhere nothing is said, or the question.
LEMMA RecordingKeepsWhole ==
    ASSUME Inv, Whole, NEW r \in Req, RecordExchange(r)
    PROVE  Whole'
<1>0. req[r].pc = "record" /\ req[r].pc \in CallPC /\ KnowsTalk(req[r])
  BY RequestKnows DEF RecordExchange, At, CallPC
<1>1. PICK d \in Conversations : d = req[r].conversation
  BY <1>0 DEF KnowsTalk, Inside, ChatPC
<1>2. UNCHANGED <<data, conversations>>
  BY DEF RecordExchange, config
<1>3. messages[d] \in Seq(Message) /\ Answered(messages[d])
      /\ (data = "memory" => Paired(messages[d]))
  BY DEF Inv, TypeOK, Whole, WholeIn
<1>4. \A p \in Req : req[p].pc = "reply" => data = "supabase"
  BY RequestKnows DEF KnowsTalk
<1>5. CASE UNCHANGED messages /\ (Answer(r) \/ Park(r, "question"))
  <2>1. \A c \in Conversations :
              /\ \/ messages'[c] = messages[c]
                 \/ messages'[c] = <<>> /\ (data = "oracle" => Settled(messages[c]))
              /\ Exists(conversations, c)' \/ messages'[c] = <<>>
              /\ conversations[c] # None /\ Exists(conversations, c)' =>
                    Exists(conversations, c) /\ messages'[c] = messages[c]
    BY <1>2, <1>5 DEF Whole, WholeIn, Exists
  <2>2. /\ \A p \in Req \ {r} : req'[p] = req[p]
        /\ req'[r].pc \in {"idle", "question"}
    BY <1>5, OthersStay DEF CallPC
  <2>3. \A p \in Req : Quiet(p)
    BY <1>0, <2>2 DEF Quiet, Lent
  <2> QED
    BY <1>2, <2>1, <2>3, SilenceKeepsWhole
<1>6. CASE /\ data = "memory" /\ Exists(conversations, d) /\ Answer(r)
           /\ Say(d, <<Question(r), Reply(r)>>)
  <2>1. PICK ms : ms = messages[d] \o <<Question(r), Reply(r)>>
    OBVIOUS
  <2>2. ms \in Seq(Message)
    BY <1>3, <2>1, SpokenIsMessage
  <2>3. Answered(ms) /\ Paired(ms)
    BY <1>3, <1>6, <2>1, ExchangeSpeaks
  <2>4. messages' = [messages EXCEPT ![d] = ms]
    BY <1>6, <2>1 DEF Say
  <2>5. (\A p \in Req \ {r} : req'[p] = req[p]) /\ req'[r].pc = "idle"
    BY <1>6, OthersStay
  <2>6. \A p \in Req : req'[p].pc # "reply"
    BY <1>4, <1>6, <2>5
  <2>7. \A p \in Req, c \in Conversations : Lent(req'[p], c) = Lent(req[p], c)
    BY <1>0, <2>5 DEF Lent
  <2>8. Speech(r, d, ms)
    BY <1>2, <1>6, <2>2, <2>3, <2>4, <2>6, <2>7 DEF Speech
  <2> QED
    BY <2>8, SpeechKeepsWhole
<1>7. CASE /\ data = "oracle" /\ Exists(conversations, d) /\ Park(r, "insert")
           /\ Say(d, <<Open(Question(r))>>)
  <2>1. PICK ms : ms = messages[d] \o <<Open(Question(r))>>
    OBVIOUS
  <2>2. ms \in Seq(Message) /\ Answered(ms)
    BY <1>3, <2>1, OneSpeaks, MessagesDiffer, SpokenIsMessage
  <2>3. messages' = [messages EXCEPT ![d] = ms]
    BY <1>7, <2>1 DEF Say
  <2>4. /\ \A p \in Req \ {r} : req'[p] = req[p]
        /\ req'[r].pc = "insert" /\ req'[r].conversation = d
    BY <1>1, <1>7, OthersStay DEF CallPC
  <2>5. \A p \in Req : req'[p].pc # "reply"
    BY <1>4, <1>7, <2>4
  <2>6. \A p \in Req, c \in Conversations \ {d} : Lent(req'[p], c) = Lent(req[p], c)
    BY <1>0, <2>4 DEF Lent
  <2>7. ASSUME NEW p \in Req PROVE Even(ms, p, Lent(req'[p], d))
    <3>1. PICK lent \in {0, 1} : lent = Lent(req[p], d)
      BY DEF Lent
    <3>2. Even(messages[d], p, lent)
      BY <1>7, <3>1 DEF Whole, WholeIn
    <3>3. p = r => lent = 0
      BY <1>0, <3>1 DEF Lent
    <3>4. Even(ms, p, IF p = r THEN 1 - lent ELSE lent)
      BY <1>3, <2>1, <3>2, <3>3, RowSpeaks
    <3>5. Lent(req'[p], d) = IF p = r THEN 1 - lent ELSE lent
      BY <2>4, <3>1, <3>3 DEF Lent
    <3> QED
      BY <3>4, <3>5
  <2>8. Speech(r, d, ms)
    BY <1>2, <1>7, <2>2, <2>3, <2>5, <2>6, <2>7 DEF Speech
  <2> QED
    BY <2>8, SpeechKeepsWhole
<1> QED
  BY <1>1, <1>5, <1>6, <1>7
     DEF RecordExchange, MemoryAddMessages, OracleInsertMessage, InScope

\* In Oracle the answer follows in the transaction, which then ends.
LEMMA TransactionKeepsWhole ==
    ASSUME Inv, Whole, NEW r \in Req,
           OracleInsertReply(r) \/ OracleCommit(r) \/ RollsBack(r)
    PROVE  Whole'
<1>0. /\ req[r].pc \in {"insert", "commit"} /\ KnowsTalk(req[r]) /\ data = "oracle"
      /\ UNCHANGED <<data, conversations>>
  BY RequestKnows DEF OracleInsertReply, OracleCommit, RollsBack, CallFails, At, KnowsTalk, config
<1>1. PICK d \in Conversations : d = req[r].conversation
  BY <1>0 DEF KnowsTalk, Inside, ChatPC
<1>2. messages[d] \in Seq(Message) /\ Answered(messages[d])
  BY DEF Inv, TypeOK, Whole, WholeIn
<1>3. \A p \in Req : req[p].pc # "reply"
  BY <1>0, RequestKnows DEF KnowsTalk
<1>4. \A p \in Req : Lent(req[p], d) \in {0, 1} /\ Even(messages[d], p, Lent(req[p], d))
  BY <1>0 DEF Whole, WholeIn, Lent
<1>5. CASE OracleInsertReply(r)
  <2>1. PICK ms : ms = messages[d] \o <<Open(Reply(r))>>
    OBVIOUS
  <2>2. Exists(conversations, d) /\ messages' = [messages EXCEPT ![d] = ms]
    BY <1>1, <1>5, <2>1 DEF OracleInsertReply, OracleInsertMessage, Say
  <2>3. req[r].pc = "insert" /\ Lent(req[r], d) = 1
    BY <1>1, <1>5 DEF OracleInsertReply, At, Lent
  <2>4. Heard(messages[d], Open(Reply(r)), Len(messages[d])) <
            Heard(messages[d], Open(Question(r)), Len(messages[d]))
    <3>1. Heard(messages[d], Open(Reply(r)), Len(messages[d])) \in Nat
      BY <1>2, FollowsAtEnd DEF Answered
    <3> QED
      BY <1>4, <2>3, <3>1 DEF Even
  <2>5. ms \in Seq(Message) /\ Answered(ms)
    BY <1>2, <2>1, <2>4, OneSpeaks, MessagesDiffer, SpokenIsMessage
  <2>6. /\ \A p \in Req \ {r} : req'[p] = req[p]
        /\ req'[r].pc = "commit"
    BY <1>5, OthersStay DEF OracleInsertReply, CallPC
  <2>7. \A p \in Req : req'[p].pc # "reply"
    BY <1>3, <2>6
  <2>8. \A p \in Req, c \in Conversations \ {d} : Lent(req'[p], c) = Lent(req[p], c)
    BY <1>1, <2>6 DEF Lent
  <2>9. ASSUME NEW p \in Req PROVE Even(ms, p, Lent(req'[p], d))
    <3>1. PICK lent \in {0, 1} : lent = Lent(req[p], d) /\ Even(messages[d], p, lent)
      BY <1>4
    <3>2. p = r => lent = 1
      BY <2>3, <3>1
    <3>3. Open(Reply(r)) # Open(Question(r))
      BY MessagesDiffer
    <3>4. Even(ms, p, IF p = r THEN 1 - lent ELSE lent)
      BY <1>2, <2>1, <3>1, <3>2, <3>3, RowSpeaks
    <3>5. Lent(req'[p], d) = IF p = r THEN 1 - lent ELSE lent
      BY <2>6, <3>1, <3>2 DEF Lent
    <3> QED
      BY <3>4, <3>5
  <2>10. Speech(r, d, ms)
    BY <1>0, <2>2, <2>5, <2>7, <2>8, <2>9 DEF Speech
  <2> QED
    BY <2>10, SpeechKeepsWhole
<1>6. ASSUME NEW row \in {"kept", "undone"}, OracleEnd(d, r, row), Answer(r),
             row = "kept" => req[r].pc = "commit"
      PROVE  Whole'
  <2>1. PICK ms : ms = Settle(messages[d], {r}, row)
    OBVIOUS
  <2>2. messages' = [messages EXCEPT ![d] = ms]
    BY <1>6, <2>1 DEF OracleEnd
  <2>3. ms \in Seq(Message) /\ Answered(ms)
    BY <1>2, <2>1, EndSpeaks
  <2>4. (\A p \in Req \ {r} : req'[p] = req[p]) /\ req'[r].pc = "idle"
    BY <1>6, OthersStay
  <2>5. \A p \in Req : req'[p].pc # "reply"
    BY <1>3, <2>4
  <2>6. \A p \in Req, c \in Conversations \ {d} : Lent(req'[p], c) = Lent(req[p], c)
    BY <1>1, <2>4 DEF Lent
  <2>7. ASSUME NEW p \in Req PROVE Even(ms, p, Lent(req'[p], d))
    <3>1. PICK lent \in {0, 1} : lent = Lent(req[p], d) /\ Even(messages[d], p, lent)
      BY <1>4
    <3>2. p \in {r} /\ row = "kept" => lent = 0
      BY <1>6, <3>1 DEF Lent
    <3>3. Even(ms, p, IF p \in {r} THEN 0 ELSE lent)
      BY <1>2, <2>1, <3>1, <3>2, EndSpeaks
    <3>4. Lent(req'[p], d) = IF p \in {r} THEN 0 ELSE lent
      BY <2>4, <3>1 DEF Lent
    <3> QED
      BY <3>3, <3>4
  <2>8. CASE Exists(conversations, d)
    <3>1. Speech(r, d, ms)
      BY <1>0, <2>2, <2>3, <2>5, <2>6, <2>7, <2>8 DEF Speech
    <3> QED
      BY <3>1, SpeechKeepsWhole
  <2>9. CASE ~Exists(conversations, d)
    \* Its rows would have kept the conversation from being deleted.
    <3>1. messages[d] = <<>> /\ \A p \in Req : Lent(req[p], d) = 0
      <4>1. messages[d] = <<>> /\ Settled(messages[d])
        BY <2>9 DEF Whole, WholeIn, Settled
      <4> QED
        BY <1>2, <1>4, <4>1, SettledLendsNone
    <3>2. ms = <<>>
      <4>1. Len(ms) = Len(messages[d]) /\ Len(messages[d]) = 0
        <5>1. PICK old \in Seq(Message) : old = messages[d]
          BY <1>2
        <5>2. Len(Settle(old, {r}, row)) = Len(old)
          BY <5>1, SettleIs
        <5> QED
          BY <2>1, <3>1, <5>1, <5>2
      <4> QED
        BY <2>3, <4>1
    <3>3. \A c \in Conversations : messages'[c] = messages[c]
      BY <2>2, <3>1, <3>2 DEF Inv, TypeOK
    <3>4. \A p \in Req : Quiet(p)
      BY <1>1, <2>4, <3>1 DEF Quiet, Lent
    <3>5. \A c \in Conversations : Exists(conversations, c) \/ messages[c] = <<>>
      BY DEF Whole, WholeIn
    <3> QED
      BY <1>0, <3>3, <3>4, <3>5, SilenceKeepsWhole DEF Exists
  <2> QED
    BY <2>8, <2>9
<1>7. CASE OracleCommit(r)
  BY <1>1, <1>6, <1>7 DEF OracleCommit, At
<1>8. CASE RollsBack(r)
  BY <1>1, <1>6, <1>8 DEF RollsBack, CallFails
<1> QED
  BY <1>5, <1>7, <1>8

\* In Supabase the question is written before the answer.
LEMMA PostingKeepsWhole ==
    ASSUME Inv, Whole, NEW r \in Req, SupabaseAddMessages(r)
    PROVE  Whole'
<1>0. /\ req \in [Req -> Request] /\ req[r] \in Request /\ KnowsTalk(req[r])
      /\ req[r].pc \in {"question", "reply"} /\ data = "supabase"
      /\ messages \in [Conversations -> Seq(Message)]
  BY RequestKnows DEF SupabaseAddMessages, At, KnowsTalk, Inv, TypeOK
<1>1. PICK d \in Conversations : d = req[r].conversation
  BY <1>0 DEF KnowsTalk, Inside, ChatPC
<1>2. UNCHANGED <<data, conversations>>
  BY DEF SupabaseAddMessages, config
<1>3. CASE Answer(r) /\ UNCHANGED messages
  <2>1. \A p \in Req : Quiet(p)
    BY <1>0, <1>3, OthersStay DEF Quiet, Lent
  <2>2. \A c \in Conversations :
              /\ \/ messages'[c] = messages[c]
                 \/ messages'[c] = <<>> /\ (data = "oracle" => Settled(messages[c]))
              /\ Exists(conversations, c)' \/ messages'[c] = <<>>
              /\ conversations[c] # None /\ Exists(conversations, c)' =>
                    Exists(conversations, c) /\ messages'[c] = messages[c]
    BY <1>2, <1>3 DEF Whole, WholeIn, Exists
  <2> QED
    BY <1>2, <2>1, <2>2, SilenceKeepsWhole
<1>4. ASSUME NEW x \in Message, NEW pc \in {"reply", "touch"}, Exists(conversations, d),
             Say(d, <<x>>), Park(r, pc),
             x = Question(r) \/ (x = Reply(r) /\ req[r].pc = "reply" /\ pc = "touch")
      PROVE  Whole'
  <2>1. PICK ms : ms = messages[d] \o <<x>>
    OBVIOUS
  <2>2. Answered(messages[d]) /\ messages[d] \in Seq(Message)
    BY <1>0 DEF Whole, WholeIn
  <2>3. x = Reply(r) => Asked(messages[d], r)
    BY <1>1, <1>4, MessagesDiffer DEF Whole
  <2>4. /\ ms \in Seq(Message) /\ Answered(ms)
        /\ x = Question(r) => Asked(ms, r)
        /\ \A p \in Req \ {r} : Asked(messages[d], p) => Asked(ms, p)
    BY <1>4, <2>1, <2>2, <2>3, OneSpeaks, MessagesDiffer
  <2>5. messages' = [messages EXCEPT ![d] = ms]
    BY <1>4, <2>1 DEF Say
  <2>6. /\ \A p \in Req \ {r} : req'[p] = req[p]
        /\ req'[r].pc = pc /\ req'[r].conversation = d
    BY <1>0, <1>1, <1>4 DEF Park, Request
  <2>7. ASSUME NEW p \in Req, req'[p].pc = "reply"
        PROVE  /\ req'[p] = req[p] \/ (p = r /\ req'[p].conversation = d)
               /\ req'[p].conversation = d => Asked(ms, p)
    <3>1. CASE p = r
      BY <1>4, <2>4, <2>6, <2>7, <3>1
    <3>2. CASE p # r
      <4>1. req'[p] = req[p]
        BY <2>6, <3>2
      <4>2. req[p].conversation = d => Asked(messages[d], p)
        BY <1>4, <2>7, <4>1 DEF Whole
      <4> QED
        BY <2>4, <3>2, <4>1, <4>2
    <3> QED
      BY <3>1, <3>2
  <2>8. \A p \in Req : req'[p].pc = "reply" =>
              /\ req'[p] = req[p] \/ (p = r /\ req'[p].conversation = d)
              /\ req'[p].conversation = d => Asked(ms, p)
    BY <2>7
  <2>9. /\ Exists(conversations, d) /\ (data = "memory" => Paired(ms)) /\ Answered(ms)
        /\ data # "oracle"
    BY <1>0, <1>4, <2>4
  <2>10. ms \in Seq(Message)
    BY <2>4
  <2>11. \A p \in Req, c \in Conversations : Lent(req'[p], c) = Lent(req[p], c)
    BY <1>0, <1>4, <2>6 DEF Lent
  <2>12. Speech(r, d, ms)
    BY <1>2, <2>5, <2>8, <2>9, <2>10, <2>11 DEF Speech
  <2> QED
    BY <2>12, SpeechKeepsWhole
<1>5. CASE /\ SupabaseInsertMessage(d, IF At(r, "question") THEN Question(r) ELSE Reply(r))
           /\ Park(r, IF At(r, "question") THEN "reply" ELSE "touch")
  <2>1. CASE At(r, "question")
    <3>1. Exists(conversations, d) /\ Say(d, <<Question(r)>>) /\ Park(r, "reply")
      BY <1>5, <2>1 DEF SupabaseInsertMessage
    <3> QED
      BY <1>4, <3>1, SpokenIsMessage
  <2>2. CASE ~At(r, "question")
    <3>1. /\ Exists(conversations, d) /\ Say(d, <<Reply(r)>>) /\ Park(r, "touch")
          /\ req[r].pc = "reply"
      BY <1>0, <1>5, <2>2 DEF SupabaseInsertMessage, At
    <3> QED
      BY <1>4, <3>1, SpokenIsMessage
  <2> QED
    BY <2>1, <2>2
<1> QED
  BY <1>1, <1>3, <1>5 DEF SupabaseAddMessages

\* A conversation that is made or deleted has no messages.
LEMMA MakingKeepsWhole ==
    ASSUME Inv, Whole, NEW r \in Req,
           \/ AddConversation(r) \/ EditConversation(r) \/ RemoveConversation(r)
           \/ EnsureConversation(r)
    PROVE  Whole'
<1>0. /\ DOMAIN conversations = Conversations /\ DOMAIN messages = Conversations
      /\ UNCHANGED data
  BY DEF Inv, TypeOK, AddConversation, EditConversation, RemoveConversation,
         EnsureConversation, config
<1>1. \A p \in Req : Quiet(p)
  <2>1. Act(r) /\ req[r].pc \in {"create", "rename", "remove", "ensure"}
    BY DEF Act, ConversationStep, AddConversation, EditConversation, RemoveConversation,
           EnsureConversation, At
  <2>2. ~Writes(r)
    BY <2>1 DEF Writes, RecordExchange, OracleInsertReply, OracleCommit, SupabaseAddMessages,
                RollsBack, At
  <2> QED
    BY <2>1, <2>2, NobodyComesToAnswer
<1>2. \A c \in Conversations : Exists(conversations, c) \/ messages[c] = <<>>
  BY DEF Whole, WholeIn
<1>a. Settled(<<>>)
  BY DEF Settled
<1>3. \A c \in Conversations :
              /\ \/ messages'[c] = messages[c]
                 \/ messages'[c] = <<>> /\ (data = "oracle" => Settled(messages[c]))
              /\ Exists(conversations, c)' \/ messages'[c] = <<>>
              /\ conversations[c] # None /\ Exists(conversations, c)' =>
                    Exists(conversations, c) /\ messages'[c] = messages[c]
  <2>1. CASE \E d \in Conversations, u \in Users, t \in Titles : CreateConversation(d, u, t)
    <3>1. PICK d \in Conversations, u \in Users, t \in Titles : CreateConversation(d, u, t)
      BY <2>1
    <3>2. /\ conversations[d] = None
          /\ conversations' = [conversations EXCEPT ![d] = [owner |-> u, title |-> t]]
          /\ messages' = [messages EXCEPT ![d] = <<>>] \/ messages' = messages
      BY <3>1, CreationKeepsTalk
    <3> QED
      BY <1>0, <1>2, <1>a, <3>2 DEF Exists
  <2>2. CASE UNCHANGED <<conversations, messages>>
    BY <1>2, <2>2 DEF Exists
  <2>3. CASE EditConversation(r)
    <3>1. PICK d : \/ UNCHANGED conversations
                   \/ /\ Exists(conversations, d) /\ d \in Conversations
                      /\ conversations' = [conversations EXCEPT ![d].title = req[r].title]
      BY <2>3, RequestKnows
         DEF EditConversation, RenameConversation, MemoryRenameConversation,
             OracleUpdateTitle, SupabaseRenameConversation, Owned, At, Local
    <3>2. UNCHANGED messages
      BY <2>3 DEF EditConversation
    <3>3. CASE UNCHANGED conversations
      BY <1>2, <3>2, <3>3 DEF Exists
    <3>4. CASE /\ Exists(conversations, d) /\ d \in Conversations
               /\ conversations' = [conversations EXCEPT ![d].title = req[r].title]
      <4>1. /\ \A c \in Conversations \ {d} : conversations'[c] = conversations[c]
            /\ req[r].title \in Titles
        BY <1>0, <2>3, <3>4, RequestKnows DEF EditConversation, At, Local
      <4>2. conversations'[d] \in ConversationRow
        <5>1. conversations[d] \in ConversationRow
          BY <3>4, ConversationIsRow DEF Inv
        <5> QED
          BY <1>0, <3>4, <4>1, <5>1 DEF ConversationRow
      <4>3. Exists(conversations, d)'
        BY <3>4, <4>2, RowsExist DEF Exists
      <4> QED
        BY <1>2, <3>2, <3>4, <4>1, <4>3 DEF Exists
    <3> QED
      BY <3>1, <3>3, <3>4
  <2>4. CASE \E d \in Conversations : Forget(d) /\ (data = "oracle" => Settled(messages[d]))
    BY <1>0, <1>2, <2>4, RowsExist DEF Forget, Exists
  <2>5. CASE AddConversation(r)
    BY <2>1, <2>5, RequestKnows DEF AddConversation, At, Local
  <2>6. CASE RemoveConversation(r)
    <3>1. req[r].conversation \in Conversations
      BY <2>6, RequestKnows DEF RemoveConversation, At, Local
    <3> QED
      BY <2>2, <2>4, <2>6, <3>1
         DEF RemoveConversation, DeleteConversation, MemoryDeleteConversation,
             OracleDeleteConversation, SupabaseDeleteConversation, talk
  <2>7. CASE EnsureConversation(r)
    <3>1. req[r].by \in Users /\ Derived \in Titles
      BY <2>7, RequestKnows, WorkspaceAssumption DEF EnsureConversation, At, Local
    <3> QED
      BY <2>1, <2>2, <2>7, <3>1 DEF EnsureConversation, talk
  <2> QED
    BY <2>3, <2>5, <2>6, <2>7
<1> QED
  BY <1>0, <1>1, <1>3, SilenceKeepsWhole

\* No step of a request changes the configuration.
LEMMA ActKeepsConfig ==
    ASSUME NEW r \in Req, Act(r)
    PROVE  UNCHANGED config
<1>1. CASE \/ \E u \in Users : Begin(r, u)
           \/ ConversationStep(r) \/ RecordEvent(r) \/ CallFails(r)
  BY <1>1 DEF Begin, ConversationStep, AddConversation, EditConversation, RemoveConversation,
              EnsureConversation, ReadContext, RetrieveContext, SendMessage, RecordExchange,
              OracleInsertReply, OracleCommit, SupabaseAddMessages, SupabaseTouch,
              RecordEvent, CallFails
<1>2. CASE FileStep(r)
  BY <1>2 DEF FileStep, CheckConversation, WriteBytes, RecordFile, IndexForSearch, MarkFile,
              LookUpFile, DropChunks, ForgetFile, UnlinkFile
<1>3. CASE ReadStep(r)
  BY <1>3 DEF ReadStep, CheckReader, ReadConversations, ReadMessages, ReadFiles, ReadFile,
              ReadAuditLogs, Show, Shown
<1> QED
  BY <1>1, <1>2, <1>3 DEF Act

\* Every step keeps exchanges whole.
LEMMA NextWhole == Inv /\ Whole /\ [Next]_vars => Whole'
<1> SUFFICES ASSUME Inv, Whole, [Next]_vars PROVE Whole'
  OBVIOUS
<1>a. \A c \in Conversations : Exists(conversations, c) \/ messages[c] = <<>>
  BY DEF Whole, WholeIn
<1>b. ASSUME UNCHANGED <<data, conversations, messages>>, \A p \in Req : Quiet(p)
      PROVE  Whole'
  <2>1. \A c \in Conversations :
              /\ \/ messages'[c] = messages[c]
                 \/ messages'[c] = <<>> /\ (data = "oracle" => Settled(messages[c]))
              /\ Exists(conversations, c)' \/ messages'[c] = <<>>
              /\ conversations[c] # None /\ Exists(conversations, c)' =>
                    Exists(conversations, c) /\ messages'[c] = messages[c]
    BY <1>a, <1>b DEF Exists
  <2> QED
    BY <1>b, <2>1, SilenceKeepsWhole
<1>1. ASSUME NEW r \in Req, Act(r) PROVE Whole'
  <2>1. CASE \/ AddConversation(r) \/ EditConversation(r) \/ RemoveConversation(r)
             \/ EnsureConversation(r)
    BY <2>1, MakingKeepsWhole
  <2>2. CASE RecordExchange(r)
    BY <2>2, RecordingKeepsWhole
  <2>3. CASE SupabaseAddMessages(r)
    BY <2>3, PostingKeepsWhole
  <2>5. CASE OracleInsertReply(r) \/ OracleCommit(r) \/ RollsBack(r)
    BY <2>5, TransactionKeepsWhole
  <2>4. CASE /\ ~Writes(r)
             /\ \/ \E u \in Users : Begin(r, u)
                \/ ReadContext(r) \/ RetrieveContext(r) \/ SendMessage(r) \/ SupabaseTouch(r)
                \/ FileStep(r) \/ ReadStep(r) \/ RecordEvent(r) \/ FailsOutside(r)
    <3>1. UNCHANGED <<conversations, messages>>
      BY <2>4, OtherStepsTouchNone
    <3>2. \A p \in Req : Quiet(p)
      BY <1>1, <2>4, NobodyComesToAnswer
    <3>3. UNCHANGED data
      BY <1>1, ActKeepsConfig DEF config
    <3> QED
      BY <1>b, <3>1, <3>2, <3>3
  <2> QED
    BY <1>1, <2>1, <2>2, <2>3, <2>4, <2>5
       DEF Act, ConversationStep, Writes, RollsBack, FailsOutside
<1>2. CASE Restart
  <2>0. /\ \A p \in Req : req'[p] = Blank /\ req'[p].pc # "reply"
        /\ \A p \in Req, c \in Conversations : Lent(req'[p], c) = 0
    BY <1>2, BlankKnows DEF Restart, Lent
  <2>1. CASE data = "memory"
    <3>1. \A c \in Conversations : messages'[c] = <<>>
      BY <1>2, <2>1 DEF Restart
    <3>2. \A c \in Conversations : Paired(messages'[c]) /\ Answered(messages'[c])
      BY <3>1, SilenceIsWhole
    <3> QED
      BY <1>2, <2>0, <2>1, <3>1, <3>2 DEF Whole, WholeIn, Restart, config
  <2>2. CASE data # "memory"
    \* What Oracle had not committed is undone.
    <3>1. /\ UNCHANGED <<data, conversations>>
          /\ messages' = [c \in Conversations |-> Settle(messages[c], Req, "undone")]
      BY <1>2, <2>2 DEF Restart, config
    <3>2. ASSUME NEW c \in Conversations
          PROVE  /\ Exists(conversations, c)' \/ messages'[c] = <<>>
                 /\ Answered(messages'[c])
                 /\ data' = "oracle" => \A p \in Req : Even(messages'[c], p, 0)
      <4>1. PICK ms \in Seq(Message) : ms = messages[c]
        BY DEF Inv, TypeOK
      <4>2. PICK set \in Seq(Message) :
                set = Settle(ms, Req, "undone") /\ set = messages'[c] /\ Len(set) = Len(ms)
        BY <3>1, <4>1, SettleIs
      <4>3. Answered(ms) /\ (Exists(conversations, c) \/ ms = <<>>)
        BY <4>1 DEF Whole, WholeIn
      <4>4. Answered(set)
        BY <4>2, <4>3, EndSpeaks
      <4>5. ASSUME data = "oracle", NEW p \in Req PROVE Even(set, p, 0)
        <5>1. PICK lent \in {0, 1} : Even(ms, p, lent)
          BY <4>1, <4>5 DEF Whole, WholeIn, Lent
        <5> QED
          BY <4>2, <4>3, <5>1, EndSpeaks
      <4>6. ms = <<>> => set = <<>>
        BY <4>2
      <4> QED
        BY <3>1, <4>2, <4>3, <4>4, <4>5, <4>6 DEF Exists
    <3> QED
      BY <2>0, <2>2, <3>1, <3>2 DEF Whole, WholeIn
  <2> QED
    BY <2>1, <2>2
<1>3. CASE UNCHANGED vars
  BY <1>3, <1>b DEF vars, stores, talk, config, Quiet
<1> QED
  BY <1>1, <1>2, <1>3 DEF Next, Act

\* Nothing was said at the beginning.
LEMMA InitWhole == Init => Whole
<1> SUFFICES ASSUME Init PROVE Whole
  OBVIOUS
<1>1. \A c \in Conversations : messages[c] = <<>>
  BY DEF Init
<1>2. \A c \in Conversations :
         /\ Paired(messages[c]) /\ Answered(messages[c])
         /\ \A r \in Req : Even(messages[c], r, 0)
  BY <1>1, SilenceIsWhole
<1>3. \A r \in Req : req[r].pc # "reply" /\ \A c \in Conversations : Lent(req[r], c) = 0
  BY BlankKnows DEF Init, Lent
<1> QED
  BY <1>1, <1>2, <1>3 DEF Whole, WholeIn

\* Exchanges that are recorded at once, or in a conversation that is deleted
\* meanwhile, stay whole: no answer stands before its question, in memory it is next
\* to it, and in Oracle neither is read without the other.
THEOREM ExchangesAreWholeHolds == Spec => []ExchangesAreWhole
<1>1. Whole => ExchangesAreWhole
  <2> SUFFICES ASSUME Whole, NEW c \in Conversations
               PROVE  /\ Exists(conversations, c) \/ messages[c] = <<>>
                      /\ data = "memory" =>
                            \A i \in 1 .. Len(messages[c]) :
                                IF i % 2 = 1
                                THEN /\ messages[c][i].role = "user" /\ i < Len(messages[c])
                                     /\ messages[c][i + 1] = Reply(messages[c][i].from)
                                ELSE messages[c][i].role = "assistant"
                      /\ data = "oracle" =>
                            \A r \in Req : Said(c, Question(r), Len(messages[c])) =
                                           Said(c, Reply(r), Len(messages[c]))
                      /\ \A r \in Req : \A n \in 1 .. Len(messages[c]) :
                            Said(c, Reply(r), n) <= Said(c, Question(r), n)
    BY DEF ExchangesAreWhole
  <2>1. WholeIn(c)
    BY DEF Whole
  <2>2. \A m, n : Said(c, m, n) = Heard(messages[c], m, n)
    BY DEF Said, Heard
  <2> QED
    BY <2>1, <2>2 DEF WholeIn, Paired, Answered, Follows, Even
<1>2. Spec => []Whole
  BY InitWhole, NextWhole, InvHolds, PTL DEF Spec
<1> QED
  BY <1>1, <1>2, PTL
=============================================================================
