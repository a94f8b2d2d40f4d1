----------------------------- MODULE Workspace -----------------------------
(***************************************************************************)
(* Conversations, the chat, files and the search over them, as the API      *)
(* serves them: the requests of several threads run between each other's    *)
(* store calls, in one process (backend/Dockerfile) that may be restarted.  *)
(* A step is one store call, disk call or model call with what is decided   *)
(* on its result.  The account of the caller was resolved before            *)
(* (Directory).  Of an answer whose it is is kept; pages are left out.        *)
(***************************************************************************)
EXTENDS WorkspaceStores

CONSTANTS
    Deployments,    \* bound: <<DATA_STORE, RETRIEVAL_PROVIDER, who calls which routes>>
    Derived,        \* the title of a conversation that a chat begins
    MaxMessages,    \* bound: no exchange starts in a longer conversation; a row
                    \* that was rolled back counts
    MaxRestarts     \* bound

Operation == {"create", "rename", "remove", "chat", "upload", "delete",
              "conversations", "messages", "files", "file", "events"}

ASSUME WorkspaceAssumption ==
    /\ Deployments \subseteq ({"memory", "oracle", "supabase"} \X {"memory", "oracle"}
                                 \X SUBSET (Operation \X Users))
    /\ Derived \in Titles
    /\ MaxMessages \in Nat /\ MaxRestarts \in Nat

VARIABLES
    routes,      \* bound: <<operation, account>> in use
    req,         \* [Req -> Request]
    restarts,    \* bound and history: restarts of the process
    stripped     \* history: files a deletion has taken the chunks of

config == <<data, retrieval, routes>>
talk   == <<conversations, messages>>
stores == <<talk, files, disk, chunks, log>>
vars   == <<config, stores, req, restarts, stripped>>

\* pc: the call that comes next; shown: the accounts and organizations whose own
\* what the request has read is.
CallPC == {"idle", "create", "rename", "remove", "ensure", "context", "retrieve", "generate",
           "record", "insert", "commit", "question", "reply", "touch",
           "check", "disk", "row", "index", "status",
           "look", "chunks", "forget", "unlink", "audit",
           "owner", "list", "answer"}

Request == [pc : CallPC, op : Operation \cup {None}, by : Users \cup {None},
            conversation : Conversations \cup {None}, title : Titles \cup {None},
            file : Files \cup {None}, path : Paths \cup {None}, indexed : BOOLEAN,
            shown : SUBSET (Orgs \cup Users)]

Blank == [pc |-> "idle", op |-> None, by |-> None, conversation |-> None, title |-> None,
          file |-> None, path |-> None, indexed |-> FALSE, shown |-> {}]

At(r, pc)   == req[r].pc = pc
Park(r, pc) == req' = [req EXCEPT ![r].pc = pc]
Answer(r)   == req' = [req EXCEPT ![r] = Blank]
OrgOfCaller(r) == OrgOf[req[r].by]

-----------------------------------------------------------------------------
(* Requests.  add_file is a coroutine that calls upload_file itself: while   *)
(* it runs, the event loop hands no other request to a thread.  Those that   *)
(* were handed over go on.                                                  *)

LoopIsFree == \A r \in Req : req[r].op # "upload"

Calls(u) ==
    LET call == [Blank EXCEPT !.by = u]
    IN  {[call EXCEPT !.op = "create", !.pc = "create", !.title = t] : t \in Titles}
        \cup {[call EXCEPT !.op = "rename", !.pc = "rename",
                           !.conversation = edit[1], !.title = edit[2]] :
                 edit \in Conversations \X Titles}
        \cup {[call EXCEPT !.op = "remove", !.pc = "remove", !.conversation = c] :
                 c \in Conversations}
        \cup {[call EXCEPT !.op = "chat", !.pc = "ensure", !.conversation = c] :
                 c \in {d \in Conversations : Len(messages[d]) < MaxMessages} \cup {None}}
        \cup {[call EXCEPT !.op = "upload", !.pc = "check", !.conversation = c] :
                 c \in Conversations \cup {None}}
        \cup {[call EXCEPT !.op = "delete", !.pc = "look", !.file = f] : f \in Files}
        \cup {[call EXCEPT !.op = "messages", !.pc = "owner", !.conversation = c] :
                 c \in Conversations}
        \cup {[call EXCEPT !.op = "files", !.pc = "owner", !.conversation = c] :
                 c \in Conversations \cup {None}}
        \cup {[call EXCEPT !.op = "file", !.pc = "list", !.file = f] : f \in Files}
        \cup {[call EXCEPT !.op = op, !.pc = "list"] : op \in {"conversations", "events"}}

\* Bound: an id that nothing was given yet names nothing later either, except
\* for a file: its deletion may wait in a thread while it is uploaded.
Named(q) == q.conversation # None => conversations[q.conversation] # None

Begin(r, u) ==
    /\ At(r, "idle") /\ LoopIsFree
    /\ \E q \in Calls(u) : <<q.op, u>> \in routes /\ Named(q) /\ req' = [req EXCEPT ![r] = q]
    /\ UNCHANGED <<config, stores, restarts, stripped>>

-----------------------------------------------------------------------------
(* Conversations.                                                          *)

AddConversation(r) ==
    /\ At(r, "create")
    /\ \E c \in Conversations : CreateConversation(c, req[r].by, req[r].title)
    /\ Answer(r)
    /\ UNCHANGED <<config, files, disk, chunks, log, restarts, stripped>>

EditConversation(r) ==
    LET c == req[r].conversation
        u == req[r].by
    IN  /\ At(r, "rename")
        /\ \/ RenameConversation(c, u, req[r].title)
           \/ ~Owned(c, u) /\ UNCHANGED conversations
        /\ Answer(r)
        /\ UNCHANGED <<config, messages, files, disk, chunks, log, restarts, stripped>>

RemoveConversation(r) ==
    LET c == req[r].conversation
        u == req[r].by
    IN  /\ At(r, "remove")
        /\ \/ DeleteConversation(c, u) /\ Park(r, "audit")
           \/ ~Owned(c, u) /\ Answer(r) /\ UNCHANGED <<talk, files>>
        /\ UNCHANGED <<config, disk, chunks, log, restarts, stripped>>

-----------------------------------------------------------------------------
(* The chat: the conversation, its last messages, the search, the model, the *)
(* exchange.                                                                *)

EnsureConversation(r) ==
    LET c == req[r].conversation
        u == req[r].by
    IN  /\ At(r, "ensure")
        /\ \/ c # None /\ Owned(c, u) /\ Park(r, "context") /\ UNCHANGED talk
           \/ c # None /\ ~Owned(c, u) /\ Answer(r) /\ UNCHANGED talk
           \/ /\ c = None
              /\ \E d \in Conversations :
                    /\ CreateConversation(d, u, Derived)
                    /\ req' = [req EXCEPT ![r].pc = "context", ![r].conversation = d]
        /\ UNCHANGED <<config, files, disk, chunks, log, restarts, stripped>>

WhoseMessages(c, o) == IF ListMessages(c, o) = <<>> THEN {} ELSE {conversations[c].owner}

\* A conversation deleted meanwhile is one without messages.
ReadContext(r) ==
    /\ At(r, "context")
    /\ req' = [req EXCEPT ![r].pc = "retrieve",
                          ![r].shown = WhoseMessages(req[r].conversation, OrgOfCaller(r))]
    /\ UNCHANGED <<config, stores, restarts, stripped>>

\* A search that fails is an answer without sources.
RetrieveContext(r) ==
    /\ At(r, "retrieve")
    /\ \E found \in {Search(OrgOfCaller(r)), {}} :
          req' = [req EXCEPT ![r].pc = "generate", ![r].shown = @ \cup {k[1] : k \in found}]
    /\ UNCHANGED <<config, stores, restarts, stripped>>

\* ModelProviderError: nothing is recorded, a conversation made above stays.
SendMessage(r) ==
    /\ At(r, "generate")
    /\ (Park(r, "record") \/ Answer(r))
    /\ UNCHANGED <<config, stores, restarts, stripped>>

\* A conversation deleted meanwhile: the answer is lost with the exchange.
RecordExchange(r) ==
    LET c == req[r].conversation
        o == OrgOfCaller(r)
    IN  /\ At(r, "record")
        /\ \/ data = "memory" /\ MemoryAddMessages(c, o, r) /\ Answer(r)
           \/ data = "oracle" /\ OracleInsertMessage(c, Question(r)) /\ Park(r, "insert")
           \/ data = "supabase" /\ InScope(c, o) /\ Park(r, "question") /\ UNCHANGED messages
           \/ ~Exists(conversations, c) /\ Answer(r) /\ UNCHANGED messages
        /\ UNCHANGED <<config, conversations, files, disk, chunks, log, restarts, stripped>>

\* Mutant: the question is committed by itself.
OracleInsertReplyAlone(r) ==
    LET c == req[r].conversation
    IN  /\ At(r, "insert")
        /\ Exists(conversations, c)
        /\ messages' = [messages EXCEPT ![c] = Settle(@, {r}, "kept") \o <<Open(Reply(r))>>]
        /\ Park(r, "commit")
        /\ UNCHANGED <<config, conversations, files, disk, chunks, log, restarts, stripped>>

OracleInsertReply(r) ==
    /\ At(r, "insert")
    /\ OracleInsertMessage(req[r].conversation, Reply(r)) /\ Park(r, "commit")
    /\ UNCHANGED <<config, conversations, files, disk, chunks, log, restarts, stripped>>

\* updated_at goes with it.
OracleCommit(r) ==
    /\ At(r, "commit")
    /\ OracleEnd(req[r].conversation, r, "kept") /\ Answer(r)
    /\ UNCHANGED <<config, conversations, files, disk, chunks, log, restarts, stripped>>

SupabaseAddMessages(r) ==
    /\ At(r, "question") \/ At(r, "reply")
    /\ \/ /\ SupabaseInsertMessage(req[r].conversation,
                                   IF At(r, "question") THEN Question(r) ELSE Reply(r))
          /\ Park(r, IF At(r, "question") THEN "reply" ELSE "touch")
       \/ ~Exists(conversations, req[r].conversation) /\ Answer(r) /\ UNCHANGED messages
    /\ UNCHANGED <<config, conversations, files, disk, chunks, log, restarts, stripped>>

\* updated_at alone.
SupabaseTouch(r) ==
    At(r, "touch") /\ Answer(r) /\ UNCHANGED <<config, stores, restarts, stripped>>

-----------------------------------------------------------------------------
(* Uploads: the disk, the record, the index, the status.                   *)

CheckConversation(r) ==
    LET c == req[r].conversation
    IN  /\ At(r, "check")
        /\ \/ (c = None \/ Owned(c, req[r].by)) /\ Park(r, "disk")
           \/ c # None /\ ~Owned(c, req[r].by) /\ Answer(r)
        /\ UNCHANGED <<config, stores, restarts, stripped>>

\* uuid4: a path that nothing holds and nobody knows.
IsFresh(p) ==
    /\ p \notin disk /\ \A r \in Req : req[r].path # p
    /\ \A f \in Files : Exists(files, f) => files[f].path # p

\* Mutant: a disk that cannot be written is not noticed.
WriteOrNot(r) ==
    /\ At(r, "disk")
    /\ \E p \in Paths :
          /\ IsFresh(p)
          /\ (disk' = disk \cup {p} \/ UNCHANGED disk)
          /\ req' = [req EXCEPT ![r].pc = "row", ![r].path = p]
    /\ UNCHANGED <<config, talk, files, chunks, log, restarts, stripped>>

WriteBytes(r) ==
    /\ At(r, "disk")
    /\ \/ \E p \in Paths : /\ IsFresh(p) /\ disk' = disk \cup {p}
                           /\ req' = [req EXCEPT ![r].pc = "row", ![r].path = p]
       \/ Answer(r) /\ UNCHANGED disk
    /\ UNCHANGED <<config, talk, files, chunks, log, restarts, stripped>>

\* A refused record leaves the file that was written.
RecordFile(r) ==
    LET c == req[r].conversation
    IN  /\ At(r, "row")
        /\ \/ \E f \in Files : /\ CreateFile(f, req[r].by, c, req[r].path)
                               /\ req' = [req EXCEPT ![r].pc = "index", ![r].file = f]
           \/ /\ data # "memory" /\ c # None /\ ~Exists(conversations, c)
              /\ Answer(r) /\ UNCHANGED files
        /\ UNCHANGED <<config, talk, disk, chunks, log, restarts, stripped>>

\* Any failure, from the extraction of the text to the save, is swallowed.
IndexForSearch(r) ==
    /\ At(r, "index")
    /\ \/ /\ SaveChunks(req[r].file, OrgOfCaller(r))
          /\ req' = [req EXCEPT ![r].pc = "status", ![r].indexed = TRUE]
       \/ Park(r, "status") /\ UNCHANGED chunks
    /\ UNCHANGED <<config, talk, files, disk, log, restarts, stripped>>

StatusOf(q) == IF q.indexed THEN "processed" ELSE "failed"

\* A record that was deleted meanwhile changes no row, and the upload is
\* answered with what it was.
MarkFile(r) ==
    LET f      == req[r].file
        status == StatusOf(req[r])
    IN  /\ At(r, "status")
        /\ \/ SetStatus(f, OrgOfCaller(r), status) /\ Park(r, "audit")
           \/ /\ data = "supabase" /\ ~SupabaseTakesStatus(status)
              /\ Answer(r) /\ UNCHANGED files
           \/ /\ data = "supabase" => SupabaseTakesStatus(status)
              /\ ~GetFile(f, OrgOfCaller(r)) /\ Park(r, "audit") /\ UNCHANGED files
        /\ UNCHANGED <<config, talk, disk, chunks, log, restarts, stripped>>

-----------------------------------------------------------------------------
(* Deletions: the record, the chunks, the row, the disk.                   *)

CanModify(u, f) == files[f].by = u \/ u \in Admins

LookUpFile(r) ==
    LET f == req[r].file
    IN  /\ At(r, "look")
        /\ IF GetFile(f, OrgOfCaller(r)) /\ CanModify(req[r].by, f)
           THEN req' = [req EXCEPT ![r].pc = "chunks", ![r].path = files[f].path]
           ELSE Answer(r)
        /\ UNCHANGED <<config, stores, restarts, stripped>>

\* Mutant: the chunks are left to the foreign key.
DropNothing(r) ==
    /\ At(r, "chunks") /\ Park(r, "forget")
    /\ UNCHANGED <<config, stores, restarts, stripped>>

\* A chunk store that is out of order does not keep the record.
DropChunks(r) ==
    LET f == req[r].file
    IN  /\ At(r, "chunks") /\ Park(r, "forget")
        /\ \/ DeleteFileChunks(f, OrgOfCaller(r)) /\ stripped' = stripped \cup {f}
           \/ retrieval = "oracle" /\ UNCHANGED <<chunks, stripped>>
        /\ UNCHANGED <<config, talk, files, disk, log, restarts>>

\* The row may be gone already: what delete_file answers is not looked at.
ForgetFile(r) ==
    LET f == req[r].file
    IN  /\ At(r, "forget") /\ Park(r, "unlink")
        /\ \/ GetFile(f, OrgOfCaller(r)) /\ DeleteFile(f)
           \/ ~GetFile(f, OrgOfCaller(r)) /\ UNCHANGED <<files, chunks>>
        /\ UNCHANGED <<config, talk, disk, log, restarts, stripped>>

\* An OSError is swallowed.
UnlinkFile(r) ==
    /\ At(r, "unlink") /\ Park(r, "audit")
    /\ (disk' = disk \ {req[r].path} \/ UNCHANGED disk)
    /\ UNCHANGED <<config, talk, files, chunks, log, restarts, stripped>>

-----------------------------------------------------------------------------
(* Reads.  The messages are asked for by conversation and organization: the  *)
(* account is looked at before, in a call of its own.                       *)

CheckReader(r) ==
    LET c == req[r].conversation
    IN  /\ At(r, "owner")
        /\ \/ (c = None \/ Owned(c, req[r].by)) /\ Park(r, "list")
           \/ c # None /\ ~Owned(c, req[r].by) /\ Answer(r)
        /\ UNCHANGED <<config, stores, restarts, stripped>>

Show(r, op, whose) ==
    /\ At(r, "list") /\ req[r].op = op
    /\ req' = [req EXCEPT ![r].pc = "answer", ![r].shown = whose]
    /\ UNCHANGED <<config, stores, restarts, stripped>>

ReadConversations(r) ==
    Show(r, "conversations", {conversations[c].owner : c \in ListConversations(req[r].by)})

ReadMessages(r) ==
    Show(r, "messages", WhoseMessages(req[r].conversation, OrgOfCaller(r)))

\* Files are shared in the organization.
ReadFiles(r) ==
    Show(r, "files", {files[f].org : f \in ListFiles(OrgOfCaller(r), req[r].conversation)})

ReadFile(r) ==
    Show(r, "file", IF GetFile(req[r].file, OrgOfCaller(r)) THEN {files[req[r].file].org} ELSE {})

ReadAuditLogs(r) ==
    Show(r, "events",
         IF req[r].by \in Admins THEN {e.org : e \in ListEvents(OrgOfCaller(r))} ELSE {})

Shown(r) ==
    At(r, "answer") /\ Answer(r) /\ UNCHANGED <<config, stores, restarts, stripped>>

-----------------------------------------------------------------------------
\* Mutant: every deletion is told as that of a file.
ToldAsFile(q) == IF q.op = "upload" THEN <<"file_uploaded", q.file>>
                 ELSE <<"file_deleted", q.file>>

\* What the request did.
Told(q) == IF q.op = "remove" THEN <<"conversation_deleted", q.conversation>>
           ELSE IF q.op = "upload" THEN <<"file_uploaded", q.file>>
           ELSE <<"file_deleted", q.file>>

\* record() swallows its failure; the memory store has none.
RecordEvent(r) ==
    /\ At(r, "audit") /\ Answer(r)
    /\ \/ AppendEvent(req[r].by, Told(req[r]))
       \/ data # "memory" /\ UNCHANGED log
    /\ UNCHANGED <<config, talk, files, disk, chunks, restarts, stripped>>

\* Outside the memory of the process any store call may fail, before its commit
\* or after it: what failed after the commit is the next call that never comes.
\* A transaction under way is rolled back; it may have waited for a deletion that
\* waits for its rows (ORA-00060).
CallFails(r) ==
    /\ ~At(r, "idle") /\ data # "memory"
    /\ IF req[r].pc \in {"insert", "commit"} THEN OracleEnd(req[r].conversation, r, "undone")
       ELSE UNCHANGED messages
    /\ Answer(r)
    /\ UNCHANGED <<config, conversations, files, disk, chunks, log, restarts, stripped>>

\* The process dies between two calls and is started again, with the stores in
\* its memory empty; Oracle rolls back what was not committed.
Restart ==
    /\ restarts < MaxRestarts /\ restarts' = restarts + 1
    /\ req' = [r \in Req |-> Blank]
    /\ IF data = "memory"
       THEN /\ conversations' = [c \in Conversations |-> None]
            /\ messages' = [c \in Conversations |-> <<>>]
            /\ files' = [f \in Files |-> None]
            /\ log' = {} /\ stripped' = {}
       ELSE /\ messages' = [c \in Conversations |-> Settle(messages[c], Req, "undone")]
            /\ UNCHANGED <<conversations, files, log, stripped>>
    /\ chunks' = IF retrieval = "memory" THEN {} ELSE chunks
    /\ UNCHANGED <<config, disk>>

-----------------------------------------------------------------------------
Init ==
    /\ \E d \in Deployments : data = d[1] /\ retrieval = d[2] /\ routes = d[3]
    /\ conversations = [c \in Conversations |-> None]
    /\ messages = [c \in Conversations |-> <<>>]
    /\ files = [f \in Files |-> None]
    /\ disk = {} /\ chunks = {} /\ log = {}
    /\ req = [r \in Req |-> Blank]
    /\ restarts = 0 /\ stripped = {}

ConversationStep(r) ==
    \/ AddConversation(r) \/ EditConversation(r) \/ RemoveConversation(r)
    \/ EnsureConversation(r) \/ ReadContext(r) \/ RetrieveContext(r) \/ SendMessage(r)
    \/ RecordExchange(r) \/ OracleInsertReply(r) \/ OracleCommit(r)
    \/ SupabaseAddMessages(r) \/ SupabaseTouch(r)

FileStep(r) ==
    \/ CheckConversation(r) \/ WriteBytes(r) \/ RecordFile(r)
    \/ IndexForSearch(r) \/ MarkFile(r)
    \/ LookUpFile(r) \/ DropChunks(r) \/ ForgetFile(r) \/ UnlinkFile(r)

ReadStep(r) ==
    \/ CheckReader(r) \/ ReadConversations(r) \/ ReadMessages(r)
    \/ ReadFiles(r) \/ ReadFile(r) \/ ReadAuditLogs(r) \/ Shown(r)

Next ==
    \/ \E r \in Req : \/ \E u \in Users : Begin(r, u)
                      \/ ConversationStep(r) \/ FileStep(r) \/ ReadStep(r)
                      \/ RecordEvent(r) \/ CallFails(r)
    \/ Restart

Spec == Init /\ [][Next]_vars

-----------------------------------------------------------------------------
TypeOK ==
    /\ <<data, retrieval, routes>> \in Deployments
    /\ conversations \in [Conversations -> ConversationRow \cup {None, Deleted}]
    /\ messages \in [Conversations -> Seq(Message)]
    /\ files \in [Files -> FileRow \cup {None, Deleted}]
    /\ disk \subseteq Paths
    /\ chunks \subseteq Orgs \X Files
    /\ log \subseteq Event
    /\ req \in [Req -> Request]
    /\ restarts \in 0 .. MaxRestarts
    /\ stripped \subseteq Files

\* How many questions or answers of r stand among the first n messages.
Said(c, m, n) == Cardinality({i \in 1 .. n : messages[c][i] = m})

\* Two exchanges recorded at once in one conversation, a conversation deleted or a
\* process killed while its exchange is recorded: in memory a question is followed
\* by its own answer; in Oracle, where other exchanges may stand between the two,
\* neither is ever read without the other; in no store does an answer come before
\* its question; and a deleted conversation has no messages (record_exchange,
\* add_messages; "one transaction": database/conversations.py:304-306).
ExchangesAreWhole ==
    \A c \in Conversations :
        /\ Exists(conversations, c) \/ messages[c] = <<>>
        /\ data = "memory" =>
              \A i \in 1 .. Len(messages[c]) :
                  IF i % 2 = 1
                  THEN /\ messages[c][i].role = "user" /\ i < Len(messages[c])
                       /\ messages[c][i + 1] = Reply(messages[c][i].from)
                  ELSE messages[c][i].role = "assistant"
        /\ data = "oracle" =>
              \A r \in Req : LET n == Len(messages[c])
                            IN  Said(c, Question(r), n) = Said(c, Reply(r), n)
        /\ \A r \in Req : \A n \in 1 .. Len(messages[c]) :
              Said(c, Reply(r), n) <= Said(c, Question(r), n)

OwnerInside ==
    \A r \in Req : /\ req[r].pc \in {"context", "retrieve", "generate", "record", "insert",
                                    "commit", "question", "reply", "touch"}
                   /\ Exists(conversations, req[r].conversation)
                   => conversations[req[r].conversation].owner = req[r].by

ShownIsOurs ==
    \A r \in Req : req[r].shown # {} => req[r].shown \subseteq {req[r].by, OrgOfCaller(r)}

OwnerActs(c) ==
    \/ ~Exists(conversations, c)
    \/ <<conversations[c], messages[c]>>' = <<conversations[c], messages[c]>>
    \/ restarts' # restarts
    \/ \E r \in Req : req'[r] # req[r] /\ req[r].by = conversations[c].owner

\* A conversation is its owner's alone: whatever runs at once, only his requests
\* rename, delete or extend it, get as far as asking the model in it, or read its
\* messages, which are asked for without him; and no answer holds a source, a
\* file or an event of another organization (_owned, get_conversation, search).
ConversationIsPrivate ==
    [](OwnerInside /\ ShownIsOurs) /\ [][\A c \in Conversations : OwnerActs(c)]_vars

RecordsHaveTheirFile == \A f \in Files : Exists(files, f) => files[f].path \in disk

ProcessedIsIndexed ==
    \A f \in Files :
        Exists(files, f) /\ files[f].status = "processed" =>
            \/ <<files[f].org, f>> \in chunks
            \/ f \in stripped
            \/ restarts > 0 /\ retrieval = "memory"

\* A record always leads to its file: it is made after the file was written and
\* removed before the file is, by whichever request.  What it calls processed the
\* search finds, until a deletion takes the chunks or the store that held them
\* was in the memory of a process that is gone (upload_file, delete_file).
RecordsAreTrue == RecordsHaveTheirFile /\ ProcessedIsIndexed

Outliving == {k \in chunks : ~Exists(files, k[2])}

\* Chunks outlive their file only where no foreign key binds them, and only when
\* an upload that had not ended saved them after the deletion had taken what was
\* there (delete_file takes the chunks before the record).
OnlyLateChunksOutlive ==
    [][\A k \in Outliving' \ Outliving : retrieval = "memory" /\ k[2] \in stripped]_vars

=============================================================================
