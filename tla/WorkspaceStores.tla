-------------------------- MODULE WorkspaceStores --------------------------
(***************************************************************************)
(* What an organization keeps: conversations with their messages, the      *)
(* records of uploaded files, the files on the disk of the server and the  *)
(* chunks the search finds them by.  DATA_STORE picks the store of the     *)
(* first two (memory, Oracle, Supabase), RETRIEVAL_PROVIDER that of the    *)
(* chunks (memory, Oracle).  A write is the step that commits it; a store  *)
(* that refuses is a guard that fails.  Texts and embeddings are left out:  *)
(* a message is its role and the thread whose exchange it belongs to, the  *)
(* chunks of a file are one member of a set.  The rows that Oracle has not  *)
(* committed yet stand where they will be read.                            *)
(***************************************************************************)
EXTENDS Integers, Sequences, FiniteSets

CONSTANTS
    Orgs, Users, OrgOf, Admins,   \* the accounts: OrgOf[u], and who is admin
    Conversations, Titles,
    Files, Paths,                 \* ids of records, paths on the disk
    Req,                          \* threads that serve requests
    None, Deleted

ASSUME StoreAssumption ==
    /\ OrgOf \in [Users -> Orgs] /\ Admins \subseteq Users
    /\ Conversations \subseteq Nat /\ Files \subseteq Nat
    /\ {None, Deleted} \cap (Users \cup Titles \cup Paths \cup Nat) = {}
    /\ None # Deleted

VARIABLES
    data,           \* settings.data_store
    retrieval,      \* settings.retrieval_provider
    conversations,  \* id -> row, None before it is given out, Deleted afterwards
    messages,       \* id -> the messages in the order of (created_at, id)
    files,          \* id -> row, None or Deleted
    disk,           \* paths that hold a file
    log,            \* the audit log
    chunks          \* <<organization, file>>: what the search can find

Statuses == {"pending", "uploaded", "processed", "failed"}

ConversationRow == [owner : Users, title : Titles]

\* row: what became of it in the transaction that inserted it.
Message == [role : {"user", "assistant"}, from : Req, row : {"open", "kept", "undone"}]

FileRow == [org : Orgs, by : Users, conversation : Conversations \cup {None},
            path : Paths, status : Statuses]

Event == [org : Orgs, by : Users, of : {"conversation_deleted"} \X Conversations
                                       \cup {"file_uploaded", "file_deleted"} \X Files]

\* A row is not a missing one.
ASSUME RowsAreFresh == {None, Deleted} \cap (ConversationRow \cup FileRow) = {}

Exists(table, id) == id # None /\ table[id] \notin {None, Deleted}

\* Ids are given out in order: _next_conversation_id, _next_id, IDENTITY.
IsNext(table, id) == table[id] = None /\ \A k \in DOMAIN table : k < id => table[k] # None

-----------------------------------------------------------------------------
(* Conversations: every read and write but add_messages asks for the owner. *)

\* Mutant: the row is looked up by its id alone.
OwnedAnywhere(c, u) == Exists(conversations, c)

Owned(c, u) == Exists(conversations, c) /\ conversations[c].owner = u

MemoryCreateConversation(c, u, t) ==
    /\ IsNext(conversations, c)
    /\ conversations' = [conversations EXCEPT ![c] = [owner |-> u, title |-> t]]
    /\ messages' = [messages EXCEPT ![c] = <<>>]

OracleInsertConversation(c, u, t) ==
    /\ IsNext(conversations, c)
    /\ conversations' = [conversations EXCEPT ![c] = [owner |-> u, title |-> t]]
    /\ UNCHANGED messages

SupabaseCreateConversation(c, u, t) ==
    /\ IsNext(conversations, c)
    /\ conversations' = [conversations EXCEPT ![c] = [owner |-> u, title |-> t]]
    /\ UNCHANGED messages

CreateConversation(c, u, t) ==
    \/ data = "memory" /\ MemoryCreateConversation(c, u, t)
    \/ data = "oracle" /\ OracleInsertConversation(c, u, t)
    \/ data = "supabase" /\ SupabaseCreateConversation(c, u, t)

MemoryRenameConversation(c, u, t) ==
    Owned(c, u) /\ conversations' = [conversations EXCEPT ![c].title = t]

\* UPDATE ... WHERE id = :id AND organization_id = :org AND user_id = :user
OracleUpdateTitle(c, u, t) ==
    /\ Exists(conversations, c) /\ conversations[c].owner = u
    /\ conversations' = [conversations EXCEPT ![c].title = t]

SupabaseRenameConversation(c, u, t) ==
    Owned(c, u) /\ conversations' = [conversations EXCEPT ![c].title = t]

RenameConversation(c, u, t) ==
    \/ data = "memory" /\ MemoryRenameConversation(c, u, t)
    \/ data = "oracle" /\ OracleUpdateTitle(c, u, t)
    \/ data = "supabase" /\ SupabaseRenameConversation(c, u, t)

Forget(c) ==
    /\ conversations' = [conversations EXCEPT ![c] = Deleted]
    /\ messages' = [messages EXCEPT ![c] = <<>>]

\* The records of the conversation's files keep its id.
MemoryDeleteConversation(c, u) == Owned(c, u) /\ Forget(c) /\ UNCHANGED files

\* fk_messages_conversation ON DELETE CASCADE, fk_files_conversation ON DELETE
\* SET NULL; the same in the schema of Supabase.
UnlinkFiles(c) ==
    [f \in Files |-> IF Exists(files, f) /\ files[f].conversation = c
                     THEN [files[f] EXCEPT !.conversation = None] ELSE files[f]]

Settled(ms) == \A i \in 1 .. Len(ms) : ms[i].row # "open"

\* The foreign key makes it wait for the rows of a transaction under way.
OracleDeleteConversation(c, u) ==
    /\ Exists(conversations, c) /\ conversations[c].owner = u
    /\ Settled(messages[c])
    /\ Forget(c) /\ files' = UnlinkFiles(c)

SupabaseDeleteConversation(c, u) == Owned(c, u) /\ Forget(c) /\ files' = UnlinkFiles(c)

DeleteConversation(c, u) ==
    \/ data = "memory" /\ MemoryDeleteConversation(c, u)
    \/ data = "oracle" /\ OracleDeleteConversation(c, u)
    \/ data = "supabase" /\ SupabaseDeleteConversation(c, u)

-----------------------------------------------------------------------------
(* add_messages: the question and the answer of an exchange.  It asks for   *)
(* the organization only: the service read the conversation before.         *)

InScope(c, o) == Exists(conversations, c) /\ OrgOf[conversations[c].owner] = o

Question(r) == [role |-> "user", from |-> r, row |-> "kept"]
Reply(r)    == [role |-> "assistant", from |-> r, row |-> "kept"]

Say(c, ms) == messages' = [messages EXCEPT ![c] = @ \o ms]

MemoryAddMessages(c, o, r) == InScope(c, o) /\ Say(c, <<Question(r), Reply(r)>>)

\* A row for each message, in one transaction: each is given its id and its time
\* when it is inserted, with nothing that keeps another exchange from coming
\* between.  The foreign key refuses a conversation that is gone.
Open(m) == [m EXCEPT !.row = "open"]

OracleInsertMessage(c, m) == Exists(conversations, c) /\ Say(c, <<Open(m)>>)

\* The end of the transactions of rs: the commit, or the rollback on the release
\* of the connection.
Settle(ms, rs, row) ==
    [i \in 1 .. Len(ms) |->
        IF ms[i].row = "open" /\ ms[i].from \in rs THEN [ms[i] EXCEPT !.row = row] ELSE ms[i]]

OracleEnd(c, r, row) == messages' = [messages EXCEPT ![c] = Settle(@, {r}, row)]

\* One POST for each message, and the foreign key again.
SupabaseInsertMessage(c, m) == Exists(conversations, c) /\ Say(c, <<m>>)

\* What may be read.  _owned_messages asks for the conversation, Oracle and
\* Supabase for the organization each message was written with.
MemoryConversations(u) == {c \in Conversations : Owned(c, u)}

OracleFetchConversations(u) == {c \in Conversations : Owned(c, u)}

SupabaseConversations(u) == {c \in Conversations : Owned(c, u)}

ListConversations(u) == CASE data = "memory" -> MemoryConversations(u)
                          [] data = "oracle" -> OracleFetchConversations(u)
                          [] data = "supabase" -> SupabaseConversations(u)

MemoryMessages(c, o) == IF InScope(c, o) THEN messages[c] ELSE <<>>

Committed(ms) == SelectSeq(ms, LAMBDA m : m.row = "kept")

OracleFetchMessages(c, o) == IF InScope(c, o) THEN Committed(messages[c]) ELSE <<>>

SupabaseMessages(c, o) == IF InScope(c, o) THEN messages[c] ELSE <<>>

ListMessages(c, o) == CASE data = "memory" -> MemoryMessages(c, o)
                        [] data = "oracle" -> OracleFetchMessages(c, o)
                        [] data = "supabase" -> SupabaseMessages(c, o)

-----------------------------------------------------------------------------
(* Files.                                                                  *)

GetFile(f, o) == Exists(files, f) /\ files[f].org = o

NewFile(u, c, p, status) ==
    [org |-> OrgOf[u], by |-> u, conversation |-> c, path |-> p, status |-> status]

MemoryCreateFile(f, u, c, p) ==
    IsNext(files, f) /\ files' = [files EXCEPT ![f] = NewFile(u, c, p, "pending")]

OracleInsertFile(f, u, c, p) ==
    /\ IsNext(files, f) /\ (c # None => Exists(conversations, c))
    /\ files' = [files EXCEPT ![f] = NewFile(u, c, p, "pending")]

SupabaseCreateFile(f, u, c, p) ==
    /\ IsNext(files, f) /\ (c # None => Exists(conversations, c))
    /\ files' = [files EXCEPT ![f] = NewFile(u, c, p, "uploaded")]

CreateFile(f, u, c, p) ==
    \/ data = "memory" /\ MemoryCreateFile(f, u, c, p)
    \/ data = "oracle" /\ OracleInsertFile(f, u, c, p)
    \/ data = "supabase" /\ SupabaseCreateFile(f, u, c, p)

MemorySetStatus(f, o, status) ==
    GetFile(f, o) /\ files' = [files EXCEPT ![f].status = status]

OracleUpdateStatus(f, o, status) ==
    /\ Exists(files, f) /\ files[f].org = o
    /\ files' = [files EXCEPT ![f].status = status]

\* The enum file_status holds no "processed": that PATCH is refused.
SupabaseTakesStatus(status) == status \in {"uploaded", "failed"}

SupabaseSetStatus(f, o, status) ==
    /\ SupabaseTakesStatus(status) /\ GetFile(f, o)
    /\ files' = [files EXCEPT ![f].status = status]

SetStatus(f, o, status) ==
    \/ data = "memory" /\ MemorySetStatus(f, o, status)
    \/ data = "oracle" /\ OracleUpdateStatus(f, o, status)
    \/ data = "supabase" /\ SupabaseSetStatus(f, o, status)

\* fk_chunks_file ON DELETE CASCADE binds the chunks of Oracle to Oracle's files.
MemoryDeleteFile(f) == files' = [files EXCEPT ![f] = Deleted] /\ UNCHANGED chunks

OracleDeleteFile(f) ==
    /\ files' = [files EXCEPT ![f] = Deleted]
    /\ chunks' = IF retrieval = "oracle" THEN {k \in chunks : k[2] # f} ELSE chunks

SupabaseDeleteFile(f) == files' = [files EXCEPT ![f] = Deleted] /\ UNCHANGED chunks

DeleteFile(f) ==
    \/ data = "memory" /\ MemoryDeleteFile(f)
    \/ data = "oracle" /\ OracleDeleteFile(f)
    \/ data = "supabase" /\ SupabaseDeleteFile(f)

\* of: the conversation the list is asked for, or None.
MemoryFiles(o, of) ==
    {f \in Files : GetFile(f, o) /\ (of # None => files[f].conversation = of)}

OracleFetchFiles(o, of) ==
    {f \in Files : GetFile(f, o) /\ (of # None => files[f].conversation = of)}

SupabaseFiles(o, of) ==
    {f \in Files : GetFile(f, o) /\ (of # None => files[f].conversation = of)}

ListFiles(o, of) == CASE data = "memory" -> MemoryFiles(o, of)
                      [] data = "oracle" -> OracleFetchFiles(o, of)
                      [] data = "supabase" -> SupabaseFiles(o, of)

-----------------------------------------------------------------------------
(* Chunks.  Neither search asks whether the memory store's file is there.   *)

MemorySearch(o) == {k \in chunks : k[1] = o}

OracleSearch(o) == {k \in chunks : k[1] = o /\ GetFile(k[2], o)}

Search(o) == IF retrieval = "memory" THEN MemorySearch(o) ELSE OracleSearch(o)

MemorySave(f, o) == chunks' = chunks \cup {<<o, f>>}

\* One transaction; fk_chunks_file refuses a file that Oracle does not hold.
OracleSaveChunks(f, o) ==
    data = "oracle" /\ Exists(files, f) /\ chunks' = chunks \cup {<<o, f>>}

SaveChunks(f, o) ==
    \/ retrieval = "memory" /\ MemorySave(f, o)
    \/ retrieval = "oracle" /\ OracleSaveChunks(f, o)

MemoryDeleteFileChunks(f, o) == chunks' = chunks \ {<<o, f>>}

OracleDeleteChunks(f, o) == chunks' = {k \in chunks : k # <<o, f>>}

DeleteFileChunks(f, o) ==
    \/ retrieval = "memory" /\ MemoryDeleteFileChunks(f, o)
    \/ retrieval = "oracle" /\ OracleDeleteChunks(f, o)

-----------------------------------------------------------------------------
(* The audit log: append only.  The three stores differ in how they fail.   *)

MemoryAppend(u, what) == log' = log \cup {[org |-> OrgOf[u], by |-> u, of |-> what]}

OracleInsertEvent(u, what) == log' = log \cup {[org |-> OrgOf[u], by |-> u, of |-> what]}

SupabaseAppend(u, what) == log' = log \cup {[org |-> OrgOf[u], by |-> u, of |-> what]}

AppendEvent(u, what) ==
    \/ data = "memory" /\ MemoryAppend(u, what)
    \/ data = "oracle" /\ OracleInsertEvent(u, what)
    \/ data = "supabase" /\ SupabaseAppend(u, what)

MemoryEvents(o) == {e \in log : e.org = o}

OracleFetchEvents(o) == {e \in log : e.org = o}

SupabaseEvents(o) == {e \in log : e.org = o}

ListEvents(o) == CASE data = "memory" -> MemoryEvents(o)
                   [] data = "oracle" -> OracleFetchEvents(o)
                   [] data = "supabase" -> SupabaseEvents(o)

=============================================================================
