----------------------------- MODULE ModelStore -----------------------------
(***************************************************************************)
(* The model file on the customer's disk.  One preparation at a time       *)
(* downloads it (RuntimeService!OneWorker) into a partial file, resumes    *)
(* what an earlier attempt left, verifies and renames; an API thread may   *)
(* cancel at any point and the Runtime may end at any point.  Meanwhile    *)
(* the vendor may replace the file behind the link and, later or earlier,  *)
(* the size and hash that the backend announces.                           *)
(*                                                                         *)
(* A file is the sequence of its chunks; a chunk is known by the version   *)
(* of the model that it was served from, so a hash matches exactly when    *)
(* every chunk is of the announced version and none is missing.            *)
(***************************************************************************)
EXTENDS Naturals, Sequences

CONSTANTS Version, Size, NoFile

ASSUME StoreAssumption ==
    /\ Size \in [Version -> Nat \ {0}]
    /\ NoFile \notin Seq(Version)

VARIABLES
    part,       \* the partial file
    model,      \* the installed file
    cancelled,  \* self._cancelled
    blob,       \* external: the version behind the link
    announced,  \* external: the version whose size and hash the backend gives
    job,        \* the download under way
    settled     \* external: nobody cancels, ends the Runtime or swaps files any more

vars == <<part, model, cancelled, blob, announced, job, settled>>

JobPC == {"idle", "reset", "space", "resume", "open", "stream", "verify", "hash", "install"}

\* want: the artifact asked for.  hashed: its hash was given.  src: the version that
\* is streamed.  at: chunks of the response taken so far, counted from the file's start.
Job == [pc : JobPC, want : Version, hashed : BOOLEAN, src : Version, at : Nat]

File == Seq(Version) \cup {NoFile}

TypeOK ==
    /\ part \in File
    /\ model \in File
    /\ cancelled \in BOOLEAN
    /\ blob \in Version
    /\ announced \in Version
    /\ job \in Job
    /\ settled \in BOOLEAN

Whole(v) == [i \in 1 .. Size[v] |-> v]

Unfinished(v) == {[i \in 1 .. n |-> v] : n \in 1 .. Size[v] - 1}

Init ==
    /\ part = NoFile /\ model = NoFile /\ cancelled = FALSE
    /\ blob \in Version /\ announced = blob
    /\ settled = FALSE
    /\ job = [pc |-> "idle", want |-> blob, hashed |-> TRUE, src |-> blob, at |-> 0]

-----------------------------------------------------------------------------
\* partial_bytes()
Partial == IF part = NoFile THEN 0 ELSE Len(part)

At(pc) == job.pc = pc

Goto(pc) == job' = [job EXCEPT !.pc = pc]

Unmoved == UNCHANGED <<model, cancelled, blob, announced, settled>>

\* A download is begun only when no model is installed.  A backend that has settled
\* gives the hash.
Begin ==
    /\ At("idle") /\ model = NoFile
    /\ \E known \in (IF settled THEN {TRUE} ELSE BOOLEAN) :
          job' = [job EXCEPT !.pc = "reset", !.want = announced, !.hashed = known]
    /\ UNCHANGED part /\ Unmoved

ResetCancel ==
    /\ At("reset")
    /\ cancelled' = FALSE
    /\ Goto("space")
    /\ UNCHANGED <<part, model, blob, announced, settled>>

\* ensure_space()
SpaceFound ==
    /\ At("space")
    /\ Goto("resume")
    /\ UNCHANGED part /\ Unmoved

SpaceLacks ==
    /\ At("space")
    /\ Goto("idle")
    /\ UNCHANGED part /\ Unmoved

\* A partial file larger than the announced one is deleted.
Resume ==
    /\ At("resume")
    /\ LET tooLarge == Partial > Size[job.want] IN
          /\ part' = IF tooLarge THEN NoFile ELSE part
          /\ job' = [job EXCEPT !.pc = "open", !.at = IF tooLarge THEN 0 ELSE Partial]
    /\ Unmoved

-----------------------------------------------------------------------------
(* _open_stream() and the file mode of _write_stream()                     *)

\* 200 or 206: the stream continues the partial file, or begins a new one.
OpenStream ==
    /\ At("open") /\ job.at < Size[blob]
    /\ job' = [job EXCEPT !.pc = "stream", !.src = blob]
    /\ part' = IF job.at = 0 THEN <<>> ELSE part
    /\ Unmoved

\* 200 in answer to a range: the server does not resume.
OpenFromStart ==
    /\ At("open") /\ job.at # 0 /\ ~settled
    /\ job' = [job EXCEPT !.pc = "stream", !.src = blob, !.at = 0]
    /\ part' = <<>>
    /\ Unmoved

\* Mutant: the partial file survives.
OpenPastTheEndKeeps ==
    /\ At("open") /\ job.at >= Size[blob]
    /\ Goto("idle")
    /\ UNCHANGED part /\ Unmoved

\* 416: no chunk of the file is in the range.
OpenPastTheEnd ==
    /\ At("open") /\ job.at >= Size[blob]
    /\ part' = NoFile
    /\ Goto("idle")
    /\ Unmoved

\* The link has expired, the server fails, or it is not reached.
OpenFails ==
    /\ At("open")
    /\ Goto("idle")
    /\ UNCHANGED part /\ Unmoved

-----------------------------------------------------------------------------
(* _write_stream()                                                         *)

WriteChunk ==
    /\ At("stream") /\ ~cancelled /\ job.at < Size[job.src]
    /\ part' = Append(part, job.src)
    /\ job' = [job EXCEPT !.at = @ + 1]
    /\ Unmoved

\* Mutant: what was downloaded goes with the cancelled download.
CancelledDiscards ==
    /\ At("stream") /\ cancelled /\ job.at < Size[job.src]
    /\ part' = NoFile
    /\ Goto("idle")
    /\ Unmoved

\* The flag is looked at when a chunk has arrived.
Cancelled ==
    /\ At("stream") /\ cancelled /\ job.at < Size[job.src]
    /\ Goto("idle")
    /\ UNCHANGED part /\ Unmoved

\* Mutant: a state that no step leaves.
StreamFailsForGood ==
    /\ At("stream") /\ job.at < Size[job.src]
    /\ Goto("failed")
    /\ UNCHANGED part /\ Unmoved

\* The connection breaks or the disk is full.
StreamFails ==
    /\ At("stream") /\ job.at < Size[job.src]
    /\ Goto("idle")
    /\ UNCHANGED part /\ Unmoved

StreamEnds ==
    /\ At("stream") /\ job.at = Size[job.src]
    /\ Goto("verify")
    /\ UNCHANGED part /\ Unmoved

-----------------------------------------------------------------------------
(* verify_and_install()                                                    *)

Verify ==
    /\ At("verify")
    /\ IF Partial = Size[job.want] /\ job.hashed
         THEN Goto("hash") /\ UNCHANGED part
         ELSE Goto("idle") /\ part' = NoFile
    /\ Unmoved

\* Mutant: the right size will do.
HashUnchecked ==
    /\ At("hash")
    /\ Goto("install")
    /\ UNCHANGED part /\ Unmoved

Hash ==
    /\ At("hash")
    /\ IF part = Whole(job.want)
         THEN Goto("install") /\ UNCHANGED part
         ELSE Goto("idle") /\ part' = NoFile
    /\ Unmoved

Install ==
    /\ At("install")
    /\ model' = part
    /\ part' = NoFile
    /\ Goto("idle")
    /\ UNCHANGED <<cancelled, blob, announced, settled>>

-----------------------------------------------------------------------------
(* The API thread, the computer and the vendor.                            *)

Cancel ==
    /\ ~settled
    /\ cancelled' = TRUE
    /\ UNCHANGED <<part, model, blob, announced, job, settled>>

Crash ==
    /\ ~settled
    /\ cancelled' = FALSE
    /\ Goto("idle")
    /\ UNCHANGED <<part, model, blob, announced, settled>>

Upload ==
    /\ ~settled
    /\ blob' \in Version
    /\ UNCHANGED <<part, model, cancelled, announced, job, settled>>

Announce ==
    /\ announced' = blob
    /\ UNCHANGED <<part, model, cancelled, blob, job, settled>>

\* From here on the user and the computer let it be, and the backend announces what
\* is behind a link that resumes.
Settle ==
    /\ ~settled /\ announced = blob
    /\ settled' = TRUE
    /\ UNCHANGED <<part, model, cancelled, blob, announced, job>>

-----------------------------------------------------------------------------
Download ==
    \/ Begin \/ ResetCancel \/ SpaceFound \/ SpaceLacks \/ Resume
    \/ OpenStream \/ OpenFromStart \/ OpenPastTheEnd \/ OpenFails
    \/ WriteChunk \/ Cancelled \/ StreamFails \/ StreamEnds
    \/ Verify \/ Hash \/ Install

Next == Download \/ Cancel \/ Crash \/ Upload \/ Announce \/ Settle

Spec == Init /\ [][Next]_vars

\* A download that is tried again and again finds room, is answered with what is
\* left and gets a chunk.
FairSpec ==
    /\ Spec
    /\ WF_vars(Download) /\ SF_vars(SpaceFound)
    /\ SF_vars(OpenStream \/ OpenPastTheEnd) /\ SF_vars(WriteChunk)

-----------------------------------------------------------------------------
(* Properties.                                                             *)

\* "No file that has not been verified is treated as installed" (model_store.py:7):
\* whatever was resumed from whatever version, the file under the model's name
\* is one whole version.
InstalledIsWhole == model = NoFile \/ \E v \in Version : model = Whole(v)

\* What was downloaded of a version is not thrown away while that version is
\* wanted, offered and incomplete, unless the server does not resume or an older
\* version is still streaming: neither a failure nor a cancellation costs it
\* (model_store.py:9-10, 136).
ProgressIsKept ==
    [][ (/\ part \in Unfinished(job.want) /\ part' # part
         /\ blob = job.want /\ (At("stream") => job.src = blob)
         /\ ~OpenFromStart)
            => part' \in Unfinished(blob) \cup {Whole(blob)} ]_vars

\* No partial file, of whatever version, keeps the model from being installed: in a
\* world at rest, attempts that are repeated lead to a whole model
\* (model_store.py:181-186, 216-222).
ModelArrives == settled ~> model # NoFile
=============================================================================
