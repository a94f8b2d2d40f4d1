-------------------------- MODULE ModelStoreProofs --------------------------
(***************************************************************************)
(* Proofs about ModelStore, for any versions of any sizes.                 *)
(***************************************************************************)
EXTENDS ModelStore, TLAPS

\* A download past the hash holds the whole version it was asked for, and
\* nobody but the download writes the partial file.
Checked == At("install") => part = Whole(job.want)

\* The partial file exists while it is written and when it is resumed.
Opened ==
    /\ At("stream") => part # NoFile
    /\ At("open") /\ job.at # 0 => part # NoFile
    /\ At("hash") => part # NoFile
    /\ At("install") => part # NoFile

IInv == TypeOK /\ Opened /\ Checked /\ InstalledIsWhole

-----------------------------------------------------------------------------
(* The parts of a step.                                                    *)

LEMMA EmptyIsFile == <<>> \in Seq(Version) /\ <<>> # NoFile
<1>1. <<>> \in Seq(Version)
  OBVIOUS
<1> QED BY <1>1, StoreAssumption

LEMMA AppendIsFile ==
    ASSUME NEW f \in Seq(Version), NEW v \in Version
    PROVE  Append(f, v) \in Seq(Version) /\ Append(f, v) # NoFile
<1>1. Append(f, v) \in Seq(Version)
  OBVIOUS
<1> QED BY <1>1, StoreAssumption

LEMMA InitInv == Init => IInv
<1> SUFFICES ASSUME Init PROVE IInv
  OBVIOUS
<1>1. TypeOK
  BY DEF Init, TypeOK, File, Job, JobPC
<1>2. At("idle")
  BY DEF Init, At
<1> QED BY <1>1, <1>2 DEF Init, IInv, Opened, Checked, At, InstalledIsWhole

\* Before the hash no step touches the model, and none can be past it.
LEMMA DownloadStep ==
    ASSUME IInv, Download, ~Install
    PROVE  IInv'
<1> USE DEF IInv, TypeOK, File, Job, JobPC, At, Goto, Unmoved, Opened, Checked
<1>0. model' = model => InstalledIsWhole'
  BY DEF InstalledIsWhole
<1>1. CASE Begin
  BY <1>0, <1>1 DEF Begin
<1>2. CASE ResetCancel
  BY <1>0, <1>2 DEF ResetCancel
<1>3. CASE SpaceFound \/ SpaceLacks
  BY <1>0, <1>3 DEF SpaceFound, SpaceLacks
<1>4. CASE Resume
  <2>1. Partial \in Nat /\ (Partial # 0 => part # NoFile)
    BY DEF Partial
  <2>2. PICK large \in BOOLEAN :
            /\ part' = IF large THEN NoFile ELSE part
            /\ job' = [job EXCEPT !.pc = "open", !.at = IF large THEN 0 ELSE Partial]
    BY <1>4 DEF Resume
  <2>3. TypeOK'
    <3>1. part' \in File
      BY <2>2
    <3>2. job' \in Job
      BY <2>1, <2>2
    <3> QED BY <1>4, <3>1, <3>2 DEF Resume
  <2>4. job'.pc = "open" /\ (job'.at # 0 => part' # NoFile)
    BY <2>1, <2>2
  <2> QED BY <1>0, <1>4, <2>3, <2>4 DEF Resume
<1>5. CASE OpenStream
  BY <1>0, EmptyIsFile, <1>5 DEF OpenStream
<1>6. CASE OpenFromStart
  BY <1>0, EmptyIsFile, <1>6 DEF OpenFromStart
<1>7. CASE OpenPastTheEnd \/ OpenFails
  BY <1>0, <1>7 DEF OpenPastTheEnd, OpenFails
<1>8. CASE WriteChunk
  <2>1. part \in Seq(Version) /\ job.src \in Version
    BY <1>8 DEF WriteChunk
  <2>2. part' \in Seq(Version) /\ part' # NoFile
    BY <1>8, <2>1, AppendIsFile DEF WriteChunk
  <2> QED BY <1>0, <1>8, <2>2 DEF WriteChunk
<1>9. CASE Cancelled \/ StreamFails \/ StreamEnds
  BY <1>0, <1>9 DEF Cancelled, StreamFails, StreamEnds
<1>10. CASE Verify
  <2>1. Size[job.want] # 0
    BY StoreAssumption
  <2>2. At("verify") /\ Unmoved
    BY <1>10 DEF Verify
  <2>3. CASE Partial = Size[job.want] /\ job.hashed
    <3>1. part' = part /\ part # NoFile /\ job' = [job EXCEPT !.pc = "hash"]
      BY <1>10, <2>1, <2>3 DEF Verify, Partial
    <3> QED BY <1>0, <2>2, <3>1
  <2>4. CASE ~(Partial = Size[job.want] /\ job.hashed)
    <3>1. part' = NoFile /\ job' = [job EXCEPT !.pc = "idle"]
      BY <1>10, <2>4 DEF Verify
    <3> QED BY <1>0, <2>2, <3>1
  <2> QED BY <2>3, <2>4
<1>11. CASE Hash
  BY <1>0, <1>11 DEF Hash
<1> QED BY <1>1, <1>2, <1>3, <1>4, <1>5, <1>6, <1>7, <1>8, <1>9, <1>10, <1>11 DEF Download

LEMMA InstallStep ==
    ASSUME IInv, Install
    PROVE  IInv'
<1> USE DEF IInv, Install
<1>1. part = Whole(job.want) /\ job.want \in Version
  BY DEF Checked, TypeOK, Job
<1>2. InstalledIsWhole'
  BY <1>1 DEF InstalledIsWhole
<1>3. TypeOK'
  BY DEF TypeOK, File, Job, JobPC, Goto
<1>4. job'.pc = "idle"
  BY DEF Goto, TypeOK, Job
<1> QED BY <1>2, <1>3, <1>4 DEF Opened, Checked, At

\* The others leave the two files alone; a crash only ends the download.
LEMMA OtherStep ==
    ASSUME IInv, Cancel \/ Crash \/ Upload \/ Announce \/ Settle
    PROVE  IInv'
<1> USE DEF IInv, TypeOK, File, Job, JobPC, At, Goto, Opened, Checked, InstalledIsWhole
<1>1. CASE Cancel
  BY <1>1 DEF Cancel
<1>2. CASE Crash
  BY <1>2 DEF Crash
<1>3. CASE Upload
  BY <1>3 DEF Upload
<1>4. CASE Announce
  BY <1>4 DEF Announce
<1>5. CASE Settle
  BY <1>5 DEF Settle
<1> QED BY <1>1, <1>2, <1>3, <1>4, <1>5

LEMMA NextInv == IInv /\ [Next]_vars => IInv'
<1> SUFFICES ASSUME IInv, [Next]_vars PROVE IInv'
  OBVIOUS
<1>1. CASE UNCHANGED vars
  BY <1>1 DEF IInv, TypeOK, File, Job, JobPC, At, Opened, Checked, InstalledIsWhole, vars
<1>2. CASE Download /\ ~Install
  BY <1>2, DownloadStep
<1>3. CASE Install
  BY <1>3, InstallStep
<1>4. CASE Cancel \/ Crash \/ Upload \/ Announce \/ Settle
  BY <1>4, OtherStep
<1> QED BY <1>1, <1>2, <1>3, <1>4 DEF Next

THEOREM StoreInvariant == Spec => []IInv
  BY InitInv, NextInv, PTL DEF Spec

\* Every variable keeps its type: in particular no chunk is appended to a file that is
\* not there.
THEOREM StoreTyped == Spec => []TypeOK
<1>1. IInv => TypeOK
  BY DEF IInv
<1> QED BY <1>1, StoreInvariant, PTL

\* Whatever is resumed, cancelled, replaced behind the link or interrupted, the
\* file under the model's name is one whole version.
THEOREM InstalledIsWholeHolds == Spec => []InstalledIsWhole
<1>1. IInv => InstalledIsWhole
  BY DEF IInv
<1> QED BY <1>1, StoreInvariant, PTL

-----------------------------------------------------------------------------
(* What a download has is not thrown away.                                 *)

\* Where a download stands in the file: it appends where it resumed, and a stream
\* that ended wrote at least the last chunk of its version.
Placed ==
    /\ At("open") => job.at = Partial
    /\ At("stream") => /\ job.at = Partial
                       /\ job.at <= Size[job.src]
                       /\ job.at = Size[job.src] => part[Partial] = job.src
    /\ At("verify") => /\ Partial = Size[job.src]
                       /\ part[Partial] = job.src
    /\ At("hash") => Partial = Size[job.want]

\* An unfinished file of v: fewer chunks than v has, all of them of v.
LEMMA UnfinishedFile ==
    ASSUME NEW v \in Version, NEW f \in Unfinished(v)
    PROVE  /\ f \in Seq(Version) /\ f # NoFile
           /\ Len(f) \in 1 .. Size[v] - 1
           /\ \A i \in 1 .. Len(f) : f[i] = v
<1>1. Size[v] \in Nat \ {0}
  BY StoreAssumption
<1>2. PICK n \in 1 .. Size[v] - 1 : f = [i \in 1 .. n |-> v]
  BY DEF Unfinished
<1>3. n \in Nat /\ f \in [1 .. n -> Version]
  BY <1>1, <1>2
<1>4. f \in Seq(Version) /\ Len(f) = n
  BY <1>2, <1>3
<1> QED BY <1>1, <1>2, <1>4, StoreAssumption

\* One more chunk of v leaves it unfinished or makes it whole.
LEMMA OneMoreChunk ==
    ASSUME NEW v \in Version, NEW f \in Unfinished(v)
    PROVE  Append(f, v) \in Unfinished(v) \cup {Whole(v)}
<1>1. Size[v] \in Nat \ {0}
  BY StoreAssumption
<1>2. PICK n \in 1 .. Size[v] - 1 : f = [i \in 1 .. n |-> v]
  BY DEF Unfinished
<1>3. f \in Seq(Version) /\ Len(f) = n /\ n \in Nat
  BY <1>1, <1>2, UnfinishedFile
<1>4. Append(f, v) = [i \in 1 .. n + 1 |-> v]
  BY <1>2, <1>3
<1>5. CASE n + 1 = Size[v]
  BY <1>4, <1>5 DEF Whole
<1>6. CASE n + 1 # Size[v]
  <2>1. n + 1 \in 1 .. Size[v] - 1
    BY <1>1, <1>2, <1>6
  <2> QED BY <1>4, <2>1 DEF Unfinished
<1> QED BY <1>5, <1>6

\* The length of a file that is written.
LEMMA PartialIsLength ==
    ASSUME TypeOK
    PROVE  /\ Partial \in Nat
           /\ part # NoFile => part \in Seq(Version) /\ Partial = Len(part)
BY DEF TypeOK, File, Partial

LEMMA InitPlaced == Init => Placed
BY DEF Init, Placed, At

\* Wherever the partial file is opened, the writes continue at its end.
LEMMA NextPlaced == IInv /\ Placed /\ [Next]_vars => Placed'
<1> SUFFICES ASSUME IInv, Placed, [Next]_vars PROVE Placed'
  OBVIOUS
<1> USE DEF At, Goto, Unmoved
<1>0. TypeOK /\ job \in Job /\ Size \in [Version -> Nat \ {0}]
  BY StoreAssumption DEF IInv, TypeOK
<1>1. ASSUME job'.pc \notin {"open", "stream", "verify", "hash"} PROVE Placed'
  BY <1>1 DEF Placed
<1>2. CASE UNCHANGED <<part, job>>
  BY <1>2 DEF Placed, Partial
<1>3. CASE Resume
  <2>0. PICK large \in BOOLEAN :
            /\ part' = IF large THEN NoFile ELSE part
            /\ job' = [job EXCEPT !.pc = "open", !.at = IF large THEN 0 ELSE Partial]
    BY <1>3 DEF Resume
  <2>1. \/ part' = NoFile /\ job'.at = 0
        \/ part' = part /\ job'.at = Partial
    <3>1. CASE large
      <4>1. part' = NoFile /\ job' = [job EXCEPT !.pc = "open", !.at = 0]
        BY <2>0, <3>1
      <4> QED BY <1>0, <4>1 DEF Job
    <3>2. CASE ~large
      <4>1. part' = part /\ job' = [job EXCEPT !.pc = "open", !.at = Partial]
        BY <2>0, <3>2
      <4> QED BY <1>0, <4>1 DEF Job
    <3> QED BY <3>1, <3>2
  <2>2. job'.at = Partial' /\ job'.pc = "open"
    BY <1>0, <1>3, <2>1 DEF Resume, Job, Partial
  <2> QED BY <2>2 DEF Placed
<1>4. CASE OpenStream \/ OpenFromStart
  <2>0. PICK n \in Nat : /\ job' = [job EXCEPT !.pc = "stream", !.src = blob, !.at = n]
                         /\ n < Size[blob]
                         /\ \/ n = 0 /\ part' = <<>>
                            \/ n = job.at /\ part' = part /\ job.at # 0
    <3>1. blob \in Version /\ job.at \in Nat /\ Size[blob] \in Nat \ {0}
      BY <1>0 DEF TypeOK, Job
    <3>2. CASE OpenStream
      <4>1. [job EXCEPT !.pc = "stream", !.src = blob]
              = [job EXCEPT !.pc = "stream", !.src = blob, !.at = job.at]
        BY <1>0 DEF Job
      <4> QED BY <3>1, <3>2, <4>1 DEF OpenStream
    <3>3. CASE OpenFromStart
      <4>1. /\ job' = [job EXCEPT !.pc = "stream", !.src = blob, !.at = 0]
            /\ part' = <<>>
        BY <3>3 DEF OpenFromStart
      <4>2. 0 \in Nat /\ 0 < Size[blob]
        BY <3>1
      <4> QED BY <4>1, <4>2
    <3> QED BY <1>4, <3>2, <3>3
  <2>1. job'.pc = "stream" /\ job'.src = blob /\ job'.at < Size[blob] /\ blob \in Version
    BY <1>0, <2>0 DEF Job, TypeOK
  <2>2. job'.at \in Nat
    BY <1>0, <2>0 DEF Job
  <2>3. \/ job'.at = 0 /\ part' = <<>>
        \/ job'.at = job.at /\ part' = part /\ job.at # 0
    BY <1>0, <2>0 DEF Job
  <2>4. job.at = Partial
    BY <1>4 DEF Placed, OpenStream, OpenFromStart
  <2>5. job'.at = Partial'
    BY <2>3, <2>4, EmptyIsFile DEF Partial
  <2> QED BY <1>0, <2>1, <2>2, <2>5 DEF Placed
<1>5. CASE WriteChunk
  <2>1. /\ job.pc = "stream" /\ job.at = Partial /\ part # NoFile
        /\ job.at < Size[job.src] /\ job.src \in Version /\ job.at \in Nat
    BY <1>0, <1>5 DEF WriteChunk, Placed, IInv, Opened, Job
  <2>2. part \in Seq(Version) /\ Partial = Len(part)
    BY <1>0, <2>1, PartialIsLength
  <2>3. part' = Append(part, job.src) /\ part' # NoFile
    BY <1>5, <2>1, <2>2, AppendIsFile DEF WriteChunk
  <2>4. Partial' = Partial + 1 /\ part'[Partial + 1] = job.src
    BY <2>2, <2>3 DEF Partial
  <2>5. job'.pc = "stream" /\ job'.at = job.at + 1 /\ job'.src = job.src
    BY <1>0, <1>5 DEF WriteChunk, Job
  <2> QED BY <1>0, <2>1, <2>4, <2>5 DEF Placed
<1>6. CASE StreamEnds
  <2>1. /\ job'.pc = "verify" /\ job'.src = job.src /\ part' = part /\ Partial' = Partial
        /\ job.pc = "stream" /\ job.at = Size[job.src]
    BY <1>0, <1>6 DEF StreamEnds, Job, Partial
  <2> QED BY <2>1 DEF Placed
<1>7. CASE Verify
  <2>1. CASE Partial = Size[job.want] /\ job.hashed
    <3>1. job'.pc = "hash" /\ job'.want = job.want /\ Partial' = Partial
      BY <1>0, <1>7, <2>1 DEF Verify, Job, Partial
    <3> QED BY <2>1, <3>1 DEF Placed
  <2>2. CASE ~(Partial = Size[job.want] /\ job.hashed)
    BY <1>0, <1>1, <1>7, <2>2 DEF Verify, Job
  <2> QED BY <2>1, <2>2
<1>8. CASE \/ Begin \/ ResetCancel \/ SpaceFound \/ SpaceLacks \/ OpenPastTheEnd \/ OpenFails
           \/ Cancelled \/ StreamFails \/ Hash \/ Install \/ Crash
  <2>1. job'.pc \notin {"open", "stream", "verify", "hash"}
    BY <1>0, <1>8 DEF Begin, ResetCancel, SpaceFound, SpaceLacks, OpenPastTheEnd, OpenFails,
       Cancelled, StreamFails, Hash, Install, Crash, Job
  <2> QED BY <1>1, <2>1
<1>9. CASE Cancel \/ Upload \/ Announce \/ Settle \/ UNCHANGED vars
  BY <1>2, <1>9 DEF Cancel, Upload, Announce, Settle, vars
<1> QED BY <1>3, <1>4, <1>5, <1>6, <1>7, <1>8, <1>9 DEF Next, Download

\* The action property's step.
Kept ==
    (/\ part \in Unfinished(job.want) /\ part' # part
     /\ blob = job.want /\ (At("stream") => job.src = blob)
     /\ ~OpenFromStart)
        => part' \in Unfinished(blob) \cup {Whole(blob)}

LEMMA StepKeeps == IInv /\ Placed /\ [Next]_vars => [Kept]_vars
<1> SUFFICES ASSUME IInv, Placed, Next,
                    part \in Unfinished(job.want), part' # part,
                    blob = job.want, At("stream") => job.src = blob, ~OpenFromStart
             PROVE  part' \in Unfinished(blob) \cup {Whole(blob)}
  BY DEF Kept
<1> USE DEF At, Goto, Unmoved
<1>0. TypeOK /\ job \in Job /\ job.want \in Version
  BY DEF IInv, TypeOK, Job
<1>1. /\ part \in Seq(Version) /\ part # NoFile /\ Partial = Len(part)
      /\ Partial \in 1 .. Size[job.want] - 1 /\ Size[job.want] \in Nat
      /\ \A i \in 1 .. Len(part) : part[i] = job.want
  BY <1>0, UnfinishedFile, StoreAssumption DEF Partial
<1>2. CASE WriteChunk
  BY <1>0, <1>2, OneMoreChunk DEF WriteChunk
<1>3. ~Resume
  BY <1>1 DEF Resume
<1>4. ~OpenStream /\ ~OpenPastTheEnd
  BY <1>1 DEF OpenStream, OpenPastTheEnd, Placed
<1>5. ~Verify
  <2> SUFFICES ASSUME Verify PROVE FALSE
    OBVIOUS
  <2>1. Partial = Size[job.src] /\ part[Partial] = job.src
    BY DEF Verify, Placed
  <2>2. part[Partial] = job.want
    BY <1>1
  <2> QED BY <1>1, <2>1, <2>2
<1>6. ~Hash
  BY <1>1 DEF Hash, Placed
<1>7. ~Install
  <2> SUFFICES ASSUME Install PROVE FALSE
    OBVIOUS
  <2>1. part = Whole(job.want)
    BY DEF Install, IInv, Checked
  <2>2. Len(part) = Size[job.want]
    BY <1>1, <2>1 DEF Whole
  <2> QED BY <1>1, <2>2
<1>8. ~(\/ Begin \/ ResetCancel \/ SpaceFound \/ SpaceLacks \/ OpenFails
        \/ Cancelled \/ StreamFails \/ StreamEnds
        \/ Cancel \/ Crash \/ Upload \/ Announce \/ Settle)
  BY DEF Begin, ResetCancel, SpaceFound, SpaceLacks, OpenFails,
         Cancelled, StreamFails, StreamEnds, Cancel, Crash, Upload, Announce, Settle
<1> QED BY <1>2, <1>3, <1>4, <1>5, <1>6, <1>7, <1>8 DEF Next, Download

\* What was downloaded of a version survives failures, cancellations and crashes while
\* that version is wanted and offered, whatever the sizes and however often the file
\* behind the link was swapped before.
THEOREM ProgressIsKeptHolds == Spec => ProgressIsKept
<1>1. Spec => []Placed
  BY StoreInvariant, InitPlaced, NextPlaced, PTL DEF Spec
<1> QED BY <1>1, StoreInvariant, StepKeeps, PTL DEF Spec, ProgressIsKept, Kept
=============================================================================
