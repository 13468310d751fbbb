----------------------------- MODULE DrawingProofs -----------------------------
(***************************************************************************)
(* A drawing's record loses its file, and its card in the index is not the *)
(* one it asks for once everything is handled, only by a request that was  *)
(* cut off, however updates, revisions and deletions overlap. A DONE       *)
(* drawing has its card and a deleted one has none, whatever happens.      *)
(* Proved for any drawings, requests and faults.                           *)
(***************************************************************************)
EXTENDS DrawingInductive, IngestProofs

Drawing == [status : DrawingStatus \cup {"new", "gone"}, revision : Nat, text : Texts, file : Nat]

FileTypes ==
    /\ jobs \in Seq(Job)
    /\ calls \in [Calls -> Call \cup {Idle}]
    /\ drawing \in [Docs -> Drawing]
    /\ saved \in Nat
    /\ files \subseteq 1..saved

\* The requests that will still do something with the file they know of.
Handling == {"store", "doomed", "revise", "swapped"}

\* A file in hand or in a record has been saved.
SavedInv ==
    /\ \A c \in Calls : calls[c].step \in Handling => calls[c].file \in 1..saved
    /\ \A d \in Docs : Exists(d) => drawing[d].file \in 1..saved

\* A file that is not in a record yet is on disk, and nobody else knows of it.
NewFileInv ==
    \A c \in Calls : calls[c].step \in {"store", "swapped"} =>
        /\ calls[c].file \in files
        /\ \A b \in Calls \ {c} : calls[b].step \in Handling => calls[b].file # calls[c].file
        /\ \A d \in Docs : Exists(d) => drawing[d].file # calls[c].file

\* No two records share a file, and a request that is about to remove a file can
\* only take it away from the drawing it is about.
OwnerInv ==
    /\ \A d, e \in Docs : Exists(d) /\ Exists(e) /\ drawing[d].file = drawing[e].file => d = e
    /\ \A c \in Calls, d \in Docs :
          calls[c].step \in {"doomed", "revise"} /\ Exists(d) /\ drawing[d].file = calls[c].file =>
              d = calls[c].doc

FileInv == FileTypes /\ SavedInv /\ NewFileInv /\ OwnerInv /\ RecordHasFile

-----------------------------------------------------------------------------
\* A job record that is added, or whose status is written.
LEMMA JobsStay ==
    ASSUME NEW js \in Seq(Job)
    PROVE  /\ \A e \in Job : Append(js, e) \in Seq(Job)
           /\ \A k : \A s \in JobStatus : [js EXCEPT ![k].status = s] \in Seq(Job)
<1>1. ASSUME NEW k, NEW s \in JobStatus PROVE [js EXCEPT ![k].status = s] \in Seq(Job)
  <2>1. CASE k \in 1..Len(js)
    <3>1. js[k] \in Job
      BY <2>1, ElementOfSeq
    <3>2. [js[k] EXCEPT !.status = s] \in Job
      BY <3>1 DEF Job
    <3>3. [js EXCEPT ![k] = [js[k] EXCEPT !.status = s]] \in Seq(Job)
      BY <2>1, <3>2, ExceptSeq
    <3> QED
      BY <3>3
  <2>2. CASE k \notin 1..Len(js)
    <3>1. [js EXCEPT ![k].status = s] = js
      BY <2>2, LenProperties
    <3> QED
      BY <3>1
  <2> QED
    BY <2>1, <2>2
<1> QED
  BY <1>1, AppendProperties

\* What is known of a request that is not idle.
LEMMA InCall ==
    ASSUME FileTypes, NEW c \in Calls, calls[c].step # "idle"
    PROVE  calls[c] \in Call /\ calls[c].doc \in Docs /\ calls[c].file \in Nat
           /\ calls[c].revision \in Nat /\ calls[c].text \in Texts
           /\ calls[c].action \in JobAction
BY DEF FileTypes, Call, Idle

\* A request that moves on keeps the rest of what it knows.
LEMMA Moves ==
    ASSUME FileTypes, NEW c \in Calls, calls[c].step # "idle",
           NEW step \in {"dispatch", "published", "unlinked"}, Goto(c, step)
    PROVE  /\ calls' \in [Calls -> Call \cup {Idle}]
           /\ calls'[c].step = step /\ calls'[c].doc = calls[c].doc
           /\ calls'[c].action = calls[c].action
           /\ \A b \in Calls \ {c} : calls'[b] = calls[b]
<1> DEFINE q == [calls[c] EXCEPT !.step = step]
<1>1. calls[c] \in Call
  BY InCall
<1>2. q \in Call /\ q.step = step /\ q.doc = calls[c].doc /\ q.action = calls[c].action
  BY <1>1 DEF Call
<1>3. calls' = [calls EXCEPT ![c] = q]
  BY DEF Goto
<1> HIDE DEF q
<1> QED
  BY <1>2, <1>3 DEF FileTypes

\* A request that begins.
LEMMA Begins ==
    ASSUME FileTypes, NEW c \in Calls, NEW d \in Docs, NEW action \in JobAction,
           NEW step \in {"store", "dispatch", "revise", "doomed"},
           NEW record, record.file \in Nat, record.revision \in Nat, record.text \in Texts,
           Request(c, step, d, action, record)
    PROVE  /\ calls[c] = Idle /\ calls[c].step = "idle"
           /\ calls' \in [Calls -> Call \cup {Idle}]
           /\ calls'[c].step = step /\ calls'[c].doc = d /\ calls'[c].file = record.file
           /\ calls'[c].action = action
           /\ \A b \in Calls \ {c} : calls'[b] = calls[b]
<1> DEFINE q == [step |-> step, doc |-> d, action |-> action, job |-> 0,
                 file |-> record.file, revision |-> record.revision, text |-> record.text]
<1>1. q \in Call /\ q.step = step /\ q.doc = d /\ q.file = record.file /\ q.action = action
  BY DEF Call
<1>2. calls' = [calls EXCEPT ![c] = q] /\ calls[c] = Idle
  BY DEF Request
<1> HIDE DEF q
<1> QED
  BY <1>1, <1>2 DEF FileTypes, Idle

\* A request that is over.
LEMMA Returns ==
    ASSUME FileTypes, NEW c \in Calls, Return(c)
    PROVE  /\ calls' \in [Calls -> Call \cup {Idle}]
           /\ calls'[c].step = "idle" /\ calls'[c] = Idle
           /\ \A b \in Calls \ {c} : calls'[b] = calls[b]
BY DEF FileTypes, Return, Idle

\* Steps that touch no file: records keep theirs or go, requests move past the
\* point where they need theirs.
Apart ==
    /\ FileTypes'
    /\ files' = files /\ saved' = saved
    /\ \A d \in Docs : Exists(d)' => Exists(d) /\ drawing'[d].file = drawing[d].file
    /\ \A c \in Calls : calls'[c] = calls[c] \/
          (/\ calls'[c].step \notin Handling \cup {"unlinked"}
           /\ calls[c].step \in {"swapped", "unlinked"} =>
                 \A d \in Docs : d = calls[c].doc => ~Exists(d)' \/ FileLost(d)')
    /\ \A d \in Docs : FileLost(d) => FileLost(d)'

LEMMA ApartInv == ASSUME FileInv, Apart PROVE FileInv'
<1> USE DEF FileInv, Apart
<1>1. \A c \in Calls : calls'[c].step \in Handling \cup {"unlinked"} => calls'[c] = calls[c]
  OBVIOUS
<1>2. SavedInv'
  BY <1>1 DEF SavedInv, Handling
<1>3. NewFileInv'
  <2> SUFFICES ASSUME NEW c \in Calls, calls'[c].step \in {"store", "swapped"}
               PROVE  /\ calls'[c].file \in files
                      /\ \A b \in Calls \ {c} : calls'[b].step \in Handling =>
                            calls'[b].file # calls'[c].file
                      /\ \A d \in Docs : Exists(d)' => drawing'[d].file # calls'[c].file
    BY DEF NewFileInv
  <2>1. calls'[c] = calls[c] /\ calls[c].step \in {"store", "swapped"}
    BY <1>1 DEF Handling
  <2> QED
    BY <1>1, <2>1 DEF NewFileInv
<1>4. OwnerInv'
  BY <1>1 DEF OwnerInv, Handling
<1>5. RecordHasFile'
  <2> SUFFICES ASSUME NEW d \in Docs, Exists(d)'
               PROVE  \/ drawing'[d].file \in files
                      \/ \E c \in Calls : calls'[c].step \in FileSteps /\ calls'[c].doc = d
                      \/ FileLost(d)'
    BY DEF RecordHasFile
  <2>1. CASE drawing[d].file \in files
    BY <2>1
  <2>2. ASSUME NEW c \in Calls, calls[c].step \in FileSteps, calls[c].doc = d
        PROVE  calls'[c] = calls[c] \/ FileLost(d)'
    BY <2>2 DEF Exists, FileSteps
  <2> QED
    BY <2>1, <2>2 DEF RecordHasFile
<1> QED
  BY <1>2, <1>3, <1>4, <1>5

-----------------------------------------------------------------------------
(* The requests.                                                           *)

LEMMA CreateInv == ASSUME FileInv, NEW c \in Calls, Create(c) PROVE FileInv'
<1> USE DEF FileInv
<1>1. PICK d \in Docs, t \in Texts :
          /\ saved' = saved + 1 /\ files' = files \cup {saved + 1}
          /\ Request(c, "store", d, "upsert", [file |-> saved + 1, revision |-> 1, text |-> t])
          /\ jobs' = jobs /\ drawing' = drawing /\ cut' = cut
  BY DEF Create, apiUnchanged, storesUnchanged
<1>2. saved \in Nat /\ saved + 1 \in Nat
  BY DEF FileTypes
<1>3. /\ calls[c].step = "idle"
      /\ calls' \in [Calls -> Call \cup {Idle}]
      /\ calls'[c].step = "store" /\ calls'[c].doc = d /\ calls'[c].file = saved + 1
      /\ \A b \in Calls \ {c} : calls'[b] = calls[b]
  BY <1>1, <1>2, Begins DEF JobAction
<1>4. FileTypes'
  BY <1>1, <1>2, <1>3 DEF FileTypes
<1>5. SavedInv'
  BY <1>1, <1>2, <1>3 DEF SavedInv, Exists
<1>6. NewFileInv'
  <2>1. saved + 1 \in files' /\ files \subseteq files'
    BY <1>1
  <2>2. \A b \in Calls \ {c} : calls[b].step \in Handling => calls[b].file # saved + 1
    BY <1>2 DEF SavedInv
  <2>3. \A e \in Docs : Exists(e) => drawing[e].file # saved + 1
    BY <1>2 DEF SavedInv
  <2>4. \A e \in Docs : Exists(e)' = Exists(e)
    BY <1>1 DEF Exists
  <2> QED
    BY <1>1, <1>3, <2>1, <2>2, <2>3, <2>4 DEF NewFileInv, Handling
<1>7. OwnerInv'
  BY <1>1, <1>3 DEF OwnerInv, Exists
<1>8. RecordHasFile'
  <2>1. \A b \in Calls : calls[b].step \in FileSteps => calls'[b] = calls[b]
    BY <1>3 DEF FileSteps
  <2> QED
    BY <1>1, <2>1 DEF RecordHasFile, Exists, FileLost
<1> QED
  BY <1>4, <1>5, <1>6, <1>7, <1>8

\* The record takes the new file: in Store and in SetRevision.
LEMMA TakesFile ==
    ASSUME FileInv, FileTypes', NEW c \in Calls, calls[c].step \in {"store", "swapped"},
           files' = files, saved' = saved,
           drawing'[calls[c].doc].file = calls[c].file,
           \A e \in Docs \ {calls[c].doc} : drawing'[e] = drawing[e],
           calls'[c].step = "dispatch",
           \A b \in Calls \ {c} : calls'[b] = calls[b],
           \A e \in Docs \ {calls[c].doc} : FileLost(e) => FileLost(e)'
    PROVE  FileInv'
<1> USE DEF FileInv
<1> DEFINE d == calls[c].doc
           f == calls[c].file
<1>1. \A e \in Docs \ {d} : Exists(e)' = Exists(e) /\ drawing'[e].file = drawing[e].file
  BY DEF Exists
<1>2. f \in files /\ f \in 1..saved
      /\ (\A b \in Calls \ {c} : calls[b].step \in Handling => calls[b].file # f)
      /\ (\A e \in Docs : Exists(e) => drawing[e].file # f)
  BY DEF NewFileInv, SavedInv, Handling
<1>3. SavedInv'
  BY <1>1, <1>2 DEF SavedInv, Handling
<1>4. NewFileInv'
  <2> SUFFICES ASSUME NEW k \in Calls, calls'[k].step \in {"store", "swapped"}
               PROVE  /\ calls'[k].file \in files
                      /\ \A b \in Calls \ {k} : calls'[b].step \in Handling =>
                            calls'[b].file # calls'[k].file
                      /\ \A e \in Docs : Exists(e)' => drawing'[e].file # calls'[k].file
    BY DEF NewFileInv
  <2>1. k # c /\ calls'[k] = calls[k] /\ calls[k].file # f
    BY <1>2 DEF Handling
  <2>2. \A b \in Calls : calls'[b].step \in Handling => calls'[b] = calls[b]
    BY DEF Handling
  <2> QED
    BY <1>1, <2>1, <2>2 DEF NewFileInv
<1>5. OwnerInv'
  <2>1. \A e \in Docs \ {d} : Exists(e)' => drawing'[e].file # f
    BY <1>1, <1>2
  <2>2. \A k \in Calls : calls'[k].step \in {"doomed", "revise"} =>
            k # c /\ calls'[k] = calls[k] /\ calls'[k].file # f
    BY <1>2 DEF Handling
  <2> QED
    BY <1>1, <2>1, <2>2 DEF OwnerInv
<1>6. RecordHasFile'
  <2> SUFFICES ASSUME NEW e \in Docs, Exists(e)'
               PROVE  \/ drawing'[e].file \in files
                      \/ \E k \in Calls : calls'[k].step \in FileSteps /\ calls'[k].doc = e
                      \/ FileLost(e)'
    BY DEF RecordHasFile
  <2>1. CASE e = d
    BY <1>2, <2>1
  <2>2. CASE e # d
    <3>1. Exists(e) /\ drawing'[e].file = drawing[e].file
      BY <1>1, <2>2
    <3>2. \A k \in Calls : calls[k].doc = e => calls'[k] = calls[k]
      BY <2>2
    <3> QED
      BY <3>1, <3>2 DEF RecordHasFile
  <2> QED
    BY <2>1, <2>2
<1> QED
  BY <1>3, <1>4, <1>5, <1>6

LEMMA StoreInv == ASSUME FileInv, NEW c \in Calls, Store(c) PROVE FileInv'
<1> USE DEF FileInv
<1> DEFINE q == [status |-> "PENDING", revision |-> 1, text |-> calls[c].text, file |-> calls[c].file]
<1>1. calls[c].step = "store" /\ calls[c].doc \in Docs /\ q \in Drawing
  BY InCall DEF Store, Drawing, DrawingStatus
<1>2. /\ calls' \in [Calls -> Call \cup {Idle}]
      /\ calls'[c].step = "dispatch"
      /\ \A b \in Calls \ {c} : calls'[b] = calls[b]
  BY <1>1, Moves DEF Store
<1>3. /\ drawing' = [drawing EXCEPT ![calls[c].doc] = q] /\ q.file = calls[c].file
      /\ jobs' = jobs /\ files' = files /\ saved' = saved /\ cut' = cut
  BY DEF Store, apiUnchanged, storesUnchanged
<1> HIDE DEF q
<1>4. FileTypes'
  BY <1>1, <1>2, <1>3 DEF FileTypes
<1>5. drawing'[calls[c].doc].file = calls[c].file
      /\ \A e \in Docs \ {calls[c].doc} : drawing'[e] = drawing[e]
  BY <1>1, <1>3 DEF FileTypes
<1>6. \A e \in Docs \ {calls[c].doc} : FileLost(e) => FileLost(e)'
  BY <1>3 DEF FileLost
<1> QED
  BY <1>1, <1>2, <1>3, <1>4, <1>5, <1>6, TakesFile

LEMMA SetRevisionInv == ASSUME FileInv, NEW c \in Calls, SetRevision(c) PROVE FileInv'
<1> USE DEF FileInv
<1>1. /\ calls[c].step = "swapped" /\ calls[c].doc \in Docs
      /\ calls[c].file \in Nat /\ calls[c].revision \in Nat
      /\ jobs' = jobs /\ files' = files /\ saved' = saved
  BY InCall DEF SetRevision, storesUnchanged
<1>2. CASE Exists(calls[c].doc)
  <2> DEFINE q == [drawing[calls[c].doc] EXCEPT !.file = calls[c].file,
                       !.revision = calls[c].revision + 1, !.status = "PENDING"]
  <2>1. drawing[calls[c].doc] \in Drawing
    BY <1>1 DEF FileTypes
  <2>2. q \in Drawing /\ q.file = calls[c].file
    <3>1. calls[c].revision + 1 \in Nat /\ "PENDING" \in DrawingStatus
      BY <1>1 DEF DrawingStatus
    <3> QED
      BY <1>1, <2>1, <3>1 DEF Drawing
  <2>3. /\ drawing' = [drawing EXCEPT ![calls[c].doc] = q] /\ Goto(c, "dispatch")
        /\ cut' = cut \ ({calls[c].doc} \X FileSteps)
    BY <1>2 DEF SetRevision
  <2> HIDE DEF q
  <2>4. /\ calls' \in [Calls -> Call \cup {Idle}]
        /\ calls'[c].step = "dispatch"
        /\ \A b \in Calls \ {c} : calls'[b] = calls[b]
    BY <1>1, <2>3, Moves
  <2>5. FileTypes'
    BY <1>1, <2>2, <2>3, <2>4 DEF FileTypes
  <2>6. drawing'[calls[c].doc].file = calls[c].file
        /\ \A e \in Docs \ {calls[c].doc} : drawing'[e] = drawing[e]
    BY <1>1, <2>2, <2>3 DEF FileTypes
  <2>7. \A e \in Docs \ {calls[c].doc} : FileLost(e) => FileLost(e)'
    BY <2>3 DEF FileLost
  <2> QED
    BY <1>1, <2>4, <2>5, <2>6, <2>7, TakesFile
<1>3. CASE ~Exists(calls[c].doc)
  <2>1. Return(c) /\ drawing' = drawing /\ cut' = cut
    BY <1>3 DEF SetRevision
  <2>2. /\ calls' \in [Calls -> Call \cup {Idle}]
        /\ calls'[c].step = "idle"
        /\ \A b \in Calls \ {c} : calls'[b] = calls[b]
    BY <2>1, Returns
  <2>3. Apart
    BY <1>1, <1>3, <2>1, <2>2 DEF Apart, FileTypes, Exists, Handling, FileLost
  <2> QED
    BY <2>3, ApartInv
<1> QED
  BY <1>2, <1>3

LEMMA UpdateInv == ASSUME FileInv, NEW c \in Calls, NEW d \in Docs, Update(c, d) PROVE FileInv'
<1> USE DEF FileInv
<1>1. PICK t \in Texts : drawing' = [drawing EXCEPT ![d].text = t, ![d].status = "PENDING"]
  BY DEF Update
<1>2. /\ Exists(d) /\ Request(c, "dispatch", d, "upsert", drawing[d])
      /\ jobs' = jobs /\ files' = files /\ saved' = saved /\ cut' = cut
  BY DEF Update, apiUnchanged, storesUnchanged
<1> DEFINE q == [drawing[d] EXCEPT !.text = t, !.status = "PENDING"]
<1>3. drawing[d] \in Drawing /\ q \in Drawing /\ q.file = drawing[d].file
  BY DEF FileTypes, Drawing, DrawingStatus
<1>4. drawing' = [drawing EXCEPT ![d] = q]
  BY <1>1
<1> HIDE DEF q
<1>5. drawing[d].file \in Nat /\ drawing[d].revision \in Nat /\ drawing[d].text \in Texts
  BY <1>3 DEF Drawing
<1>6. /\ calls[c].step = "idle"
      /\ calls' \in [Calls -> Call \cup {Idle}]
      /\ calls'[c].step = "dispatch"
      /\ \A b \in Calls \ {c} : calls'[b] = calls[b]
  BY <1>2, <1>5, Begins DEF JobAction
<1>7. FileTypes'
  BY <1>2, <1>3, <1>4, <1>6 DEF FileTypes
<1>8. \A e \in Docs : Exists(e)' => Exists(e) /\ drawing'[e].file = drawing[e].file
  BY <1>2, <1>3, <1>4 DEF FileTypes, Exists
<1>9. Apart
  BY <1>2, <1>6, <1>7, <1>8 DEF Apart, Handling, FileLost
<1> QED
  BY <1>9, ApartInv

LEMMA LookupInv == ASSUME FileInv, NEW c \in Calls, NEW d \in Docs, Lookup(c, d) PROVE FileInv'
<1> USE DEF FileInv
<1>1. PICK step \in {"revise", "doomed"}, action \in JobAction :
          Request(c, step, d, action, drawing[d])
  BY DEF Lookup, JobAction
<1>2. /\ Exists(d) /\ jobs' = jobs /\ drawing' = drawing /\ files' = files /\ saved' = saved
      /\ cut' = cut
  BY DEF Lookup, apiUnchanged, storesUnchanged
<1>3. drawing[d].file \in Nat /\ drawing[d].revision \in Nat /\ drawing[d].text \in Texts
  BY DEF FileTypes, Drawing
<1>4. /\ calls[c].step = "idle"
      /\ calls' \in [Calls -> Call \cup {Idle}]
      /\ calls'[c].step = step /\ calls'[c].doc = d /\ calls'[c].file = drawing[d].file
      /\ \A b \in Calls \ {c} : calls'[b] = calls[b]
  BY <1>1, <1>3, Begins
<1>5. FileTypes'
  BY <1>2, <1>4 DEF FileTypes
<1>6. SavedInv' /\ OwnerInv'
  BY <1>2, <1>4 DEF SavedInv, OwnerInv, Exists
<1>7. NewFileInv'
  <2> SUFFICES ASSUME NEW k \in Calls, calls'[k].step \in {"store", "swapped"}
               PROVE  /\ calls'[k].file \in files
                      /\ \A b \in Calls \ {k} : calls'[b].step \in Handling =>
                            calls'[b].file # calls'[k].file
                      /\ \A e \in Docs : Exists(e) => drawing[e].file # calls'[k].file
    BY <1>2 DEF NewFileInv, Exists
  <2>1. k # c /\ calls'[k] = calls[k]
    BY <1>1, <1>4
  <2> QED
    BY <1>2, <1>4, <2>1 DEF NewFileInv
<1>8. RecordHasFile'
  <2>1. \A b \in Calls : calls[b].step \in FileSteps => calls'[b] = calls[b]
    BY <1>4 DEF FileSteps
  <2> QED
    BY <1>2, <2>1 DEF RecordHasFile, Exists, FileLost
<1> QED
  BY <1>5, <1>6, <1>7, <1>8

\* The file that was read is removed, a new one may be saved in its place: in
\* SwapFile, which may end there, and in Unlink.
LEMMA Removes ==
    ASSUME FileInv, FileTypes', NEW c \in Calls, NEW new \in SUBSET {saved + 1},
           calls[c].step \in {"revise", "doomed"}, drawing' = drawing,
           saved' \in Nat, saved <= saved',
           files' = (files \ {calls[c].file}) \cup new,
           \/ calls'[c].step \in FileSteps /\ calls'[c].doc = calls[c].doc
           \/ calls'[c].step = "idle" /\ \A d \in Docs : d = calls[c].doc => FileLost(d)',
           \A d \in Docs : FileLost(d) => FileLost(d)',
           calls'[c].step = "swapped" => /\ saved' = saved + 1 /\ saved' \in new
                                         /\ calls'[c].file = saved + 1,
           \A b \in Calls \ {c} : calls'[b] = calls[b]
    PROVE  FileInv'
<1> USE DEF FileInv
<1>1. saved \in Nat /\ \A e \in Docs : Exists(e)' = Exists(e)
  BY DEF FileTypes, Exists
<1>2. SavedInv'
  BY <1>1 DEF SavedInv, Handling, FileSteps
<1>3. NewFileInv'
  <2> SUFFICES ASSUME NEW k \in Calls, calls'[k].step \in {"store", "swapped"}
               PROVE  /\ calls'[k].file \in files'
                      /\ \A b \in Calls \ {k} : calls'[b].step \in Handling =>
                            calls'[b].file # calls'[k].file
                      /\ \A e \in Docs : Exists(e) => drawing[e].file # calls'[k].file
    BY <1>1 DEF NewFileInv
  <2>1. CASE k = c
    <3>1. calls'[k].file = saved + 1 /\ saved + 1 \in files'
      BY <2>1 DEF FileSteps
    <3>2. \A b \in Calls \ {k} : calls'[b].step \in Handling => calls'[b].file # saved + 1
      BY <1>1, <2>1 DEF SavedInv
    <3>3. \A e \in Docs : Exists(e) => drawing[e].file # saved + 1
      BY <1>1 DEF SavedInv
    <3> QED
      BY <3>1, <3>2, <3>3
  <2>2. CASE k # c
    <3>1. calls'[k] = calls[k] /\ calls[k].file \in files /\ calls[k].file # calls[c].file
          /\ calls[k].file # saved + 1
      BY <1>1, <2>2 DEF NewFileInv, SavedInv, Handling
    <3>2. calls'[c].step \in Handling => calls'[c].file = saved + 1
      BY DEF Handling, FileSteps
    <3>3. \A b \in Calls \ {c, k} : calls[b].step \in Handling => calls[b].file # calls[k].file
      BY <2>2, <3>1 DEF NewFileInv
    <3> QED
      BY <3>1, <3>2, <3>3 DEF NewFileInv
  <2> QED
    BY <2>1, <2>2
<1>4. OwnerInv'
  <2>1. \A k \in Calls : calls'[k].step \in {"doomed", "revise"} => calls'[k] = calls[k]
    BY DEF FileSteps
  <2> QED
    BY <1>1, <2>1 DEF OwnerInv
<1>5. RecordHasFile'
  <2> SUFFICES ASSUME NEW d \in Docs, Exists(d)
               PROVE  \/ drawing[d].file \in files'
                      \/ \E k \in Calls : calls'[k].step \in FileSteps /\ calls'[k].doc = d
                      \/ FileLost(d)'
    BY <1>1 DEF RecordHasFile
  <2>1. CASE drawing[d].file = calls[c].file
    BY <2>1 DEF OwnerInv
  <2>2. CASE drawing[d].file \in files /\ drawing[d].file # calls[c].file
    BY <2>2
  <2>3. ASSUME NEW k \in Calls, calls[k].step \in FileSteps, calls[k].doc = d
        PROVE  calls'[k] = calls[k]
    BY <2>3 DEF FileSteps
  <2> QED
    BY <2>1, <2>2, <2>3 DEF RecordHasFile
<1> QED
  BY <1>2, <1>3, <1>4, <1>5

LEMMA SwapFileInv == ASSUME FileInv, NEW c \in Calls, SwapFile(c) PROVE FileInv'
<1> USE DEF FileInv
<1> DEFINE q == [calls[c] EXCEPT !.step = "swapped", !.file = saved + 1]
<1>1. calls[c].step = "revise" /\ calls[c] \in Call /\ saved \in Nat /\ saved + 1 \in Nat
      /\ calls[c].doc \in Docs
  BY InCall DEF SwapFile, FileTypes
<1>2. q \in Call /\ q.step = "swapped" /\ q.file = saved + 1 /\ q.doc = calls[c].doc
  BY <1>1 DEF Call
<1>3. jobs' = jobs /\ drawing' = drawing
  BY DEF SwapFile, storesUnchanged
<1>4. CASE /\ saved' = saved + 1 /\ files' = (files \ {calls[c].file}) \cup {saved + 1}
           /\ calls' = [calls EXCEPT ![c] = q] /\ cut' = cut
  <2> HIDE DEF q
  <2>1. calls'[c] = q /\ (\A b \in Calls \ {c} : calls'[b] = calls[b])
        /\ calls' \in [Calls -> Call \cup {Idle}]
    BY <1>2, <1>4 DEF FileTypes
  <2>2. FileTypes'
    <3>1. files \subseteq 1..saved
      BY DEF FileTypes
    <3>2. 1..saved \subseteq 1..(saved + 1) /\ saved + 1 \in 1..(saved + 1)
      BY <1>1
    <3>3. files' \subseteq 1..saved'
      BY <1>4, <3>1, <3>2
    <3> QED
      BY <1>1, <1>3, <1>4, <2>1, <3>3 DEF FileTypes
  <2>3. saved' \in Nat /\ saved <= saved' /\ {saved + 1} \in SUBSET {saved + 1}
    BY <1>1, <1>4
  <2>4. /\ calls'[c].step = "swapped" /\ calls'[c].doc = calls[c].doc
        /\ calls'[c].file = saved + 1 /\ saved' \in {saved + 1}
        /\ calls'[c].step \in FileSteps /\ \A d \in Docs : FileLost(d) => FileLost(d)'
    BY <1>2, <1>4, <2>1 DEF FileSteps, FileLost
  <2> QED
    BY <1>1, <1>3, <1>4, <2>1, <2>2, <2>3, <2>4, Removes
<1>5. CASE /\ saved' = saved /\ files' = files \ {calls[c].file} /\ Return(c)
           /\ cut' = cut \cup {<<calls[c].doc, "swapped">>}
  <2>1. /\ calls' \in [Calls -> Call \cup {Idle}]
        /\ calls'[c].step = "idle"
        /\ \A b \in Calls \ {c} : calls'[b] = calls[b]
    BY <1>5, Returns
  <2>2. FileTypes'
    BY <1>3, <1>5, <2>1 DEF FileTypes
  <2>3. /\ \A d \in Docs : d = calls[c].doc => FileLost(d)'
        /\ \A d \in Docs : FileLost(d) => FileLost(d)'
    BY <1>5 DEF FileLost, FileSteps
  <2>4. files' = (files \ {calls[c].file}) \cup {} /\ {} \in SUBSET {saved + 1}
    BY <1>5
  <2>5. saved' \in Nat /\ saved <= saved'
    BY <1>1, <1>5
  <2> QED
    BY <1>1, <1>3, <2>1, <2>2, <2>3, <2>4, <2>5, Removes
<1> QED
  BY <1>4, <1>5 DEF SwapFile

LEMMA UnlinkInv == ASSUME FileInv, NEW c \in Calls, Unlink(c) PROVE FileInv'
<1> USE DEF FileInv
<1>1. calls[c].step = "doomed" /\ saved \in Nat
  BY DEF Unlink, FileTypes
<1>2. /\ saved' = saved /\ files' = files \ {calls[c].file}
      /\ jobs' = jobs /\ drawing' = drawing /\ Goto(c, "unlinked") /\ cut' = cut
  BY DEF Unlink, apiUnchanged, storesUnchanged
<1>3. /\ calls' \in [Calls -> Call \cup {Idle}]
      /\ calls'[c].step = "unlinked" /\ calls'[c].doc = calls[c].doc
      /\ \A b \in Calls \ {c} : calls'[b] = calls[b]
  BY <1>1, <1>2, Moves
<1>4. FileTypes'
  BY <1>1, <1>2, <1>3 DEF FileTypes
<1>5. files' = (files \ {calls[c].file}) \cup {} /\ {} \in SUBSET {saved + 1}
  BY <1>2
<1>6. saved' \in Nat /\ saved <= saved'
  BY <1>1, <1>2
<1>7. calls'[c].step \in FileSteps /\ \A d \in Docs : FileLost(d) => FileLost(d)'
  BY <1>2, <1>3 DEF FileSteps, FileLost
<1> QED
  BY <1>1, <1>2, <1>3, <1>4, <1>5, <1>6, <1>7, Removes

LEMMA DeleteRecordInv == ASSUME FileInv, NEW c \in Calls, DeleteRecord(c) PROVE FileInv'
<1> USE DEF FileInv
<1>1. /\ calls[c].step = "unlinked" /\ calls[c].doc \in Docs
      /\ jobs' = jobs /\ files' = files /\ saved' = saved /\ cut' = cut
  BY InCall DEF DeleteRecord, apiUnchanged, storesUnchanged
<1>2. CASE Exists(calls[c].doc)
  <2> DEFINE q == [drawing[calls[c].doc] EXCEPT !.status = "gone"]
  <2>1. drawing[calls[c].doc] \in Drawing
    BY <1>1 DEF FileTypes
  <2>2. q \in Drawing /\ q.status = "gone"
    BY <2>1 DEF Drawing
  <2>3. drawing' = [drawing EXCEPT ![calls[c].doc] = q] /\ Goto(c, "dispatch")
    BY <1>2 DEF DeleteRecord
  <2> HIDE DEF q
  <2>4. /\ calls' \in [Calls -> Call \cup {Idle}]
        /\ calls'[c].step = "dispatch"
        /\ \A b \in Calls \ {c} : calls'[b] = calls[b]
    BY <1>1, <2>3, Moves
  <2>5. FileTypes'
    BY <1>1, <2>2, <2>3, <2>4 DEF FileTypes
  <2>6. drawing'[calls[c].doc].status = "gone"
        /\ \A e \in Docs \ {calls[c].doc} : drawing'[e] = drawing[e]
    BY <1>1, <2>2, <2>3 DEF FileTypes
  <2>7. Apart
    BY <1>1, <2>4, <2>5, <2>6 DEF Apart, Exists, Handling, DrawingStatus, FileLost
  <2> QED
    BY <2>7, ApartInv
<1>3. CASE ~Exists(calls[c].doc)
  <2>1. Return(c) /\ drawing' = drawing
    BY <1>3 DEF DeleteRecord
  <2>2. /\ calls' \in [Calls -> Call \cup {Idle}]
        /\ calls'[c].step = "idle"
        /\ \A b \in Calls \ {c} : calls'[b] = calls[b]
    BY <2>1, Returns
  <2>3. Apart
    BY <1>1, <1>3, <2>1, <2>2 DEF Apart, FileTypes, Exists, Handling, FileLost
  <2> QED
    BY <2>3, ApartInv
<1> QED
  BY <1>2, <1>3

LEMMA FinishInv == ASSUME FileInv, NEW c \in Calls, Finish(c) PROVE FileInv'
<1> USE DEF FileInv
<1>1. /\ calls[c].step = "published" /\ Return(c)
      /\ jobs' = jobs /\ drawing' = drawing /\ files' = files /\ saved' = saved /\ cut' = cut
  BY DEF Finish, apiUnchanged, storesUnchanged
<1>2. /\ calls' \in [Calls -> Call \cup {Idle}]
      /\ calls'[c].step = "idle"
      /\ \A b \in Calls \ {c} : calls'[b] = calls[b]
  BY <1>1, Returns
<1>3. Apart
  BY <1>1, <1>2 DEF Apart, FileTypes, Exists, Handling, FileLost
<1> QED
  BY <1>3, ApartInv

-----------------------------------------------------------------------------
(* The worker, and what manuals and drawings share.                        *)

\* The pipeline writes nothing of a drawing's record but its status.
LEMMA PipelineInv == ASSUME FileInv, Pipeline PROVE FileInv'
<1> USE DEF FileInv
<1>1. calls' = calls /\ files' = files /\ saved' = saved /\ cut' = cut
  BY DEF Pipeline, MarkJob, Find, MarkDoc, Embed, Purge, Insert, DocDone, JobDone, FailDoc,
         pipelineUnchanged
<1>2. jobs' = jobs \/ \E s \in JobStatus : jobs' = [jobs EXCEPT ![current].status = s]
  BY DEF Pipeline, MarkJob, Find, MarkDoc, Embed, Purge, Insert, DocDone, JobDone, FailDoc,
         SetJob, JobStatus
<1>3. jobs' \in Seq(Job)
  BY <1>2, JobsStay DEF FileTypes
<1>4. \/ drawing' = drawing
      \/ \E s \in DrawingStatus : Exists(Doc) /\ drawing' = [drawing EXCEPT ![Doc].status = s]
  <2>1. CASE MarkDoc
    BY <2>1 DEF MarkDoc, SetDrawing, DrawingStatus
  <2>2. CASE DocDone
    BY <2>2 DEF DocDone, SetDrawing, DrawingStatus
  <2>3. CASE FailDoc
    BY <2>3 DEF FailDoc, DrawingStatus
  <2>4. CASE MarkJob \/ Find \/ Embed \/ Purge \/ Insert \/ JobDone
    BY <2>4 DEF MarkJob, Find, Embed, Purge, Insert, JobDone
  <2> QED
    BY <2>1, <2>2, <2>3, <2>4 DEF Pipeline
<1>5. drawing' \in [Docs -> Drawing]
      /\ \A e \in Docs : Exists(e)' => Exists(e) /\ drawing'[e].file = drawing[e].file
  <2>1. CASE drawing' = drawing
    BY <2>1 DEF FileTypes, Exists
  <2>2. ASSUME NEW s \in DrawingStatus, Exists(Doc), drawing' = [drawing EXCEPT ![Doc].status = s]
        PROVE  <1>5
    <3> DEFINE q == [drawing[Doc] EXCEPT !.status = s]
    <3>1. drawing' = [drawing EXCEPT ![Doc] = q]
      BY <2>2
    <3>2. Doc \in Docs => q \in Drawing /\ q.file = drawing[Doc].file
      BY DEF FileTypes, Drawing
    <3> HIDE DEF q
    <3> QED
      BY <2>2, <3>1, <3>2 DEF FileTypes, Exists
  <2> QED
    BY <1>4, <2>1, <2>2
<1>6. Apart
  BY <1>1, <1>3, <1>5 DEF Apart, FileTypes, FileLost
<1> QED
  BY <1>6, ApartInv

LEMMA SharedInv == ASSUME FileInv, Shared PROVE FileInv'
<1> USE DEF FileInv
<1>0. drawing' = drawing /\ files' = files /\ saved' = saved
      /\ cut' = (cut \ MadeUp) \cup CutOff
  BY DEF Shared, drawingVars
<1>1. ASSUME jobs' \in Seq(Job), calls' \in [Calls -> Call \cup {Idle}],
             \A c \in Calls : calls'[c] = calls[c] \/
                (/\ calls'[c].step \in {"publish", "published", "idle"}
                 /\ calls[c].step \in FileSteps => calls'[c] = Idle)
      PROVE  FileInv'
  <2>1. \A d \in Docs : FileLost(d) => FileLost(d)'
    BY <1>0 DEF FileLost, MadeUp, FileSteps
  <2>2. \A c \in Calls : calls[c].step \in FileSteps /\ calls'[c] = Idle =>
            \A d \in Docs : d = calls[c].doc => FileLost(d)'
    BY <1>0 DEF FileLost, CutOff, CutSteps
  <2>3. Apart
    BY <1>0, <1>1, <2>1, <2>2 DEF Apart, FileTypes, Exists, Handling, FileSteps
  <2> QED
    BY <2>3, ApartInv
<1>2. ASSUME NEW c \in Calls, InsertJob(c) PROVE FileInv'
  <2>1. calls[c].step = "dispatch" /\ calls[c] \in Call /\ Len(jobs) + 1 \in Nat
    BY <1>2, InCall, LenProperties DEF InsertJob, FileTypes
  <2>2. jobs' \in Seq(Job)
    <3>1. [doc |-> calls[c].doc, action |-> calls[c].action, status |-> "PENDING"] \in Job
      BY <2>1 DEF Call, Job, JobStatus
    <3> QED
      BY <1>2, <3>1, JobsStay DEF InsertJob, FileTypes
  <2> DEFINE q == [calls[c] EXCEPT !.step = "publish", !.job = Len(jobs) + 1]
  <2>3. q \in Call /\ q.step = "publish"
    BY <2>1 DEF Call
  <2>4. calls' = [calls EXCEPT ![c] = q]
    BY <1>2 DEF InsertJob
  <2> HIDE DEF q
  <2> QED
    BY <1>1, <2>1, <2>2, <2>3, <2>4 DEF FileTypes, FileSteps
<1>3. ASSUME NEW c \in Calls, Publish(c) PROVE FileInv'
  <2>1. calls[c].step = "publish" /\ Goto(c, "published") /\ jobs' = jobs
    BY <1>3 DEF Publish
  <2> QED
    BY <1>1, <2>1, Moves DEF FileTypes, FileSteps
<1>4. ASSUME NEW c \in Calls, PublishFails(c) \/ RequestFails(c) PROVE FileInv'
  <2>1. Return(c) /\ jobs' = jobs
    BY <1>4 DEF PublishFails, RequestFails
  <2> QED
    BY <1>1, <2>1, Returns DEF FileTypes
<1>5. CASE ApiCrash
  <2>1. calls' = [c \in Calls |-> Idle] /\ jobs' = jobs
    BY <1>5 DEF ApiCrash
  <2> QED
    BY <1>1, <2>1 DEF FileTypes, Idle
<1>6. CASE WorkerLoop \/ WorkerCrash \/ StepFails
  <2>1. calls' = calls
    BY <1>6 DEF WorkerLoop, Fetch, Take, Commit, FailJob, Backoff, PublishDlq, WorkerCrash, StepFails
  <2>2. jobs' = jobs \/ \E s \in JobStatus : jobs' = [jobs EXCEPT ![current].status = s]
    BY <1>6 DEF WorkerLoop, Fetch, Take, Commit, FailJob, Backoff, PublishDlq, WorkerCrash, StepFails,
                SetJob, JobStatus
  <2> QED
    BY <1>1, <2>1, <2>2, JobsStay, SMTT(30) DEF FileTypes
<1> QED
  BY <1>2, <1>3, <1>4, <1>5, <1>6 DEF Shared, SharedStep, Dispatch

LEMMA InitInv == Init => FileInv
<1> SUFFICES ASSUME Init PROVE FileInv
  OBVIOUS
<1>1. calls = [c \in Calls |-> Idle] /\ jobs = <<>> /\ saved = 0 /\ files = {}
  BY DEF Init, IngestInit
<1>2. drawing \in [Docs -> Drawing] /\ \A d \in Docs : ~Exists(d)
  BY DEF Init, Drawing, Exists, DrawingStatus
<1> QED
  BY <1>1, <1>2, EmptySeq DEF FileInv, FileTypes, SavedInv, NewFileInv, OwnerInv, RecordHasFile,
                              Idle, Handling

LEMMA StepInv == FileInv /\ [Next]_vars => FileInv'
<1> SUFFICES ASSUME FileInv, [Next]_vars PROVE FileInv'
  OBVIOUS
<1>1. CASE UNCHANGED vars
  BY <1>1 DEF FileInv, FileTypes, SavedInv, NewFileInv, OwnerInv, RecordHasFile, Exists,
              FileLost, vars, ingestVars, drawingVars
<1>2. ASSUME NEW c \in Calls, Service(c) PROVE FileInv'
  BY <1>2, CreateInv, StoreInv, SwapFileInv, SetRevisionInv, UnlinkInv, DeleteRecordInv,
     FinishInv, UpdateInv, LookupInv DEF Service
<1> QED
  BY <1>1, <1>2, PipelineInv, SharedInv DEF Next

\* DrawingService removes the file it has read of and works on what it has read:
\* nevertheless no record is left with a file that is not there, unless a request
\* is still about to replace the record or was cut off before it did.
THEOREM RecordHasFileAlways == Spec => []RecordHasFile
<1>1. FileInv /\ [Next]_vars => FileInv'
  BY StepInv
<1>2. FileInv => RecordHasFile
  BY DEF FileInv
<1> QED
  BY <1>1, <1>2, InitInv, PTL DEF Spec

-----------------------------------------------------------------------------
(* The card in the index: IInv.                                            *)

TypeInv == TypeOK /\ WorkerInv

\* What the type invariant says of requests, jobs and the record in hand.
LEMMA Fields ==
    ASSUME TypeInv
    PROVE  /\ LoopInv /\ FileTypes
           /\ \A j \in 1..Len(jobs) : /\ jobs[j] \in Job
                                       /\ jobs[j].doc \in Docs
                                       /\ jobs[j].action \in JobAction
                                       /\ jobs[j].status \in JobStatus
           /\ Len(jobs) \in Nat /\ Len(log) \in Nat
           /\ Holding => current \in 1..Len(jobs) /\ Doc \in Docs
           /\ drawing \in [Docs -> Drawing]
           /\ cards \in [Docs -> Seq(Card)] /\ read \in Card
           /\ faults \in 0..MaxFaults /\ cut \subseteq Docs \X CutSteps
<1>1. /\ IngestTypeOK /\ WorkerInv
      /\ calls \in [Calls -> Call \cup {Idle}]
      /\ drawing \in [Docs -> Drawing]
      /\ cards \in [Docs -> Seq(Card)] /\ read \in Card
      /\ saved \in Nat /\ files \subseteq 1..saved
      /\ faults \in 0..MaxFaults /\ cut \subseteq Docs \X CutSteps
  BY DEF TypeInv, TypeOK, IngestTypeOK, Drawing
<1>2. RequestsOK
  <2>1. IsRecord(calls) /\ DOMAIN calls = Calls
    BY <1>1 DEF IsRecord
  <2>2. ASSUME NEW c \in Calls, calls[c].step # "idle"
        PROVE  /\ IsRecord(calls[c]) /\ {"step", "job"} \subseteq DOMAIN calls[c]
               /\ calls[c].doc \in Docs /\ calls[c].action \in JobAction
    <3>1. calls[c] \in Call
      BY <1>1, <2>2 DEF Idle
    <3> QED
      BY <3>1 DEF Call, IsRecord
  <2> QED
    BY <2>1, <2>2 DEF RequestsOK
<1>3. LoopInv /\ FileTypes
  BY <1>1, <1>2 DEF LoopInv, FileTypes, IngestTypeOK
<1> QED
  BY <1>1, <1>3, WorkerFields

\* What a step of a request leaves alone, and that it forgets no drawing whose
\* job was not inserted.
Serving ==
    /\ UNCHANGED <<jobs, log, offsetVars, workerVars, dlq, cards, read>>
    /\ faults' \in 0..MaxFaults
    /\ cut' \subseteq Docs \X CutSteps
    /\ \A d \in Docs : <<d, "dispatch">> \in cut => <<d, "dispatch">> \in cut'

LEMMA StillServing == ASSUME IInv, UNCHANGED apiUnchanged PROVE Serving
BY Fields DEF IInv, TypeInv, apiUnchanged, storesUnchanged, Serving

\* What a request may do to a drawing's record, and what it is then known for.
Serves(c) ==
    /\ Serving
    /\ FileTypes'
    /\ \A b \in Calls \ {c} : calls'[b] = calls[b]
    /\ \A d \in Docs :
          /\ drawing'[d].status = "DONE" => drawing'[d] = drawing[d]
          /\ drawing[d].status = "gone" => drawing'[d].status = "gone"
          /\ drawing[d].status # "new" => drawing'[d].status # "new"
          /\ drawing[d].status = "new" => drawing'[d] = drawing[d] \/
                (calls[c].step = "store" /\ calls[c].doc = d)
          /\ Exists(d)' => \/ Exists(d) /\ CardOf(d)' = CardOf(d)
                           \/ /\ calls'[c].step = "dispatch" /\ calls'[c].doc = d
                              /\ calls'[c].action = "upsert"
    /\ calls[c].step \notin {"dispatch", "publish"}
    /\ calls'[c].step \notin {"publish", "published"}
    /\ calls'[c].step = "store" =>
          /\ drawing'[calls'[c].doc].status = "new" /\ calls'[c].action = "upsert"
          /\ \A b \in Calls \ {c} : calls[b] # Idle => calls[b].doc # calls'[c].doc
    /\ calls'[c].step \in {"doomed", "unlinked"} =>
          drawing'[calls'[c].doc].status # "new" /\ calls'[c].action = "delete"
    /\ calls'[c].step \in {"revise", "swapped"} => calls'[c].action = "upsert"
    /\ calls'[c].step = "dispatch" /\ calls'[c].action = "delete" =>
          drawing'[calls'[c].doc].status = "gone"
    /\ \/ calls'[c] = Idle \/ calls'[c].step = "store"
       \/ Exists(calls'[c].doc) /\ calls'[c].doc \in Docs
       \/ calls[c] # Idle /\ calls'[c].doc = calls[c].doc

LEMMA ServesKeeps ==
    ASSUME IInv, NEW c \in Calls, Serves(c)
    PROVE  IInv'
<1> USE DEF Serves, Serving
<1>0. /\ TypeInv /\ TypeOK /\ NewRecordInv /\ DeletedInv /\ IngestInv /\ CardInv /\ DoneHasCard /\ DeleteIsFinal
      /\ IngestTypeOK /\ WorkerInv
      /\ FileTypes
      /\ \A b \in Calls : calls[b].step # "idle" => calls[b].doc \in Docs
      /\ \A j \in 1..Len(jobs) : jobs[j].doc \in Docs
      /\ Holding => Doc \in Docs
      /\ UNCHANGED <<stage, current>>
  BY Fields, InCall DEF IInv, TypeInv, TypeOK, workerVars
<1>1. TypeOK'
  BY <1>0 DEF TypeOK, IngestTypeOK, offsetVars, workerVars, FileTypes, Drawing
<1>2. WorkerInv'
  <2>1. \A b \in Calls : calls'[b].step = "publish" => calls'[b] = calls[b]
    OBVIOUS
  <2> QED
    BY <1>0, <2>1 DEF WorkerInv, Holding, IsUpsert, offsetVars, workerVars
<1>3. NewRecordInv'
  <2> SUFFICES ASSUME NEW b \in Calls, calls'[b].step = "store"
               PROVE  /\ drawing'[calls'[b].doc].status = "new" /\ calls'[b].action = "upsert"
                      /\ \A a \in Calls \ {b} : calls'[a] # Idle => calls'[a].doc # calls'[b].doc
    BY DEF NewRecordInv
  <2>1. CASE b = c
    BY <2>1
  <2>2. CASE b # c
    <3>1. /\ calls'[b] = calls[b] /\ calls[b].step = "store"
          /\ drawing[calls[b].doc].status = "new" /\ calls[b].action = "upsert"
          /\ calls[b].doc \in Docs
      BY <1>0, <2>2 DEF NewRecordInv
    <3>2. \A a \in Calls \ {b} : calls[a] # Idle => calls[a].doc # calls[b].doc
      BY <1>0, <3>1 DEF NewRecordInv
    <3>3. calls[b] # Idle
      BY <3>1 DEF Idle
    <3>4. calls[c].step = "store" => calls[c].doc # calls[b].doc
      BY <2>2, <3>2 DEF Idle
    <3>5. drawing'[calls[b].doc].status = "new"
      BY <3>1, <3>4
    <3>6. calls'[c] # Idle => calls'[c].doc # calls[b].doc
      <4>1. CASE calls'[c].step = "store"
        BY <2>2, <3>3, <4>1
      <4>2. CASE Exists(calls'[c].doc)
        BY <3>1, <4>2 DEF Exists, DrawingStatus
      <4>3. CASE calls[c] # Idle /\ calls'[c].doc = calls[c].doc
        BY <2>2, <3>2, <4>3
      <4> QED
        BY <4>1, <4>2, <4>3
    <3> QED
      BY <2>2, <3>1, <3>2, <3>5, <3>6
  <2> QED
    BY <2>1, <2>2
<1>4. DeletedInv'
  <2>1. ASSUME NEW b \in Calls \ {c}
        PROVE  /\ calls'[b].step \in {"doomed", "unlinked"} =>
                     drawing'[calls'[b].doc].status # "new" /\ calls'[b].action = "delete"
               /\ calls'[b].step \in {"revise", "swapped"} => calls'[b].action = "upsert"
               /\ calls'[b].step = "dispatch" /\ calls'[b].action = "delete" =>
                     drawing'[calls'[b].doc].status = "gone"
    BY <1>0 DEF DeletedInv
  <2>2. \A j \in 1..Len(jobs) : jobs[j].action = "delete" => drawing'[jobs[j].doc].status = "gone"
    BY <1>0 DEF DeletedInv
  <2> QED
    BY <2>1, <2>2 DEF DeletedInv
<1>5. IngestInv' /\ CardInv'
  <2>1. Ingesting' = Ingesting /\ Doc' = Doc /\ IsUpsert' = IsUpsert /\ (Ingesting => Doc \in Docs)
    BY <1>0 DEF Ingesting, Doc, IsUpsert, Holding
  <2> QED
    BY <1>0, <2>1 DEF IngestInv, CardInv, JobsOf
<1>6. DoneHasCard' /\ DeleteIsFinal'
  BY <1>0 DEF DoneHasCard, DeleteIsFinal, JobsOf
<1> QED
  BY <1>1, <1>2, <1>3, <1>4, <1>5, <1>6 DEF IInv

\* A record that changes is owed an ingestion by the request that changed it.
LEMMA ServesCurrent ==
    ASSUME IInv, CurrentInv, NEW c \in Calls, Serves(c)
    PROVE  CurrentInv'
<1> USE DEF Serves, Serving
<1>0. /\ UNCHANGED <<stage, current, jobs, cards, read>>
      /\ Holding => Doc \in Docs
      /\ \A d \in Docs : drawing'[d].status = "DONE" => drawing'[d] = drawing[d]
  BY Fields DEF IInv, TypeInv, workerVars
<1>1. \A d \in Docs : \A k : Owed(d, k) => Owed(d, k)'
  BY <1>0 DEF Owed, JobsOf
<1>2. Finishing' = Finishing
  BY <1>0 DEF Finishing
<1>3. ASSUME NEW d \in Docs, drawing'[d].status = "DONE"
      PROVE  cards'[d] = <<CardOf(d)'>> \/ Owed(d, Finishing)'
  <2>1. drawing'[d] = drawing[d] /\ drawing[d].status = "DONE"
    BY <1>0, <1>3
  <2>2. cards[d] = <<CardOf(d)>> \/ Owed(d, Finishing)
    BY <2>1 DEF CurrentInv
  <2> QED
    BY <1>0, <1>1, <1>2, <2>1, <2>2 DEF CardOf
<1>4. HasRead' /\ Exists(Doc)' => (read = CardOf(Doc) \/ Owed(Doc, current))'
  <2> SUFFICES ASSUME HasRead, Exists(Doc)' PROVE (read = CardOf(Doc) \/ Owed(Doc, current))'
    BY <1>0 DEF HasRead, IsUpsert
  <2>1. Doc \in Docs /\ Doc' = Doc
    BY <1>0 DEF HasRead, Holding, Doc
  <2>2. CASE Exists(Doc) /\ CardOf(Doc)' = CardOf(Doc)
    <3>1. read = CardOf(Doc) \/ Owed(Doc, current)
      BY <2>2 DEF CurrentInv
    <3> QED
      BY <1>0, <1>1, <2>1, <2>2, <3>1
  <2>3. CASE /\ calls'[c].step = "dispatch" /\ calls'[c].doc = Doc
             /\ calls'[c].action = "upsert"
    BY <2>1, <2>3 DEF Owed
  <2>4. Exists(Doc)' => drawing'[Doc].status \in DrawingStatus
    BY <2>1 DEF Exists
  <2> QED
    BY <2>1, <2>2, <2>3 DEF Exists
<1> QED
  BY <1>0, <1>3, <1>4 DEF CurrentInv

\* A request that leaves every record as it is.
LEMMA Looks ==
    ASSUME FileTypes, FileTypes', NEW c \in Calls, Serving, drawing' = drawing,
           \A b \in Calls \ {c} : calls'[b] = calls[b],
           calls[c].step \notin {"dispatch", "publish"},
           calls'[c].step \notin {"store", "dispatch", "publish", "published"},
           calls'[c].step \in {"doomed", "unlinked"} =>
              drawing[calls'[c].doc].status # "new" /\ calls'[c].action = "delete",
           calls'[c].step \in {"revise", "swapped"} => calls'[c].action = "upsert",
           \/ calls'[c] = Idle
           \/ Exists(calls'[c].doc) /\ calls'[c].doc \in Docs
           \/ calls[c] # Idle /\ calls'[c].doc = calls[c].doc
    PROVE  Serves(c)
<1>1. \A d \in Docs : Exists(d)' => Exists(d) /\ CardOf(d)' = CardOf(d)
  BY DEF Exists, CardOf
<1> QED
  BY <1>1 DEF Serves, Serving, Exists

\* A request that writes a record, and goes on to dispatch its job.
LEMMA Writes ==
    ASSUME FileTypes, FileTypes', NEW c \in Calls, NEW d \in Docs, NEW q \in Drawing,
           Serving, drawing' = [drawing EXCEPT ![d] = q],
           \A b \in Calls \ {c} : calls'[b] = calls[b],
           calls[c].step \notin {"dispatch", "publish"},
           calls'[c].step = "dispatch", calls'[c].doc = d,
           \/ calls'[c].action = "upsert" /\ q.status = "PENDING"
           \/ calls'[c].action = "delete" /\ q.status = "gone",
           \/ drawing[d].status \in DrawingStatus
           \/ calls[c].step = "store" /\ calls[c].doc = d /\ drawing[d].status = "new"
    PROVE  Serves(c)
<1>1. drawing'[d] = q /\ \A e \in Docs \ {d} : drawing'[e] = drawing[e]
  BY DEF FileTypes
<1>2. ASSUME NEW e \in Docs, e # d, Exists(e)' PROVE Exists(e) /\ CardOf(e)' = CardOf(e)
  BY <1>1, <1>2 DEF Exists, CardOf
<1>3. Exists(d)' => calls'[c].action = "upsert"
  BY <1>1 DEF Exists, DrawingStatus
<1>4. drawing[d].status # "gone" /\ (drawing[d].status = "new" => calls[c].step = "store" /\ calls[c].doc = d)
  BY DEF Exists, DrawingStatus
<1>5. q.status # "DONE" /\ q.status # "new" /\ (calls'[c].action = "delete" => q.status = "gone")
  OBVIOUS
<1>6. calls'[c] = Idle \/ calls'[c].step = "store" \/ (Exists(calls'[c].doc) /\ calls'[c].doc \in Docs)
      \/ (calls[c] # Idle /\ calls'[c].doc = calls[c].doc)
  BY DEF Idle, Exists, DrawingStatus
<1>7. \A e \in Docs :
          /\ drawing'[e].status = "DONE" => drawing'[e] = drawing[e]
          /\ drawing[e].status = "gone" => drawing'[e].status = "gone"
          /\ drawing[e].status # "new" => drawing'[e].status # "new"
          /\ drawing[e].status = "new" => drawing'[e] = drawing[e] \/
                (calls[c].step = "store" /\ calls[c].doc = e)
          /\ Exists(e)' => \/ Exists(e) /\ CardOf(e)' = CardOf(e)
                           \/ /\ calls'[c].step = "dispatch" /\ calls'[c].doc = e
                              /\ calls'[c].action = "upsert"
  BY <1>1, <1>2, <1>3, <1>4, <1>5
<1> QED
  BY <1>1, <1>4, <1>5, <1>6, <1>7 DEF Serves, Serving

LEMMA CreateServes == ASSUME IInv, NEW c \in Calls, Create(c) PROVE Serves(c)
<1>0. FileTypes
  BY Fields DEF IInv, TypeInv
<1>1. PICK d \in Docs, t \in Texts :
          /\ drawing[d].status = "new" /\ \A b \in Calls : calls[b] # Idle => calls[b].doc # d
          /\ saved' = saved + 1 /\ files' = files \cup {saved + 1}
          /\ Request(c, "store", d, "upsert", [file |-> saved + 1, revision |-> 1, text |-> t])
          /\ drawing' = drawing /\ UNCHANGED apiUnchanged
  BY DEF Create
<1>2. saved \in Nat /\ saved + 1 \in Nat
  BY <1>0 DEF FileTypes
<1>3. /\ calls[c] = Idle /\ calls[c].step = "idle"
      /\ calls' \in [Calls -> Call \cup {Idle}]
      /\ calls'[c].step = "store" /\ calls'[c].doc = d /\ calls'[c].action = "upsert"
      /\ \A b \in Calls \ {c} : calls'[b] = calls[b]
  BY <1>0, <1>1, <1>2, Begins DEF JobAction
<1>4. FileTypes'
  <2>1. jobs' = jobs
    BY <1>1 DEF apiUnchanged, storesUnchanged
  <2> QED
    BY <1>0, <1>1, <1>2, <1>3, <2>1 DEF FileTypes
<1>5. \A e \in Docs : Exists(e)' => Exists(e) /\ CardOf(e)' = CardOf(e)
  BY <1>1 DEF Exists, CardOf
<1>6. Serving
  BY <1>1, StillServing
<1> QED
  BY <1>1, <1>3, <1>4, <1>5, <1>6 DEF Serves, Serving

LEMMA StoreServes == ASSUME IInv, NEW c \in Calls, Store(c) PROVE Serves(c)
<1>0. FileTypes
  BY Fields DEF IInv, TypeInv
<1> DEFINE q == [status |-> "PENDING", revision |-> 1, text |-> calls[c].text, file |-> calls[c].file]
<1>1. calls[c].step = "store" /\ calls[c].doc \in Docs /\ q \in Drawing /\ q.status = "PENDING"
  BY <1>0, InCall DEF Store, Drawing, DrawingStatus
<1>2. /\ calls' \in [Calls -> Call \cup {Idle}]
      /\ calls'[c].step = "dispatch" /\ calls'[c].doc = calls[c].doc
      /\ calls'[c].action = calls[c].action
      /\ \A b \in Calls \ {c} : calls'[b] = calls[b]
  BY <1>0, <1>1, Moves DEF Store
<1>3. /\ drawing' = [drawing EXCEPT ![calls[c].doc] = q]
      /\ jobs' = jobs /\ files' = files /\ saved' = saved /\ Serving
  BY StillServing DEF Store, apiUnchanged, storesUnchanged
<1> HIDE DEF q
<1>4. FileTypes'
  BY <1>0, <1>1, <1>2, <1>3 DEF FileTypes
<1>5. calls[c].action = "upsert" /\ drawing[calls[c].doc].status = "new"
  BY <1>1 DEF IInv, NewRecordInv
<1> QED
  BY <1>0, <1>1, <1>2, <1>3, <1>4, <1>5, Writes

LEMMA UpdateServes == ASSUME IInv, NEW c \in Calls, NEW d \in Docs, Update(c, d) PROVE Serves(c)
<1>0. FileTypes
  BY Fields DEF IInv, TypeInv
<1>1. PICK t \in Texts : drawing' = [drawing EXCEPT ![d].text = t, ![d].status = "PENDING"]
  BY DEF Update
<1>2. /\ Exists(d) /\ Request(c, "dispatch", d, "upsert", drawing[d])
      /\ jobs' = jobs /\ files' = files /\ saved' = saved /\ Serving
  BY StillServing DEF Update, apiUnchanged, storesUnchanged
<1> DEFINE q == [drawing[d] EXCEPT !.text = t, !.status = "PENDING"]
<1>3. drawing[d] \in Drawing /\ q \in Drawing /\ q.status = "PENDING"
  BY <1>0 DEF FileTypes, Drawing, DrawingStatus
<1>4. drawing' = [drawing EXCEPT ![d] = q]
  BY <1>1
<1> HIDE DEF q
<1>5. drawing[d].file \in Nat /\ drawing[d].revision \in Nat /\ drawing[d].text \in Texts
  BY <1>3 DEF Drawing
<1>6. /\ calls[c].step = "idle"
      /\ calls' \in [Calls -> Call \cup {Idle}]
      /\ calls'[c].step = "dispatch" /\ calls'[c].doc = d /\ calls'[c].action = "upsert"
      /\ \A b \in Calls \ {c} : calls'[b] = calls[b]
  BY <1>0, <1>2, <1>5, Begins DEF JobAction
<1>7. FileTypes'
  BY <1>0, <1>2, <1>3, <1>4, <1>6 DEF FileTypes
<1> QED
  BY <1>0, <1>2, <1>3, <1>4, <1>6, <1>7, Writes DEF Exists

LEMMA LookupServes == ASSUME IInv, NEW c \in Calls, NEW d \in Docs, Lookup(c, d) PROVE Serves(c)
<1>0. FileTypes
  BY Fields DEF IInv, TypeInv
<1>1. PICK step \in {"revise", "doomed"}, action \in JobAction :
          /\ Request(c, step, d, action, drawing[d])
          /\ step = "revise" => action = "upsert"
          /\ step = "doomed" => action = "delete"
  BY DEF Lookup, JobAction
<1>2. /\ Exists(d) /\ jobs' = jobs /\ drawing' = drawing /\ files' = files /\ saved' = saved
      /\ Serving
  BY StillServing DEF Lookup, apiUnchanged, storesUnchanged
<1>3. drawing[d].file \in Nat /\ drawing[d].revision \in Nat /\ drawing[d].text \in Texts
  BY <1>0 DEF FileTypes, Drawing
<1>4. /\ calls[c].step = "idle"
      /\ calls' \in [Calls -> Call \cup {Idle}]
      /\ calls'[c].step = step /\ calls'[c].doc = d /\ calls'[c].action = action
      /\ \A b \in Calls \ {c} : calls'[b] = calls[b]
  BY <1>0, <1>1, <1>3, Begins
<1>5. FileTypes'
  BY <1>0, <1>2, <1>4 DEF FileTypes
<1>6. drawing[d].status # "new"
  BY <1>2 DEF Exists, DrawingStatus
<1> QED
  BY <1>0, <1>1, <1>2, <1>4, <1>5, <1>6, Looks

LEMMA SwapFileServes == ASSUME IInv, NEW c \in Calls, SwapFile(c) PROVE Serves(c)
<1>0. FileTypes /\ DeletedInv /\ faults \in 0..MaxFaults /\ cut \subseteq Docs \X CutSteps
  BY Fields DEF IInv, TypeInv
<1> DEFINE q == [calls[c] EXCEPT !.step = "swapped", !.file = saved + 1]
<1>1. /\ calls[c].step = "revise" /\ calls[c] \in Call /\ saved \in Nat /\ saved + 1 \in Nat
      /\ calls[c].doc \in Docs /\ calls[c] # Idle
  BY <1>0, InCall DEF SwapFile, FileTypes, Idle
<1>2. q \in Call /\ q.step = "swapped" /\ q.doc = calls[c].doc /\ q.action = calls[c].action
  BY <1>1 DEF Call
<1>3. /\ UNCHANGED <<jobs, log, offsetVars, workerVars, dlq, cards, read>> /\ drawing' = drawing
  BY DEF SwapFile, storesUnchanged
<1>4. CASE /\ saved' = saved + 1 /\ files' = (files \ {calls[c].file}) \cup {saved + 1}
           /\ calls' = [calls EXCEPT ![c] = q] /\ cut' = cut /\ faults' = faults
  <2> HIDE DEF q
  <2>1. calls'[c] = q /\ (\A b \in Calls \ {c} : calls'[b] = calls[b])
        /\ calls' \in [Calls -> Call \cup {Idle}]
    BY <1>0, <1>2, <1>4 DEF FileTypes
  <2>2. FileTypes'
    <3>1. files \subseteq 1..saved
      BY <1>0 DEF FileTypes
    <3>2. 1..saved \subseteq 1..(saved + 1) /\ saved + 1 \in 1..(saved + 1)
      BY <1>1
    <3>3. files' \subseteq 1..saved'
      BY <1>4, <3>1, <3>2
    <3> QED
      BY <1>0, <1>1, <1>3, <1>4, <2>1, <3>3 DEF FileTypes
  <2>3. calls'[c].step = "swapped" /\ calls'[c].action = "upsert" /\ calls'[c].doc = calls[c].doc
    BY <1>0, <1>1, <1>2, <2>1 DEF DeletedInv
  <2>4. Serving
    BY <1>0, <1>3, <1>4 DEF Serving
  <2> QED
    BY <1>0, <1>1, <1>3, <2>1, <2>2, <2>3, <2>4, Looks
<1>5. CASE /\ saved' = saved /\ files' = files \ {calls[c].file} /\ Return(c) /\ Fault("request")
           /\ cut' = cut \cup {<<calls[c].doc, "swapped">>}
  <2>1. /\ calls' \in [Calls -> Call \cup {Idle}]
        /\ calls'[c].step = "idle" /\ calls'[c] = Idle
        /\ \A b \in Calls \ {c} : calls'[b] = calls[b]
    BY <1>0, <1>5, Returns
  <2>2. FileTypes'
    BY <1>0, <1>3, <1>5, <2>1 DEF FileTypes
  <2>3. faults' \in 0..MaxFaults
    BY <1>0, <1>5, IngestAssumption DEF Fault
  <2>4. Serving
    BY <1>0, <1>1, <1>3, <1>5, <2>3 DEF Serving, CutSteps, FileSteps
  <2> QED
    BY <1>0, <1>1, <1>3, <2>1, <2>2, <2>4, Looks
<1> QED
  BY <1>4, <1>5 DEF SwapFile

LEMMA SetRevisionServes == ASSUME IInv, NEW c \in Calls, SetRevision(c) PROVE Serves(c)
<1>0. FileTypes /\ DeletedInv /\ faults \in 0..MaxFaults /\ cut \subseteq Docs \X CutSteps
  BY Fields DEF IInv, TypeInv
<1>1. /\ calls[c].step = "swapped" /\ calls[c].doc \in Docs
      /\ calls[c].file \in Nat /\ calls[c].revision \in Nat
      /\ jobs' = jobs /\ files' = files /\ saved' = saved
      /\ UNCHANGED <<jobs, log, offsetVars, workerVars, dlq, cards, read>> /\ faults' = faults
      /\ cut' = cut \/ cut' = cut \ ({calls[c].doc} \X FileSteps)
  BY <1>0, InCall DEF SetRevision, storesUnchanged
<1>s. Serving
  BY <1>0, <1>1 DEF Serving, FileSteps
<1>2. CASE Exists(calls[c].doc)
  <2> DEFINE q == [drawing[calls[c].doc] EXCEPT !.file = calls[c].file,
                       !.revision = calls[c].revision + 1, !.status = "PENDING"]
  <2>1. drawing[calls[c].doc] \in Drawing
    BY <1>0, <1>1 DEF FileTypes
  <2>2. q \in Drawing /\ q.status = "PENDING"
    <3>1. calls[c].revision + 1 \in Nat /\ "PENDING" \in DrawingStatus
      BY <1>1 DEF DrawingStatus
    <3> QED
      BY <1>1, <2>1, <3>1 DEF Drawing
  <2>3. drawing' = [drawing EXCEPT ![calls[c].doc] = q] /\ Goto(c, "dispatch")
    BY <1>2 DEF SetRevision
  <2> HIDE DEF q
  <2>4. /\ calls' \in [Calls -> Call \cup {Idle}]
        /\ calls'[c].step = "dispatch" /\ calls'[c].doc = calls[c].doc
        /\ calls'[c].action = calls[c].action
        /\ \A b \in Calls \ {c} : calls'[b] = calls[b]
    BY <1>0, <1>1, <2>3, Moves
  <2>5. FileTypes'
    BY <1>0, <1>1, <2>2, <2>3, <2>4 DEF FileTypes
  <2>6. calls[c].action = "upsert"
    BY <1>0, <1>1 DEF DeletedInv
  <2> QED
    BY <1>0, <1>1, <1>s, <1>2, <2>2, <2>3, <2>4, <2>5, <2>6, Writes DEF Exists
<1>3. CASE ~Exists(calls[c].doc)
  <2>1. Return(c) /\ drawing' = drawing
    BY <1>3 DEF SetRevision
  <2>2. /\ calls' \in [Calls -> Call \cup {Idle}]
        /\ calls'[c].step = "idle" /\ calls'[c] = Idle
        /\ \A b \in Calls \ {c} : calls'[b] = calls[b]
    BY <1>0, <2>1, Returns
  <2>3. FileTypes'
    BY <1>0, <1>1, <2>1, <2>2 DEF FileTypes
  <2> QED
    BY <1>0, <1>1, <1>s, <2>1, <2>2, <2>3, Looks
<1> QED
  BY <1>2, <1>3

LEMMA UnlinkServes == ASSUME IInv, NEW c \in Calls, Unlink(c) PROVE Serves(c)
<1>0. FileTypes /\ DeletedInv
  BY Fields DEF IInv, TypeInv
<1>1. calls[c].step = "doomed" /\ saved \in Nat
  BY <1>0 DEF Unlink, FileTypes
<1>2. /\ saved' = saved /\ files' = files \ {calls[c].file}
      /\ jobs' = jobs /\ drawing' = drawing /\ Goto(c, "unlinked") /\ Serving
  BY StillServing DEF Unlink, apiUnchanged, storesUnchanged
<1>3. /\ calls' \in [Calls -> Call \cup {Idle}]
      /\ calls'[c].step = "unlinked" /\ calls'[c].doc = calls[c].doc
      /\ calls'[c].action = calls[c].action
      /\ \A b \in Calls \ {c} : calls'[b] = calls[b]
  BY <1>0, <1>1, <1>2, Moves
<1>4. FileTypes'
  BY <1>0, <1>1, <1>2, <1>3 DEF FileTypes
<1>5. drawing[calls[c].doc].status # "new" /\ calls[c].action = "delete" /\ calls[c] # Idle
  BY <1>0, <1>1 DEF DeletedInv, Idle
<1> QED
  BY <1>0, <1>1, <1>2, <1>3, <1>4, <1>5, Looks

LEMMA DeleteRecordServes == ASSUME IInv, NEW c \in Calls, DeleteRecord(c) PROVE Serves(c)
<1>0. FileTypes /\ DeletedInv
  BY Fields DEF IInv, TypeInv
<1>1. /\ calls[c].step = "unlinked" /\ calls[c].doc \in Docs
      /\ jobs' = jobs /\ files' = files /\ saved' = saved /\ Serving
  BY <1>0, InCall, StillServing DEF DeleteRecord, apiUnchanged, storesUnchanged
<1>2. CASE Exists(calls[c].doc)
  <2> DEFINE q == [drawing[calls[c].doc] EXCEPT !.status = "gone"]
  <2>1. drawing[calls[c].doc] \in Drawing
    BY <1>0, <1>1 DEF FileTypes
  <2>2. q \in Drawing /\ q.status = "gone"
    BY <2>1 DEF Drawing
  <2>3. drawing' = [drawing EXCEPT ![calls[c].doc] = q] /\ Goto(c, "dispatch")
    BY <1>2 DEF DeleteRecord
  <2> HIDE DEF q
  <2>4. /\ calls' \in [Calls -> Call \cup {Idle}]
        /\ calls'[c].step = "dispatch" /\ calls'[c].doc = calls[c].doc
        /\ calls'[c].action = calls[c].action
        /\ \A b \in Calls \ {c} : calls'[b] = calls[b]
    BY <1>0, <1>1, <2>3, Moves
  <2>5. FileTypes'
    BY <1>0, <1>1, <2>2, <2>3, <2>4 DEF FileTypes
  <2>6. calls[c].action = "delete"
    BY <1>0, <1>1 DEF DeletedInv
  <2> QED
    BY <1>0, <1>1, <1>2, <2>2, <2>3, <2>4, <2>5, <2>6, Writes DEF Exists
<1>3. CASE ~Exists(calls[c].doc)
  <2>1. Return(c) /\ drawing' = drawing
    BY <1>3 DEF DeleteRecord
  <2>2. /\ calls' \in [Calls -> Call \cup {Idle}]
        /\ calls'[c].step = "idle" /\ calls'[c] = Idle
        /\ \A b \in Calls \ {c} : calls'[b] = calls[b]
    BY <1>0, <2>1, Returns
  <2>3. FileTypes'
    BY <1>0, <1>1, <2>1, <2>2 DEF FileTypes
  <2> QED
    BY <1>0, <1>1, <2>1, <2>2, <2>3, Looks
<1> QED
  BY <1>2, <1>3

LEMMA FinishServes == ASSUME IInv, NEW c \in Calls, Finish(c) PROVE Serves(c)
<1>0. FileTypes
  BY Fields DEF IInv, TypeInv
<1>1. /\ calls[c].step = "published" /\ Return(c) /\ Serving
      /\ jobs' = jobs /\ drawing' = drawing /\ files' = files /\ saved' = saved
  BY StillServing DEF Finish, apiUnchanged, storesUnchanged
<1>2. /\ calls' \in [Calls -> Call \cup {Idle}]
      /\ calls'[c].step = "idle" /\ calls'[c] = Idle
      /\ \A b \in Calls \ {c} : calls'[b] = calls[b]
  BY <1>0, <1>1, Returns
<1>3. FileTypes'
  BY <1>0, <1>1, <1>2 DEF FileTypes
<1> QED
  BY <1>0, <1>1, <1>2, <1>3, Looks

LEMMA ServiceServes == ASSUME IInv, NEW c \in Calls, Service(c) PROVE Serves(c)
BY CreateServes, StoreServes, UpdateServes, LookupServes, SwapFileServes, SetRevisionServes,
   UnlinkServes, DeleteRecordServes, FinishServes DEF Service

-----------------------------------------------------------------------------
\* The stages at which the drawing in hand, or what was read of it, matters.
CardStages == {"mark_doc", "embed", "purge", "insert", "doc_done", "job_done"}

\* What the dispatch of jobs, the worker's loop and the faults may do.
Shares ==
    /\ UNCHANGED <<drawing, cards, read>>
    /\ TypeOK' /\ WorkerInv'
    /\ \A c \in Calls :
          \/ calls'[c] = calls[c]
          \/ calls'[c] = Idle
          \/ /\ calls'[c].step \in {"publish", "published"}
             /\ calls'[c].doc = calls[c].doc /\ calls[c] # Idle
    /\ Len(jobs) <= Len(jobs')
    /\ \A j \in 1..Len(jobs) :
          /\ jobs'[j].doc = jobs[j].doc /\ jobs'[j].action = jobs[j].action
          /\ jobs'[j].status = "DONE" => jobs[j].status = "DONE"
    /\ \A j \in 1..Len(jobs') : \/ j \in 1..Len(jobs)
                                \/ /\ jobs'[j].status = "PENDING"
                                   /\ \E c \in Calls : /\ calls[c].step = "dispatch"
                                                       /\ jobs'[j].doc = calls[c].doc
                                                       /\ jobs'[j].action = calls[c].action
    /\ (stage' = stage /\ current' = current) \/ stage' \notin CardStages
    /\ cut' = (cut \ MadeUp) \cup CutOff
    /\ \A c \in Calls :
          \/ calls'[c] = calls[c]
          \/ calls'[c] = Idle
          \/ calls[c].step # "dispatch"
          \/ \E j \in 1..Len(jobs') : /\ j \notin 1..Len(jobs)
                                      /\ jobs'[j].doc = calls[c].doc
                                      /\ jobs'[j].action = calls[c].action
                                      /\ jobs'[j].status # "DONE"

LEMMA SharedShares == ASSUME IInv, Shared PROVE Shares
<1>0. /\ TypeOK /\ WorkerInv /\ LoopInv /\ FileTypes /\ Len(jobs) \in Nat
      /\ calls \in [Calls -> Call \cup {Idle}]
      /\ UNCHANGED <<drawing, cards, read, saved, files>> /\ SharedStep
      /\ cut' = (cut \ MadeUp) \cup CutOff /\ cut \subseteq Docs \X CutSteps
      /\ jobs \in Seq(Job)
  BY Fields DEF IInv, TypeInv, Shared, drawingVars, TypeOK, IngestTypeOK
<1>1. IngestTypeOK' /\ WorkerInv'
  BY <1>0, SharedKeepsType
<1>c. CutOff \subseteq Docs \X CutSteps
  <2>1. \A c \in Calls : calls[c].step \in CutSteps => calls[c].doc \in Docs
    BY <1>0, InCall DEF CutSteps, FileSteps
  <2> QED
    BY <2>1 DEF CutOff
<1>2. calls' \in [Calls -> Call \cup {Idle}] => TypeOK'
  BY <1>0, <1>1, <1>c DEF TypeOK
<1>3. ASSUME NEW c \in Calls, InsertJob(c) PROVE Shares
  <2>1. calls[c].step = "dispatch" /\ calls[c] \in Call /\ calls[c] # Idle
    BY <1>0, <1>3, InCall DEF InsertJob, Idle
  <2> DEFINE new == [doc |-> calls[c].doc, action |-> calls[c].action, status |-> "PENDING"]
             q == [calls[c] EXCEPT !.step = "publish", !.job = Len(jobs) + 1]
  <2>2. /\ new \in Job /\ new.doc = calls[c].doc /\ new.action = calls[c].action
        /\ new.status = "PENDING"
    BY <2>1 DEF Call, Job, JobStatus
  <2>3. q \in Call /\ q.step = "publish" /\ q.doc = calls[c].doc
    <3>1. Len(jobs) + 1 \in Nat
      BY <1>0
    <3> QED
      BY <2>1, <3>1 DEF Call
  <2>4. jobs' = Append(jobs, new) /\ calls' = [calls EXCEPT ![c] = q]
        /\ stage' = stage /\ current' = current
    BY <1>3 DEF InsertJob, workerVars
  <2> HIDE DEF new, q
  <2>5. /\ Len(jobs') = Len(jobs) + 1
        /\ \A j \in 1..Len(jobs) : jobs'[j] = jobs[j]
        /\ jobs'[Len(jobs) + 1] = new
    BY <1>0, <2>2, <2>4, InsertJobType
  <2>6. /\ calls' \in [Calls -> Call \cup {Idle}]
        /\ calls'[c] = q /\ \A b \in Calls \ {c} : calls'[b] = calls[b]
    BY <1>0, <2>3, <2>4
  <2>7. Len(jobs) + 1 \in 1..Len(jobs') /\ Len(jobs) + 1 \notin 1..Len(jobs)
        /\ (\A j \in 1..Len(jobs') : j \in 1..Len(jobs) \/ j = Len(jobs) + 1)
        /\ Len(jobs) <= Len(jobs')
    BY <1>0, <2>5
  <2> QED
    BY <1>0, <1>1, <1>2, <2>1, <2>2, <2>3, <2>4, <2>5, <2>6, <2>7 DEF Shares
<1>4. ASSUME NEW c \in Calls, Publish(c) PROVE Shares
  <2>1. /\ calls[c].step = "publish" /\ Goto(c, "published") /\ jobs' = jobs
        /\ stage' = stage /\ current' = current
    BY <1>4 DEF Publish, workerVars
  <2>2. /\ calls' \in [Calls -> Call \cup {Idle}]
        /\ calls'[c].step = "published" /\ calls'[c].doc = calls[c].doc /\ calls[c] # Idle
        /\ \A b \in Calls \ {c} : calls'[b] = calls[b]
    BY <1>0, <2>1, Moves DEF Idle
  <2> QED
    BY <1>0, <1>1, <1>2, <2>1, <2>2 DEF Shares
<1>5. ASSUME NEW c \in Calls, PublishFails(c) \/ RequestFails(c) PROVE Shares
  <2>1. /\ Return(c) /\ jobs' = jobs /\ stage' = stage /\ current' = current
    BY <1>5 DEF PublishFails, RequestFails, workerVars
  <2>2. /\ calls' \in [Calls -> Call \cup {Idle}]
        /\ calls'[c] = Idle
        /\ \A b \in Calls \ {c} : calls'[b] = calls[b]
    BY <1>0, <2>1, Returns
  <2> QED
    BY <1>0, <1>1, <1>2, <2>1, <2>2 DEF Shares
<1>6. CASE ApiCrash
  <2>1. /\ calls' = [c \in Calls |-> Idle] /\ jobs' = jobs
        /\ stage' = stage /\ current' = current
    BY <1>6 DEF ApiCrash, workerVars
  <2>2. calls' \in [Calls -> Call \cup {Idle}] /\ \A c \in Calls : calls'[c] = Idle
    BY <2>1
  <2> QED
    BY <1>0, <1>1, <1>2, <2>1, <2>2 DEF Shares
<1>7. CASE FailJob
  <2> DEFINE s == IF verdict = "retry" THEN "FAILED" ELSE "DEAD"
  <2>1. /\ calls' = calls /\ stage' = "fail_doc" /\ current \in 1..Len(jobs)
        /\ jobs' = [jobs EXCEPT ![current].status = s] /\ s \in JobStatus /\ s # "DONE"
    BY <1>0, <1>7 DEF FailJob, SetJob, Go, WorkerInv, Holding, JobStatus
  <2> HIDE DEF s
  <2>2. /\ Len(jobs') = Len(jobs)
        /\ \A j \in 1..Len(jobs) : /\ jobs'[j].doc = jobs[j].doc /\ jobs'[j].action = jobs[j].action
                                   /\ j # current => jobs'[j].status = jobs[j].status
        /\ jobs'[current].status = s
    BY <1>0, <2>1, SetJobType
  <2> QED
    BY <1>0, <1>1, <1>2, <2>1, <2>2 DEF Shares, CardStages
<1>8. CASE Fetch \/ Take \/ Commit \/ Backoff \/ PublishDlq \/ WorkerCrash \/ StepFails
  <2>1. jobs' = jobs /\ calls' = calls /\ stage' \notin CardStages
    BY <1>8 DEF Fetch, Take, Commit, Backoff, PublishDlq, Go, WorkerCrash, StepFails, Raise, CardStages
  <2> QED
    BY <1>0, <1>1, <1>2, <2>1 DEF Shares
<1> QED
  BY <1>0, <1>3, <1>4, <1>5, <1>6, <1>7, <1>8 DEF SharedStep, Dispatch, WorkerLoop

LEMMA SharesKeeps ==
    ASSUME IInv, Shares
    PROVE  IInv'
<1> USE DEF Shares
<1>0. /\ TypeInv /\ NewRecordInv /\ DeletedInv /\ IngestInv /\ CardInv /\ DoneHasCard /\ DeleteIsFinal
      /\ Len(jobs) \in Nat
      /\ Holding => current \in 1..Len(jobs)
  BY Fields DEF IInv, TypeInv
<1>1. NewRecordInv'
  <2> SUFFICES ASSUME NEW b \in Calls, calls'[b].step = "store"
               PROVE  /\ drawing'[calls'[b].doc].status = "new" /\ calls'[b].action = "upsert"
                      /\ \A a \in Calls \ {b} : calls'[a] # Idle => calls'[a].doc # calls'[b].doc
    BY DEF NewRecordInv
  <2>1. calls'[b] = calls[b]
    BY DEF Idle
  <2>2. \A a \in Calls : calls'[a] # Idle => calls'[a].doc = calls[a].doc /\ calls[a] # Idle
    OBVIOUS
  <2> QED
    BY <1>0, <2>1, <2>2 DEF NewRecordInv
<1>2. DeletedInv'
  <2>1. \A c \in Calls : calls'[c].step \in {"doomed", "unlinked", "revise", "swapped", "dispatch"} =>
            calls'[c] = calls[c]
    BY DEF Idle
  <2>2. \A j \in 1..Len(jobs') : jobs'[j].action = "delete" => drawing[jobs'[j].doc].status = "gone"
    BY <1>0 DEF DeletedInv
  <2> QED
    BY <1>0, <2>1, <2>2 DEF DeletedInv
<1>3. \A d : \A j \in JobsOf(d, "delete")' : jobs'[j].status = "DONE" =>
          j \in JobsOf(d, "delete") /\ jobs[j].status = "DONE"
  BY DEF JobsOf
<1>4. IngestInv' /\ CardInv'
  <2>1. CASE stage' \notin CardStages
    BY <2>1 DEF IngestInv, CardInv, Ingesting, CardStages
  <2>2. CASE stage' \in CardStages /\ stage' = stage /\ current' = current
    <3>1. Doc' = Doc /\ IsUpsert' = IsUpsert
      BY <1>0, <2>2 DEF Doc, IsUpsert, Holding, CardStages
    <3> QED
      BY <1>0, <1>3, <2>2, <3>1 DEF IngestInv, CardInv, Ingesting
  <2> QED
    BY <2>1, <2>2
<1>5. DoneHasCard' /\ DeleteIsFinal'
  BY <1>0, <1>3 DEF DoneHasCard, DeleteIsFinal
<1> QED
  BY <1>1, <1>2, <1>4, <1>5 DEF IInv

LEMMA SharesCurrent ==
    ASSUME IInv, CurrentInv, Shares
    PROVE  CurrentInv'
<1> USE DEF Shares
<1>0. Len(jobs) \in Nat /\ (Holding => current \in 1..Len(jobs))
  BY Fields DEF IInv, TypeInv
<1>m. ASSUME NEW c \in Calls, NEW k \in 0..Len(jobs), calls[c].step = "dispatch",
             calls[c].action = "upsert", calls'[c] # calls[c], calls'[c] # Idle, NEW d, calls[c].doc = d
      PROVE  Owed(d, k)'
  <2>1. PICK j \in 1..Len(jobs') : /\ j \notin 1..Len(jobs)
                                   /\ jobs'[j].doc = d /\ jobs'[j].action = "upsert"
                                   /\ jobs'[j].status # "DONE"
    BY <1>m
  <2>2. j # k
    BY <1>0, <2>1
  <2> QED
    BY <2>1, <2>2 DEF Owed, JobsOf
<1>1. ASSUME NEW d, NEW k \in 0..Len(jobs), Owed(d, k)
      PROVE  Owed(d, k)'
  <2>1. CASE \E j \in JobsOf(d, "upsert") \ {k} : jobs[j].status # "DONE"
    <3>1. PICK j \in JobsOf(d, "upsert") \ {k} : jobs[j].status # "DONE"
      BY <2>1
    <3>2. j \in JobsOf(d, "upsert")' /\ jobs'[j].status # "DONE"
      BY <1>0, <3>1 DEF JobsOf
    <3> QED
      BY <3>1, <3>2 DEF Owed
  <2>2. CASE \E c \in Calls : calls[c].step = "dispatch" /\ calls[c].doc = d /\ calls[c].action = "upsert"
    <3>1. PICK c \in Calls : calls[c].step = "dispatch" /\ calls[c].doc = d /\ calls[c].action = "upsert"
      BY <2>2
    <3>2. CASE calls'[c] = calls[c]
      BY <3>1, <3>2 DEF Owed
    <3>3. CASE calls'[c] = Idle
      <4>1. <<d, "dispatch">> \in CutOff
        BY <3>1, <3>3 DEF CutOff, CutSteps
      <4> QED
        BY <4>1 DEF Owed
    <3>4. CASE calls'[c] # calls[c] /\ calls'[c] # Idle
      BY <1>m, <3>1, <3>4
    <3> QED
      BY <3>2, <3>3, <3>4
  <2>3. CASE <<d, "dispatch">> \in cut
    <3>1. CASE <<d, "dispatch">> \notin MadeUp
      BY <2>3, <3>1 DEF Owed
    <3>2. CASE <<d, "dispatch">> \in MadeUp
      <4>1. PICK c \in Calls : /\ calls[c].step = "dispatch" /\ calls[c].action = "upsert"
                               /\ calls'[c].step = "publish" /\ calls[c].doc = d
        BY <3>2 DEF MadeUp
      <4> QED
        BY <1>m, <4>1 DEF Idle
    <3> QED
      BY <3>1, <3>2
  <2> QED
    BY <1>1, <2>1, <2>2, <2>3 DEF Owed
<1>2. \A d : \A k : Owed(d, k) => Owed(d, 0)
  BY <1>0 DEF Owed, JobsOf
<1>3. Finishing \in 0..Len(jobs) /\ (Finishing' = Finishing \/ Finishing' = 0)
  BY <1>0 DEF Finishing, CardStages, Holding
<1>4. ASSUME NEW d \in Docs, drawing'[d].status = "DONE"
      PROVE  cards'[d] = <<CardOf(d)'>> \/ Owed(d, Finishing)'
  <2>1. cards[d] = <<CardOf(d)>> \/ Owed(d, Finishing)
    BY <1>4 DEF CurrentInv
  <2>2. CASE cards[d] = <<CardOf(d)>>
    BY <2>2 DEF CardOf
  <2>3. CASE Owed(d, Finishing)
    <3>1. Owed(d, Finishing) /\ Owed(d, 0)
      BY <1>2, <2>3
    <3>2. 0 \in 0..Len(jobs)
      BY <1>0
    <3>3. PICK k \in {Finishing, 0} : k = Finishing'
      BY <1>3
    <3>4. Owed(d, k)'
      BY <1>1, <1>3, <3>1, <3>2
    <3> QED
      BY <3>3, <3>4 DEF Owed
  <2> QED
    BY <2>1, <2>2, <2>3
<1>5. HasRead' /\ Exists(Doc)' => (read = CardOf(Doc) \/ Owed(Doc, current))'
  <2> SUFFICES ASSUME HasRead', Exists(Doc)' PROVE (read = CardOf(Doc) \/ Owed(Doc, current))'
    OBVIOUS
  <2>1. stage' = stage /\ current' = current /\ stage \in CardStages
    BY DEF HasRead, CardStages
  <2>2. current \in 1..Len(jobs) /\ Doc' = Doc /\ IsUpsert' = IsUpsert
    BY <1>0, <2>1 DEF Doc, IsUpsert, Holding, CardStages
  <2>3. HasRead /\ Exists(Doc)
    BY <2>1, <2>2 DEF HasRead, Exists
  <2>4. CASE read = CardOf(Doc)
    BY <2>2, <2>4 DEF CardOf
  <2>5. CASE Owed(Doc, current)
    <3>1. Owed(Doc, current)'
      BY <1>0, <1>1, <2>1, <2>2, <2>5
    <3> QED
      BY <3>1
  <2> QED
    BY <2>3, <2>4, <2>5 DEF CurrentInv
<1> QED
  BY <1>4, <1>5 DEF CurrentInv

-----------------------------------------------------------------------------
\* A pipeline step writes at most the status of the job in hand.
LEMMA PipelineJobs ==
    ASSUME TypeInv, Pipeline
    PROVE  /\ jobs' \in Seq(Job) /\ Len(jobs') = Len(jobs)
           /\ \A j \in 1..Len(jobs) : /\ jobs'[j].doc = jobs[j].doc
                                      /\ jobs'[j].action = jobs[j].action
                                      /\ j # current => jobs'[j].status = jobs[j].status
           /\ UNCHANGED <<calls, log, offsetVars, dlq, saved, files, cut, current, attempt>>
           /\ Holding /\ current \in 1..Len(jobs) /\ Doc \in Docs
           /\ Doc' = Doc /\ IsUpsert' = IsUpsert
<1>1. Holding /\ current \in 1..Len(jobs) /\ Doc \in Docs /\ jobs \in Seq(Job)
  <2>1. Holding
    BY DEF Pipeline, MarkJob, Find, MarkDoc, Embed, Purge, Insert, DocDone, JobDone, FailDoc, Holding
  <2> QED
    BY <2>1, Fields DEF TypeInv, TypeOK, IngestTypeOK
<1>2. UNCHANGED <<calls, log, offsetVars, dlq, saved, files, cut, current, attempt>>
  BY DEF Pipeline, MarkJob, Find, MarkDoc, Embed, Purge, Insert, DocDone, JobDone, FailDoc,
         SetDrawing, Then, Go, Raise, pipelineUnchanged
<1>3. ASSUME NEW s \in JobStatus, SetJob(s)
      PROVE  /\ jobs' \in Seq(Job) /\ Len(jobs') = Len(jobs)
             /\ \A j \in 1..Len(jobs) : /\ jobs'[j].doc = jobs[j].doc
                                        /\ jobs'[j].action = jobs[j].action
                                        /\ j # current => jobs'[j].status = jobs[j].status
  BY <1>1, <1>3, SetJobType DEF SetJob
<1>4. jobs' = jobs \/ SetJob("RUNNING") \/ SetJob("DONE")
  BY DEF Pipeline, MarkJob, Find, MarkDoc, Embed, Purge, Insert, DocDone, JobDone, FailDoc
<1>5. /\ jobs' \in Seq(Job) /\ Len(jobs') = Len(jobs)
      /\ \A j \in 1..Len(jobs) : /\ jobs'[j].doc = jobs[j].doc
                                 /\ jobs'[j].action = jobs[j].action
                                 /\ j # current => jobs'[j].status = jobs[j].status
  BY <1>1, <1>3, <1>4 DEF JobStatus
<1> QED
  BY <1>1, <1>2, <1>5 DEF Doc, IsUpsert

\* A pipeline step writes at most the status of the record in hand.
LEMMA PipelineRecords ==
    ASSUME TypeInv, Pipeline
    PROVE  /\ drawing' \in [Docs -> Drawing]
           /\ \A e \in Docs : e # Doc => drawing'[e] = drawing[e]
           /\ \A e \in Docs : CardOf(e)' = CardOf(e) /\ (Exists(e)' <=> Exists(e))
           /\ \/ drawing' = drawing
              \/ Exists(Doc) /\ drawing'[Doc].status \in {"PROCESSING", "FAILED"}
              \/ Exists(Doc) /\ drawing'[Doc].status = "DONE" /\ stage = "doc_done"
           /\ drawing'[Doc].status = "DONE" => drawing[Doc].status = "DONE" \/ stage = "doc_done"
           /\ \A e \in Docs : drawing[e].status \in {"new", "gone"} => drawing'[e] = drawing[e]
           /\ \A e \in Docs : drawing[e].status # "new" => drawing'[e].status # "new"
<1>1. drawing \in [Docs -> Drawing] /\ Doc \in Docs
  BY Fields, PipelineJobs DEF TypeInv
<1>2. CASE drawing' = drawing
  BY <1>1, <1>2 DEF CardOf, Exists
<1>3. ASSUME NEW s \in {"PROCESSING", "FAILED", "DONE"}, s = "DONE" => stage = "doc_done",
             Exists(Doc), drawing' = [drawing EXCEPT ![Doc].status = s]
      PROVE  /\ drawing' \in [Docs -> Drawing]
             /\ drawing'[Doc].status = s
             /\ \A e \in Docs : e # Doc => drawing'[e] = drawing[e]
             /\ \A e \in Docs : CardOf(e)' = CardOf(e) /\ (Exists(e)' <=> Exists(e))
             /\ \A e \in Docs : drawing[e].status \in {"new", "gone"} => drawing'[e] = drawing[e]
             /\ \A e \in Docs : drawing[e].status # "new" => drawing'[e].status # "new"
  <2> DEFINE q == [drawing[Doc] EXCEPT !.status = s]
  <2>1. drawing' = [drawing EXCEPT ![Doc] = q]
    BY <1>3
  <2>2. q \in Drawing /\ q.status = s /\ q.revision = drawing[Doc].revision /\ q.text = drawing[Doc].text
    BY <1>1 DEF Drawing, DrawingStatus
  <2> HIDE DEF q
  <2>3. drawing' \in [Docs -> Drawing] /\ drawing'[Doc] = q /\ \A e \in Docs : e # Doc => drawing'[e] = drawing[e]
    BY <1>1, <2>1, <2>2
  <2>4. drawing[Doc].status \in DrawingStatus /\ s \in DrawingStatus
    BY <1>3 DEF Exists, DrawingStatus
  <2>5. \A e \in Docs : CardOf(e)' = CardOf(e) /\ (Exists(e)' <=> Exists(e))
    BY <2>2, <2>3, <2>4 DEF CardOf, Exists
  <2> QED
    BY <2>2, <2>3, <2>4, <2>5 DEF DrawingStatus
<1>4. \/ drawing' = drawing
      \/ \E s \in {"PROCESSING", "FAILED", "DONE"} :
            /\ s = "DONE" => stage = "doc_done"
            /\ Exists(Doc) /\ drawing' = [drawing EXCEPT ![Doc].status = s]
  <2>1. CASE MarkDoc
    BY <2>1 DEF MarkDoc, SetDrawing
  <2>2. CASE DocDone
    BY <2>2 DEF DocDone, SetDrawing
  <2>3. CASE FailDoc
    BY <2>3 DEF FailDoc
  <2>4. CASE MarkJob \/ Find \/ Embed \/ Purge \/ Insert \/ JobDone
    BY <2>4 DEF MarkJob, Find, Embed, Purge, Insert, JobDone
  <2> QED
    BY <2>1, <2>2, <2>3, <2>4 DEF Pipeline
<1>5. CASE drawing' # drawing
  <2>1. PICK s \in {"PROCESSING", "FAILED", "DONE"} :
            /\ s = "DONE" => stage = "doc_done"
            /\ Exists(Doc) /\ drawing' = [drawing EXCEPT ![Doc].status = s]
    BY <1>4, <1>5
  <2> QED
    BY <1>3, <2>1
<1> QED
  BY <1>2, <1>5

\* The pipeline keeps the type invariant.
LEMMA PipelineType ==
    ASSUME TypeInv, Pipeline
    PROVE  TypeInv'
<1> USE IngestAssumption
<1>0. /\ IngestTypeOK /\ WorkerInv
      /\ calls \in [Calls -> Call \cup {Idle}]
      /\ drawing \in [Docs -> Drawing]
      /\ saved \in Nat /\ files \subseteq 1..saved
      /\ cards \in [Docs -> Seq(Card)] /\ read \in Card
      /\ cut \subseteq Docs \X CutSteps
  BY DEF TypeInv, TypeOK, Drawing
<1>1. /\ jobs' \in Seq(Job) /\ Len(jobs') = Len(jobs)
      /\ UNCHANGED <<calls, log, offsetVars, dlq, saved, files, cut, current, attempt>>
      /\ Holding /\ Doc \in Docs
      /\ IsUpsert' = IsUpsert
  BY PipelineJobs
<1>2. drawing' \in [Docs -> Drawing]
  BY PipelineRecords
<1>3. read' \in Card
  <2>1. ASSUME Exists(Doc) PROVE CardOf(Doc) \in Card
    BY <1>0, <1>1 DEF CardOf, Card, Drawing
  <2>2. read' = read \/ (Exists(Doc) /\ read' = CardOf(Doc))
    BY DEF Pipeline, MarkJob, MarkDoc, Find, Embed, Purge, Insert, DocDone, JobDone, FailDoc
  <2> QED
    BY <1>0, <2>1, <2>2
<1>4. cards' \in [Docs -> Seq(Card)]
  <2>1. CASE cards' = cards
    BY <1>0, <2>1
  <2>2. CASE Purge
    BY <1>0, <1>1, <2>2, EmptySeq DEF Purge
  <2>3. CASE Insert
    <3>1. Append(cards[Doc], read) \in Seq(Card)
      BY <1>0, <1>1, AppendProperties
    <3> QED
      BY <1>0, <1>1, <2>3, <3>1 DEF Insert
  <2> QED
    BY <2>1, <2>2, <2>3 DEF Pipeline, MarkJob, MarkDoc, Find, Embed, DocDone, JobDone, FailDoc
<1>5. /\ faults' \in 0..MaxFaults
      /\ \/ verdict' = verdict
         \/ verdict' \in {"retry", "exhausted", "permanent"} /\ stage' = "fail_job"
      /\ verdict' = "retry" => attempt < MaxAttempts
  <2>1. verdict' = verdict \/ Raise(TRUE) \/ Raise(FALSE)
    BY DEF Pipeline, MarkJob, MarkDoc, Find, Embed, Purge, Insert, DocDone, JobDone, FailDoc,
           SetDrawing, Then, Go
  <2>2. faults' = faults \/ \E kind \in FaultKinds : Fault(kind)
    BY DEF Pipeline, MarkJob, MarkDoc, Find, Embed, Purge, Insert, DocDone, JobDone, FailDoc,
           SetDrawing, Then, Go, FaultKinds
  <2>3. faults' \in 0..MaxFaults
    BY <1>0, <2>2 DEF Fault, IngestTypeOK
  <2>4. verdict = "retry" => attempt < MaxAttempts
    BY <1>0 DEF WorkerInv
  <2> QED
    BY <2>1, <2>3, <2>4 DEF Raise, Verdict
<1>6. /\ stage' \in {"mark_doc", "find", "parse", "embed", "insert", "doc_done"} => IsUpsert
      /\ stage' \in Stages \ {"poll", "next"}
      /\ stage' = "backoff" => verdict' = "retry"
  BY <1>0
     DEF Pipeline, MarkJob, MarkDoc, Find, Embed, Purge, Insert, DocDone, JobDone, FailDoc,
         SetDrawing, Then, Go, Raise, AfterFail, WorkerInv, Stages, PipelineStages
<1>7. IngestTypeOK'
  BY <1>0, <1>1, <1>5, <1>6 DEF IngestTypeOK, offsetVars
<1>8. WorkerInv'
  BY <1>0, <1>1, <1>5, <1>6 DEF WorkerInv, Holding, offsetVars
<1> QED
  BY <1>0, <1>1, <1>2, <1>3, <1>4, <1>7, <1>8 DEF TypeInv, TypeOK, Drawing

\* The pipeline keeps IInv: an upsert replaces the card of a drawing that says
\* so, and the drawing says DONE again only with its card in.
LEMMA PipelineKeeps ==
    ASSUME IInv, Pipeline
    PROVE  IInv'
<1>0. /\ TypeInv /\ NewRecordInv /\ DeletedInv /\ IngestInv /\ CardInv /\ DoneHasCard /\ DeleteIsFinal
      /\ WorkerInv
      /\ drawing \in [Docs -> Drawing] /\ cards \in [Docs -> Seq(Card)] /\ read \in Card
      /\ \A j \in 1..Len(jobs) : jobs[j].doc \in Docs /\ jobs[j].action \in JobAction
      /\ \A c \in Calls : calls[c].step # "idle" => calls[c].doc \in Docs
  BY Fields, InCall DEF IInv, TypeInv
<1>j. /\ Len(jobs') = Len(jobs) /\ jobs \in Seq(Job)
      /\ \A j \in 1..Len(jobs) : /\ jobs'[j].doc = jobs[j].doc
                                 /\ jobs'[j].action = jobs[j].action
                                 /\ j # current => jobs'[j].status = jobs[j].status
      /\ UNCHANGED <<calls, current, cut>>
      /\ current \in 1..Len(jobs) /\ Doc \in Docs /\ Doc' = Doc /\ IsUpsert' = IsUpsert
  BY <1>0, PipelineJobs DEF TypeInv, TypeOK, IngestTypeOK
<1>r. /\ \A e \in Docs : e # Doc => drawing'[e] = drawing[e]
      /\ \/ drawing' = drawing
         \/ Exists(Doc) /\ drawing'[Doc].status \in {"PROCESSING", "FAILED"}
         \/ Exists(Doc) /\ drawing'[Doc].status = "DONE" /\ stage = "doc_done"
      /\ \A e \in Docs : drawing[e].status \in {"new", "gone"} => drawing'[e] = drawing[e]
      /\ \A e \in Docs : drawing[e].status # "new" => drawing'[e].status # "new"
  BY <1>0, PipelineRecords
<1>1. TypeInv'
  BY <1>0, PipelineType
<1>2. NewRecordInv' /\ DeletedInv'
  <2>1. \A c \in Calls : calls[c].step \in {"store", "doomed", "unlinked", "revise", "swapped", "dispatch"} =>
            calls[c].doc \in Docs
    BY <1>0
  <2>2. NewRecordInv'
    BY <1>0, <1>j, <1>r, <2>1 DEF NewRecordInv
  <2>3. \A j \in 1..Len(jobs') : jobs'[j].action = "delete" => drawing'[jobs'[j].doc].status = "gone"
    BY <1>0, <1>j, <1>r DEF DeletedInv
  <2>4. \A c \in Calls :
            /\ calls[c].step \in {"doomed", "unlinked"} =>
                  drawing'[calls[c].doc].status # "new" /\ calls[c].action = "delete"
            /\ calls[c].step = "dispatch" /\ calls[c].action = "delete" =>
                  drawing'[calls[c].doc].status = "gone"
    BY <1>0, <1>r, <2>1 DEF DeletedInv
  <2> QED
    BY <1>0, <1>j, <2>2, <2>3, <2>4 DEF DeletedInv
<1>3. \A d : JobsOf(d, "delete")' = JobsOf(d, "delete")
  BY <1>j DEF JobsOf
<1>4. ASSUME NEW s \in JobStatus, SetJob(s)
      PROVE  jobs'[current].status = s
  BY <1>j, <1>4, SetJobType DEF SetJob
<1>5. Exists(Doc) => \A j \in JobsOf(Doc, "delete") : FALSE
  BY <1>0 DEF DeletedInv, JobsOf, Exists, DrawingStatus
<1>6. ASSUME MarkJob PROVE IInv'
  <2>1. jobs'[current].status = "RUNNING"
    BY <1>6, <1>4 DEF MarkJob, JobStatus
  <2>2. /\ \/ stage' = "fail_job"
           \/ stage' = "find"
           \/ stage' = "purge" /\ ~IsUpsert
        /\ drawing' = drawing /\ cards' = cards
    BY <1>6 DEF MarkJob, Then, Go, Raise
  <2>3. \A j \in 1..Len(jobs) : jobs'[j].status = "DONE" => jobs[j].status = "DONE"
    BY <1>j, <2>1
  <2>4. \A d : \A j \in JobsOf(d, "delete") : j \in 1..Len(jobs)
    BY DEF JobsOf
  <2>5. DeleteIsFinal'
    BY <1>0, <1>3, <2>2, <2>3, <2>4 DEF DeleteIsFinal
  <2> QED
    BY <1>0, <1>1, <1>2, <1>j, <2>2, <2>5
       DEF IInv, TypeInv, IngestInv, CardInv, Ingesting, DoneHasCard
<1>7. ASSUME Find \/ MarkDoc \/ Embed PROVE IInv'
  <2>1. /\ jobs' = jobs /\ cards' = cards
        /\ \/ stage' = "fail_job"
           \/ stage' = "mark_doc"
           \/ stage' = "embed" /\ Exists(Doc) /\ drawing'[Doc].status = "PROCESSING"
           \/ stage' = "purge" /\ stage = "embed" /\ drawing' = drawing
    <3>1. CASE Find \/ Embed
      BY <3>1 DEF Find, Embed, Go, Raise
    <3>2. CASE MarkDoc
      <4>1. CASE Exists(Doc)
        <5>1. drawing' = [drawing EXCEPT ![Doc].status = "PROCESSING"]
          BY <3>2, <4>1 DEF MarkDoc, SetDrawing
        <5>2. drawing'[Doc] = [drawing[Doc] EXCEPT !.status = "PROCESSING"]
          BY <1>0, <1>j, <5>1
        <5>3. drawing'[Doc].status = "PROCESSING"
          BY <1>0, <1>j, <5>2 DEF Drawing
        <5> QED
          BY <3>2, <4>1, <5>3 DEF MarkDoc, SetDrawing, Then, Go, Raise
      <4>2. CASE ~Exists(Doc)
        BY <3>2, <4>2 DEF MarkDoc, SetDrawing, Raise
      <4> QED
        BY <4>1, <4>2
    <3> QED
      BY <1>7, <3>1, <3>2
  <2>2. DeleteIsFinal'
    BY <1>0, <1>3, <2>1 DEF DeleteIsFinal
  <2>3. DoneHasCard'
    <3>1. CASE drawing' = drawing
      BY <1>0, <2>1, <3>1 DEF DoneHasCard
    <3>2. CASE drawing'[Doc].status \in {"PROCESSING", "FAILED"}
      BY <1>0, <1>r, <2>1, <3>2 DEF DoneHasCard
    <3>3. stage # "doc_done"
      BY <1>7 DEF Find, MarkDoc, Embed
    <3> QED
      BY <1>r, <3>1, <3>2, <3>3
  <2>4. IngestInv'
    <3> SUFFICES ASSUME Ingesting'
                 PROVE  /\ drawing'[Doc].status # "DONE"
                        /\ \A j \in JobsOf(Doc, "delete") : jobs[j].status # "DONE"
      <4>1. \A j : jobs'[j] = jobs[j]
        BY <2>1
      <4> QED
        BY <1>j, <1>3, <4>1 DEF IngestInv
    <3>1. CASE stage' = "embed" /\ Exists(Doc) /\ drawing'[Doc].status = "PROCESSING"
      BY <1>5, <3>1
    <3>2. CASE stage' = "purge" /\ stage = "embed" /\ drawing' = drawing
      BY <1>0, <3>2 DEF IngestInv, Ingesting
    <3> QED
      BY <2>1, <3>1, <3>2 DEF Ingesting
  <2>5. CardInv'
    BY <2>1 DEF CardInv
  <2> QED
    BY <1>1, <1>2, <2>2, <2>3, <2>4, <2>5 DEF IInv, TypeInv
<1>8. ASSUME Purge PROVE IInv'
  <2>1. /\ jobs' = jobs /\ drawing' = drawing /\ cards' = [cards EXCEPT ![Doc] = <<>>]
        /\ stage = "purge"
        /\ \/ stage' = "fail_job"
           \/ stage' = "insert" /\ IsUpsert
           \/ stage' = "job_done" /\ ~IsUpsert
    BY <1>8 DEF Purge, Then, Go, Raise
  <2>2. drawing[Doc].status # "DONE"
    <3>1. CASE IsUpsert
      BY <1>0, <2>1, <3>1 DEF IngestInv, Ingesting
    <3>2. CASE ~IsUpsert
      BY <1>0, <1>j, <3>2 DEF DeletedInv, IsUpsert, Doc, JobAction
    <3> QED
      BY <3>1, <3>2
  <2>3. cards'[Doc] = <<>> /\ \A e \in Docs : e # Doc => cards'[e] = cards[e]
    BY <1>0, <1>j, <2>1
  <2>4. DoneHasCard' /\ DeleteIsFinal'
    BY <1>0, <1>j, <1>3, <2>1, <2>2, <2>3 DEF DoneHasCard, DeleteIsFinal
  <2>5. IngestInv'
    BY <1>0, <1>j, <1>3, <2>1 DEF IngestInv, Ingesting
  <2>6. CardInv'
    BY <1>0, <1>j, <2>1, <2>3 DEF CardInv
  <2> QED
    BY <1>1, <1>2, <2>4, <2>5, <2>6 DEF IInv, TypeInv
<1>9. ASSUME Insert PROVE IInv'
  <2>1. /\ jobs' = jobs /\ drawing' = drawing /\ read' = read
        /\ cards' = [cards EXCEPT ![Doc] = Append(@, read)]
        /\ stage = "insert" /\ stage' \in {"doc_done", "fail_job"}
    BY <1>9 DEF Insert, Then, Go, Raise
  <2>2. /\ drawing[Doc].status # "DONE"
        /\ \A j \in JobsOf(Doc, "delete") : jobs[j].status # "DONE"
        /\ cards[Doc] = <<>>
    BY <1>0, <2>1 DEF IngestInv, Ingesting, CardInv
  <2>3. cards'[Doc] = <<read>> /\ \A e \in Docs : e # Doc => cards'[e] = cards[e]
    <3>1. cards'[Doc] = Append(<<>>, read)
      BY <1>0, <1>j, <2>1, <2>2
    <3>2. Append(<<>>, read) = <<read>>
      OBVIOUS
    <3> QED
      BY <1>0, <1>j, <2>1, <3>1, <3>2
  <2>4. DoneHasCard' /\ DeleteIsFinal'
    BY <1>0, <1>j, <1>3, <2>1, <2>2, <2>3 DEF DoneHasCard, DeleteIsFinal
  <2>5. IngestInv'
    BY <1>0, <1>j, <1>3, <2>1, <2>2 DEF IngestInv
  <2>6. CardInv'
    BY <1>0, <1>j, <2>1, <2>3 DEF CardInv
  <2> QED
    BY <1>1, <1>2, <2>4, <2>5, <2>6 DEF IInv, TypeInv
<1>10. ASSUME DocDone PROVE IInv'
  <2>1. /\ jobs' = jobs /\ cards' = cards /\ read' = read /\ stage = "doc_done" /\ IsUpsert
        /\ cards[Doc] = <<read>>
        /\ stage' \in {"job_done", "fail_job"}
    BY <1>0, <1>10 DEF DocDone, SetDrawing, Then, Go, Raise, CardInv, WorkerInv
  <2>2. Len(<<read>>) = 1
    OBVIOUS
  <2>3. DoneHasCard' /\ DeleteIsFinal'
    BY <1>0, <1>j, <1>3, <1>r, <2>1, <2>2, ZenonT(30) DEF DoneHasCard, DeleteIsFinal
  <2>4. IngestInv' /\ CardInv'
    BY <1>j, <2>1 DEF IngestInv, Ingesting, CardInv
  <2> QED
    BY <1>1, <1>2, <2>3, <2>4 DEF IInv, TypeInv
<1>11. ASSUME JobDone PROVE IInv'
  <2>1. /\ drawing' = drawing /\ cards' = cards
        /\ stage' \in {"commit", "fail_job"}
        /\ ~IsUpsert => cards[Doc] = <<>>
    BY <1>0, <1>11 DEF JobDone, Then, Go, Raise, CardInv
  <2>2. jobs[current].action = "delete" => cards[jobs[current].doc] = <<>>
    BY <2>1 DEF IsUpsert, Doc
  <2>3. DeleteIsFinal'
    BY <1>0, <1>j, <2>1, <2>2 DEF DeleteIsFinal, JobsOf
  <2> QED
    BY <1>0, <1>1, <1>2, <2>1, <2>3
       DEF IInv, TypeInv, IngestInv, CardInv, Ingesting, DoneHasCard
<1>12. ASSUME FailDoc PROVE IInv'
  <2>1. /\ jobs' = jobs /\ cards' = cards /\ stage = "fail_doc" /\ stage' \in {"backoff", "dlq"}
    BY <1>12 DEF FailDoc, AfterFail
  <2>2. DoneHasCard' /\ DeleteIsFinal'
    BY <1>0, <1>j, <1>3, <1>r, <2>1 DEF DoneHasCard, DeleteIsFinal
  <2> QED
    BY <1>1, <1>2, <2>1, <2>2 DEF IInv, TypeInv, IngestInv, CardInv, Ingesting
<1> QED
  BY <1>6, <1>7, <1>8, <1>9, <1>10, <1>11, <1>12 DEF Pipeline

\* The pipeline keeps CurrentInv: a record that changed after it was read is
\* owed an ingestion by another job than the one in hand.
LEMMA PipelineCurrent ==
    ASSUME IInv, CurrentInv, Pipeline
    PROVE  CurrentInv'
<1>0. /\ TypeInv /\ DeletedInv /\ IngestInv /\ CardInv /\ WorkerInv
      /\ \A j \in 1..Len(jobs) : jobs[j].action \in JobAction
      /\ Len(jobs) \in Nat /\ cards \in [Docs -> Seq(Card)]
  BY Fields DEF IInv, TypeInv
<1>j. /\ Len(jobs') = Len(jobs) /\ jobs \in Seq(Job)
      /\ \A j \in 1..Len(jobs) : /\ jobs'[j].doc = jobs[j].doc
                                 /\ jobs'[j].action = jobs[j].action
                                 /\ j # current => jobs'[j].status = jobs[j].status
      /\ UNCHANGED <<calls, current, cut>>
      /\ current \in 1..Len(jobs) /\ Doc \in Docs /\ Doc' = Doc /\ IsUpsert' = IsUpsert
  BY <1>0, PipelineJobs DEF TypeInv, TypeOK, IngestTypeOK
<1>r. /\ \A e \in Docs : e # Doc => drawing'[e] = drawing[e]
      /\ \A e \in Docs : CardOf(e)' = CardOf(e) /\ (Exists(e)' <=> Exists(e))
      /\ drawing'[Doc].status = "DONE" => drawing[Doc].status = "DONE" \/ stage = "doc_done"
      /\ drawing'[Doc].status = "DONE" => Exists(Doc)
  BY <1>0, PipelineRecords, <1>j DEF Exists, DrawingStatus
<1>1. jobs'[current].status = "DONE" => jobs[current].status = "DONE" \/ stage = "job_done"
  <2>1. ASSUME NEW s \in JobStatus, SetJob(s) PROVE jobs'[current].status = s
    BY <1>j, <2>1, SetJobType DEF SetJob
  <2>2. jobs' = jobs \/ SetJob("RUNNING") \/ stage = "job_done"
    BY DEF Pipeline, MarkJob, Find, MarkDoc, Embed, Purge, Insert, DocDone, JobDone, FailDoc
  <2> QED
    BY <2>1, <2>2 DEF JobStatus
<1>2. \A d : \A k : Owed(d, k) /\ (stage # "job_done" \/ k = current \/ d # Doc) => Owed(d, k)'
  <2> SUFFICES ASSUME NEW d, NEW k, Owed(d, k), stage # "job_done" \/ k = current \/ d # Doc
               PROVE  Owed(d, k)'
    OBVIOUS
  <2>1. CASE \E j \in JobsOf(d, "upsert") \ {k} : jobs[j].status # "DONE"
    <3>1. PICK j \in JobsOf(d, "upsert") \ {k} : jobs[j].status # "DONE"
      BY <2>1
    <3>2. j \in 1..Len(jobs) /\ jobs[j].doc = d /\ jobs[j].action = "upsert"
      BY <3>1 DEF JobsOf
    <3>3. j = current => stage # "job_done"
      BY <3>1, <3>2 DEF Doc
    <3>4. j \in JobsOf(d, "upsert")' /\ jobs'[j].status # "DONE"
      BY <1>1, <1>j, <3>1, <3>2, <3>3 DEF JobsOf
    <3> QED
      BY <3>1, <3>4 DEF Owed
  <2>2. CASE \E c \in Calls : calls[c].step = "dispatch" /\ calls[c].doc = d /\ calls[c].action = "upsert"
    BY <1>j, <2>2 DEF Owed
  <2>3. CASE <<d, "dispatch">> \in cut
    BY <1>j, <2>3 DEF Owed
  <2> QED
    BY <2>1, <2>2, <2>3 DEF Owed
<1>3. \A d : \A k : (Owed(d, k) => Owed(d, 0)) /\ (Owed(d, 0) /\ d # Doc => Owed(d, current))
  BY <1>j DEF Owed, JobsOf, Doc
<1>4. Finishing \in {0, current} /\ Finishing' \in {0, current}
  BY <1>j DEF Finishing
<1>5. ASSUME NEW d \in Docs, d # Doc, drawing'[d].status = "DONE"
      PROVE  cards'[d] = <<CardOf(d)'>> \/ Owed(d, Finishing)'
  <2>1. drawing[d].status = "DONE" /\ CardOf(d)' = CardOf(d)
    BY <1>5, <1>r
  <2>2. cards'[d] = cards[d]
    BY <1>0, <1>5, <1>j
       DEF Pipeline, MarkJob, Find, MarkDoc, Embed, Purge, Insert, DocDone, JobDone, FailDoc
  <2>3. CASE Owed(d, Finishing)
    <3>1. Owed(d, 0) /\ Owed(d, current)
      BY <1>3, <1>4, <1>5, <2>3
    <3>2. PICK k \in {0, current} : k = Finishing'
      BY <1>4
    <3>3. Owed(d, k)'
      BY <1>2, <1>5, <3>1
    <3> QED
      BY <3>2, <3>3 DEF Owed
  <2> QED
    BY <2>1, <2>2, <2>3 DEF CurrentInv
<1>6. ASSUME drawing'[Doc].status = "DONE"
      PROVE  cards'[Doc] = <<CardOf(Doc)'>> \/ Owed(Doc, Finishing)'
  <2>1. Exists(Doc) /\ CardOf(Doc)' = CardOf(Doc)
    BY <1>6, <1>j, <1>r
  <2>2. CASE DocDone
    <3>1. /\ stage = "doc_done" /\ IsUpsert /\ cards' = cards /\ cards[Doc] = <<read>> /\ HasRead
      BY <1>0, <2>2 DEF DocDone, CardInv, WorkerInv, HasRead
    <3>2. CASE read = CardOf(Doc)
      BY <2>1, <3>1, <3>2
    <3>3. CASE Owed(Doc, current)
      <4>1. Owed(Doc, 0)
        BY <1>3, <3>3
      <4>2. PICK k \in {0, current} : k = Finishing'
        BY <1>4
      <4>3. Owed(Doc, k)
        BY <3>3, <4>1
      <4>4. PICK d \in Docs : d = Doc
        BY <1>j
      <4>5. Owed(d, k)'
        BY <1>2, <3>1, <4>3, <4>4
      <4> QED
        BY <1>j, <4>2, <4>4, <4>5 DEF Owed
    <3> QED
      BY <2>1, <3>1, <3>2, <3>3 DEF CurrentInv
  <2>3. CASE ~DocDone
    <3>1. stage # "doc_done"
      BY <2>3 DEF Pipeline, MarkJob, Find, MarkDoc, Embed, Purge, Insert, JobDone, FailDoc
    <3>2. drawing[Doc].status = "DONE"
      BY <1>6, <1>r, <3>1
    <3>3. ~Ingesting
      BY <1>0, <3>2 DEF IngestInv
    <3>4. IsUpsert
      BY <1>0, <1>j, <3>2 DEF DeletedInv, IsUpsert, Doc, JobAction
    <3>5. cards' = cards /\ Finishing' = 0
      BY <2>3, <3>3, <3>4 DEF Pipeline, MarkJob, Find, MarkDoc, Embed, Purge, Insert, JobDone, FailDoc,
         Ingesting, Finishing, SetDrawing, Then, Go, Raise, AfterFail
    <3>6. CASE cards[Doc] = <<CardOf(Doc)>>
      BY <2>1, <3>5, <3>6
    <3>7. CASE Owed(Doc, Finishing)
      <4>1. PICK k \in {0, current} : k = Finishing
        BY <1>4
      <4>2. PICK d \in Docs : d = Doc
        BY <1>j
      <4>3. Owed(d, k) /\ (stage = "job_done" => k = current)
        BY <3>7, <4>1, <4>2 DEF Finishing
      <4>4. Owed(d, k)'
        BY <1>2, <4>3
      <4>5. Owed(d, 0)'
        BY <4>4, <1>j DEF Owed, JobsOf
      <4> QED
        BY <1>j, <3>5, <4>2, <4>5 DEF Owed
    <3> QED
      BY <1>j, <3>2, <3>6, <3>7 DEF CurrentInv
  <2> QED
    BY <2>2, <2>3
<1>7. ASSUME HasRead', Exists(Doc)'
      PROVE  read' = CardOf(Doc)' \/ Owed(Doc, current)'
  <2>1. Exists(Doc) /\ CardOf(Doc)' = CardOf(Doc)
    BY <1>7, <1>j, <1>r DEF Exists
  <2>2. CASE Find
    <3>1. read' = CardOf(Doc)
      BY <2>1, <2>2 DEF Find
    <3> QED
      BY <2>1, <3>1
  <2>3. CASE ~Find
    <3>1. HasRead /\ read' = read /\ stage # "job_done"
      BY <1>7, <1>j, <2>3 DEF HasRead, Pipeline, MarkJob, MarkDoc, Embed, Purge, Insert, DocDone, JobDone, FailDoc,
         SetDrawing, Then, Go, Raise, AfterFail
    <3>2. CASE read = CardOf(Doc)
      BY <2>1, <3>1, <3>2
    <3>3. CASE Owed(Doc, current)
      <4>1. PICK k \in 1..Len(jobs) : k = current
        BY <1>j
      <4>2. PICK d \in Docs : d = Doc
        BY <1>j
      <4>3. Owed(d, k)'
        BY <1>2, <3>1, <3>3, <4>1, <4>2
      <4> QED
        BY <1>j, <4>1, <4>2, <4>3 DEF Owed
    <3> QED
      BY <2>1, <3>1, <3>2, <3>3 DEF CurrentInv
  <2> QED
    BY <2>2, <2>3
<1> QED
  BY <1>5, <1>6, <1>7, <1>j, <1>r DEF CurrentInv

-----------------------------------------------------------------------------
LEMMA CardInit == Init => IInv /\ CurrentInv
<1> SUFFICES ASSUME Init PROVE IInv /\ CurrentInv
  OBVIOUS
<1>1. /\ IngestInit /\ calls = [c \in Calls |-> Idle] /\ jobs = <<>> /\ log = <<>>
      /\ saved = 0 /\ files = {} /\ cut = {} /\ cards = [d \in Docs |-> <<>>]
      /\ stage = "poll" /\ verdict = "none"
  BY DEF Init, IngestInit
<1>2. drawing \in [Docs -> Drawing] /\ \A d \in Docs : drawing[d].status = "new"
  BY DEF Init, Drawing
<1>3. read \in Card
  BY DEF Init, Card
<1>4. IngestTypeOK
  <2>1. Len(jobs) = 0 /\ Len(log) = 0 /\ jobs \in Seq(Job) /\ log \in Seq(1..Len(jobs))
    BY <1>1, EmptySeq
  <2> QED
    BY <1>1, <2>1, IngestAssumption DEF IngestInit, IngestTypeOK, Stages
<1>5. TypeOK
  BY <1>1, <1>2, <1>3, <1>4, EmptySeq DEF TypeOK, Drawing
<1>6. WorkerInv
  BY <1>1 DEF WorkerInv, Idle, Holding
<1>7. \A j : j \notin 1..Len(jobs)
  BY <1>1, EmptySeq
<1>8. NewRecordInv /\ DeletedInv /\ IngestInv /\ CardInv /\ DoneHasCard /\ DeleteIsFinal
  BY <1>1, <1>2, <1>7 DEF NewRecordInv, DeletedInv, IngestInv, CardInv, DoneHasCard, DeleteIsFinal,
     Idle, Ingesting, JobsOf
<1>9. CurrentInv
  BY <1>1, <1>2 DEF CurrentInv, HasRead
<1> QED
  BY <1>5, <1>6, <1>8, <1>9 DEF IInv

LEMMA CardStutter == IInv /\ UNCHANGED vars => IInv' /\ (CurrentInv => CurrentInv')
<1> SUFFICES ASSUME IInv, UNCHANGED vars PROVE IInv' /\ (CurrentInv => CurrentInv')
  OBVIOUS
<1>1. UNCHANGED <<jobs, calls, log, committed, position, cursor, stage, current, attempt, verdict,
                  dlq, faults, drawing, saved, files, cards, read, cut>>
  BY DEF vars, ingestVars, drawingVars
<1>2. TypeOK' /\ WorkerInv'
  BY <1>1 DEF IInv, TypeOK, IngestTypeOK, WorkerInv, Holding, IsUpsert
<1>3. NewRecordInv' /\ DeletedInv' /\ IngestInv' /\ CardInv' /\ DoneHasCard' /\ DeleteIsFinal'
  BY <1>1 DEF IInv, NewRecordInv, DeletedInv, IngestInv, CardInv, DoneHasCard, DeleteIsFinal,
     Ingesting, JobsOf, IsUpsert, Doc
<1>4. CurrentInv => CurrentInv'
  BY <1>1 DEF CurrentInv, Owed, JobsOf, CardOf, HasRead, Finishing, Exists, IsUpsert, Doc
<1> QED
  BY <1>2, <1>3, <1>4 DEF IInv

\* IInv is inductive, whatever fails.
THEOREM CardsInductive == Spec => []IInv
<1>1. Init => IInv
  BY CardInit
<1>2. IInv /\ [Next]_vars => IInv'
  <2>1. ASSUME IInv, NEW c \in Calls, Service(c) PROVE IInv'
    BY <2>1, ServiceServes, ServesKeeps
  <2>2. ASSUME IInv, Shared PROVE IInv'
    BY <2>2, SharedShares, SharesKeeps
  <2> QED
    BY <2>1, <2>2, PipelineKeeps, CardStutter DEF Next
<1> QED
  BY <1>1, <1>2, PTL DEF Spec

\* Every variable of the drawing ingestion keeps its shape, and only files that
\* were saved are on disk.
THEOREM TypeCorrect == Spec => []TypeOK
<1>1. IInv => TypeOK
  BY DEF IInv
<1> QED
  BY <1>1, CardsInductive, PTL

\* Pipeline upsert writes DONE only after the card is in, and takes DONE away
\* before the card is out: a DONE drawing has exactly one card.
THEOREM DoneHasCardAlways == Spec => []DoneHasCard
<1>1. IInv => DoneHasCard
  BY DEF IInv
<1> QED
  BY <1>1, CardsInductive, PTL

\* DrawingPipeline.delete takes the card out for good: no upsert puts it back.
THEOREM DeleteIsFinalAlways == Spec => []DeleteIsFinal
<1>1. IInv => DeleteIsFinal
  BY DEF IInv
<1> QED
  BY <1>1, CardsInductive, PTL

\* The worker builds a card from a record that requests change behind its back;
\* once everything is handled a DONE drawing has the card of its latest record,
\* or a job of it is left that is not DONE, or a request on it was cut off
\* between the write of the record and the insertion of its job.
THEOREM QuietCardsCurrent == Spec => []QuietCardsAreCurrent
<1>1. Init => IInv /\ CurrentInv
  BY CardInit
<1>2. IInv /\ CurrentInv /\ [Next]_vars => IInv' /\ CurrentInv'
  <2>1. ASSUME IInv, CurrentInv, NEW c \in Calls, Service(c) PROVE IInv' /\ CurrentInv'
    BY <2>1, ServiceServes, ServesKeeps, ServesCurrent
  <2>2. ASSUME IInv, CurrentInv, Shared PROVE IInv' /\ CurrentInv'
    BY <2>2, SharedShares, SharesKeeps, SharesCurrent
  <2> QED
    BY <2>1, <2>2, PipelineKeeps, PipelineCurrent, CardStutter DEF Next
<1>3. IInv /\ CurrentInv => QuietCardsAreCurrent
  <2> SUFFICES ASSUME CurrentInv, Quiet, NEW d \in Docs, drawing[d].status = "DONE"
               PROVE  \/ cards[d] = <<CardOf(d)>>
                      \/ \E j \in JobsOf(d, "upsert") : jobs[j].status # "DONE"
                      \/ <<d, "dispatch">> \in cut
    BY DEF QuietCardsAreCurrent
  <2> QED
    BY DEF CurrentInv, Quiet, Owed, Idle
<1> QED
  BY <1>1, <1>2, <1>3, PTL DEF Spec
================================================================================
