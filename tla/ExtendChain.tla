------------------------------ MODULE ExtendChain ------------------------------
(***************************************************************************)
(* Long clips (services/studio/orchestrator/orchestrator.py): a POST       *)
(* /extend starts a thread that has ComfyUI render one segment after the   *)
(* other, each from the last frame of the one before it, and joins them.   *)
(* The command line services/studio/extend_chain.py is the same loop with  *)
(* a fixed name for every segment's frame.                                 *)
(*                                                                         *)
(* There is neither a lock nor a limit: every job's prompts go into the    *)
(* queue that the production agent's lock is there to protect.             *)
(***************************************************************************)
EXTENDS Naturals, Sequences

CONSTANTS
  Extends,   \* the calls of POST /extend, each with its job
  Segments,  \* how many segments a clip has
  OwnNames,  \* a frame's file name has the job's id in it
  NoFrame    \* no file of that name

VARIABLES
  job,      \* the job's status in JOBS
  at,       \* where its thread is
  seg,      \* the segment it is at
  frames,   \* ComfyUI's input files: each the last frame of some segment
  queue,    \* ComfyUI's queue of prompts
  rendered  \* its history

chain == <<job, at, seg, frames>>

FileName_Fixed(j, i) == <<NoFrame, i>>

\* orch_lf_{jid}_{i}.png, and ext_lf_{i}.png.
FileName(j, i) == IF OwnNames THEN <<j, i>> ELSE <<NoFrame, i>>

Files == {FileName(j, i) : j \in Extends, i \in 2..Segments}

Segment(j) == [owner |-> j, task |-> seg[j]]

ChainTypeOK ==
  /\ job \in [Extends -> {"none", "running", "done", "error"}]
  /\ at \in [Extends -> {"none", "working", "uploaded", "waiting", "over"}]
  /\ seg \in [Extends -> 1..Segments + 1]
  /\ frames \in [Files -> [owner : Extends, task : 1..Segments] \cup {NoFrame}]

ChainInit ==
  /\ job = [j \in Extends |-> "none"]
  /\ at = [j \in Extends |-> "none"]
  /\ seg = [j \in Extends |-> 1]
  /\ frames = [f \in Files |-> NoFrame]

To(j, place) == at' = [at EXCEPT ![j] = place]
Becomes(j, what) == job' = [job EXCEPT ![j] = what]

----------------------------------------------------------------------------
PostExtend_Queued(j) ==
  /\ job[j] = "none"
  /\ Becomes(j, "queued")
  /\ To(j, "working")
  /\ UNCHANGED <<seg, frames, queue, rendered>>

PostExtend(j) ==
  /\ job[j] = "none"
  /\ Becomes(j, "running")
  /\ To(j, "working")
  /\ UNCHANGED <<seg, frames, queue, rendered>>

\* _last_frame of the segment before, and _upload.
UploadFrame(j) ==
  /\ at[j] = "working" /\ seg[j] \in 2..Segments
  /\ frames' = [frames EXCEPT ![FileName(j, seg[j])] = [owner |-> j, task |-> seg[j] - 1]]
  /\ To(j, "uploaded")
  /\ UNCHANGED <<job, seg, queue, rendered>>

\* The first segment is made from the text alone.
Sends(j) ==
  /\ at[j] = "uploaded" \/ (at[j] = "working" /\ seg[j] = 1)
  /\ queue' = Append(queue, Segment(j))

SendSegment(j) ==
  /\ Sends(j)
  /\ To(j, "waiting")
  /\ UNCHANGED <<job, seg, frames, rendered>>

\* _wait finds the prompt completed.
CollectSegment(j) ==
  /\ at[j] = "waiting"
  /\ \E e \in rendered : e.prompt = Segment(j) /\ e.ok
  /\ seg' = [seg EXCEPT ![j] = @ + 1]
  /\ To(j, "working")
  /\ UNCHANGED <<job, frames, queue, rendered>>

JoinSegments(j) ==
  /\ at[j] = "working" /\ seg[j] > Segments
  /\ Becomes(j, "done")
  /\ To(j, "over")
  /\ UNCHANGED <<seg, frames, queue, rendered>>

\* Anything that raises ends the job: a failed render, ffmpeg, one answer of
\* ComfyUI that does not come, SEG_TIMEOUT.  A prompt that is queued stays queued.
ChainFails(j) ==
  /\ at[j] \notin {"none", "over"}
  /\ Sends(j) \/ UNCHANGED queue
  /\ Becomes(j, "error")
  /\ To(j, "over")
  /\ UNCHANGED <<seg, frames, rendered>>

\* ComfyUI: it reads a segment's frame when it gets to the prompt.
RenderSegment ==
  /\ queue # <<>> /\ Head(queue).owner \in Extends
  /\ \E good \in BOOLEAN :
       LET p == Head(queue)
           from == IF p.task = 1 THEN NoFrame ELSE frames[FileName(p.owner, p.task)]
       IN  rendered' = rendered \cup {[prompt |-> p, image |-> from, ok |-> good]}
  /\ queue' = Tail(queue)
  /\ UNCHANGED chain

----------------------------------------------------------------------------
Chain(j) ==
  \/ UploadFrame(j) \/ SendSegment(j) \/ CollectSegment(j) \/ JoinSegments(j) \/ ChainFails(j)

ChainNext == (\E j \in Extends : PostExtend(j) \/ Chain(j)) \/ RenderSegment

----------------------------------------------------------------------------
\* "image->video conditioned on the PREVIOUS segment's last frame": of the same
\* clip, although several jobs share ComfyUI's input directory and its queue.
ContinuesItself ==
  \A e \in rendered :
    e.prompt.owner \in Extends /\ e.prompt.task > 1
      => e.image = [owner |-> e.prompt.owner, task |-> e.prompt.task - 1]

\* A clip is done when every segment of it has been rendered.
DoneIsComplete ==
  \A j \in Extends : job[j] = "done"
    => \A i \in 1..Segments : \E e \in rendered : e.prompt = [owner |-> j, task |-> i] /\ e.ok
=============================================================================
