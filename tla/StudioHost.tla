------------------------------ MODULE StudioHost ------------------------------
(***************************************************************************)
(* The studio's services on one host: the production agent, the job        *)
(* service for long clips and the premium voice, around one ComfyUI and    *)
(* one GPU 1.                                                              *)
(*                                                                         *)
(* The long clips' prompts share ComfyUI's queue with the productions',    *)
(* and a production asks the voice service to unload before every video    *)
(* (production/ensure.py): a request that may fail, or take longer than    *)
(* the production waits for it and be served all the same.                 *)
(***************************************************************************)
EXTENDS StudioProduction

CONSTANTS
  Calls, NoCall,                          \* see StepVoice
  Extends, Segments, OwnNames, NoFrame,   \* see ExtendChain
  Parties     \* a bound: how many productions, long clips and voice calls there are
              \* in one behaviour, whichever of them they are

ASSUME HostAssumption ==
  /\ NoCall \notin Calls
  /\ Extends \cap Productions = {}
  /\ Segments \in Nat /\ Segments >= 2
  /\ OwnNames \in BOOLEAN
  /\ Parties \in Nat

VARIABLES
  engine, encoder, load_lock, call, eng, last_used, watch,   \* StepVoice
  job, at, seg, frames,                                      \* ExtendChain
  asked,    \* the task each production has last asked for an unload for
  unloads,  \* the unloads the voice service has still to serve
  unloaded  \* history: each unload served, with the calls that were over then

Voice == INSTANCE StepVoice
Clips == INSTANCE ExtendChain

voice == <<engine, encoder, load_lock, call, eng, last_used, watch>>
chain == <<job, at, seg, frames>>
evictions == <<asked, unloads, unloaded>>
hostVars == <<vars, voice, chain, evictions>>

HostTypeOK ==
  /\ Voice!VoiceTypeOK
  /\ Clips!ChainTypeOK
  /\ asked \in [Productions -> Nat]
  /\ unloads \subseteq Prompt
  /\ unloaded \subseteq [video : Prompt, over : SUBSET Calls]

HostInit ==
  /\ Init /\ Voice!VoiceInit /\ Clips!ChainInit
  /\ asked = [p \in Productions |-> 0]
  /\ unloads = {}
  /\ unloaded = {}

Begun ==
  {r \in Requests : req[r] # "new"} \cup {k \in Clis : stage[k] # "idle"}
    \cup {j \in Extends : job[j] # "none"} \cup {c \in Calls : call[c] # "new"}

\* A party that has not begun yet may begin.
Fits(one) == one \in Begun \/ Cardinality(Begun) < Parties

Video == {"i2v", "t2v"}
OverCalls == {c \in Calls : call[c] = "over"}

----------------------------------------------------------------------------
(* ensure_lane.                                                            *)

\* _evict_voice: the request is sent, or nobody answers.
EvictVoice(p) ==
  /\ stage[p] = "working" /\ HasTask(p, Video)
  /\ asked[p] # pos[p]
  /\ asked' = [asked EXCEPT ![p] = pos[p]]
  /\ unloads' = unloads \cup {Current(p)} \/ UNCHANGED unloads
  /\ UNCHANGED <<vars, voice, chain, unloaded>>

Unload_UnlessBusy(u) ==
  /\ u \in unloads
  /\ load_lock = NoCall
  /\ IF \E c \in Calls : call[c] \in Voice!Using
     THEN UNCHANGED voice
     ELSE Voice!Unload
  /\ unloads' = unloads \ {u}
  /\ unloaded' = unloaded \cup {[video |-> u, over |-> OverCalls]}
  /\ UNCHANGED <<vars, chain, asked>>

\* The voice service serves it, in time or not.
Unload(u) ==
  /\ u \in unloads
  /\ Voice!Unload
  /\ unloads' = unloads \ {u}
  /\ unloaded' = unloaded \cup {[video |-> u, over |-> OverCalls]}
  /\ UNCHANGED <<vars, chain, asked>>

\* The reply has come, or five seconds have passed: the production goes on.
Produces(p) ==
  /\ Work(p)
  /\ stage[p] = "working" /\ HasTask(p, Video) => asked[p] = pos[p]
  /\ UNCHANGED <<voice, chain, evictions>>

----------------------------------------------------------------------------
Posts(r) == Handler(r) /\ Fits(r) /\ UNCHANGED <<voice, chain, evictions>>

StartsCli(k) == StartCli(k) /\ Fits(k) /\ UNCHANGED <<voice, chain, evictions>>

RendersOwn == queue # <<>> /\ Head(queue).owner \in Productions /\ Render

\* ComfyUI, for the productions.
ServesProductions == (RendersOwn \/ Arrives) /\ UNCHANGED <<voice, chain, evictions>>

studio == <<jobs, stage, plan, pos, flock, image, late, strays>>

Extending(j) ==
  /\ Clips!PostExtend(j) \/ Clips!Chain(j)
  /\ Fits(j)
  /\ UNCHANGED <<studio, voice, evictions>>

RendersClip == Clips!RenderSegment /\ UNCHANGED <<studio, voice, evictions>>

Speaking(c) ==
  /\ Voice!Call(c)
  /\ Fits(c)
  /\ UNCHANGED <<vars, chain, evictions>>

Watching == Voice!IdleWatch /\ UNCHANGED <<vars, chain, evictions>>

HostNext ==
  \/ \E r \in Requests : Posts(r)
  \/ \E k \in Clis : StartsCli(k)
  \/ \E p \in Productions : EvictVoice(p) \/ Produces(p)
  \/ \E u \in unloads : Unload(u)
  \/ ServesProductions \/ RendersClip
  \/ \E j \in Extends : Extending(j)
  \/ \E c \in Calls : Speaking(c)
  \/ Watching

HostSpec == HostInit /\ [][HostNext]_hostVars

\* Threads run and their time-outs elapse; a call of the voice service ends, and
\* time passes for its watch.  Nothing is assumed of ComfyUI and of users.
FairHostSpec ==
  /\ HostSpec
  /\ \A j \in Extends : WF_hostVars(Clips!Chain(j) /\ UNCHANGED <<studio, voice, evictions>>)
  /\ \A c \in Calls :
       WF_hostVars(call[c] # "new" /\ Speaking(c))
  /\ WF_hostVars(Watching)

----------------------------------------------------------------------------
(* Safety.                                                                 *)

\* When the unload that a video was waiting for has been served, GPU 1 holds an
\* engine only because of a call that was not over at the time: one that uses
\* it, or has loaded it since.
VoiceGivesWay ==
  \A u \in unloaded : \A e \in Voice!Resident :
    \E c \in Calls \ u.over : eng[c] = e \/ c = e

ContinuesItself == Clips!ContinuesItself
DoneIsComplete == Clips!DoneIsComplete
CallHasEngine == Voice!CallHasEngine
LoadedTogether == Voice!LoadedTogether

(* Liveness.                                                               *)

\* An engine that nobody asks for any more is unloaded.
IdleIsFreed == \A e \in Calls : engine = e ~> engine # e

\* A job for a long clip ends, whatever ComfyUI does.
EveryClipEnds == \A j \in Extends : job[j] = "running" ~> job[j] \in {"done", "error"}

----------------------------------------------------------------------------
(* What the repository says, and the code does not keep in every case.     *)

\* "makes the voice/video mutex deterministic": GPU 1 holds no voice engine while
\* a video that has asked for its unload is with ComfyUI.
VoiceXorVideo ==
  \A i \in 1..Len(queue) :
    /\ queue[i].owner \in Productions
    /\ plan[queue[i].owner][queue[i].task] \in Video
    => Voice!Resident = {}

\* See StepVoice.
UnloadsWhenIdle == Voice!UnloadsWhenIdle
UnloadFrees == Voice!UnloadFrees
OneEngine == Voice!OneEngine

\* "the lazy service idle-unloads anyway": nor does an encoder stay for ever.
EncoderIsFreed == \A e \in Calls : encoder = e ~> encoder # e

\* "a host file-lock is enough to guarantee one production job at a time": nor
\* does anything else render beside a production.
NobodyElseInComfy ==
  \A i, j \in 1..Len(queue) : queue[i].owner = queue[j].owner
=============================================================================
