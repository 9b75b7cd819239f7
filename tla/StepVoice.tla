------------------------------- MODULE StepVoice -------------------------------
(***************************************************************************)
(* The premium voice service (services/studio/step-voice/server.py): a     *)
(* model that the first call loads onto GPU 1, that an idle watch or a     *)
(* POST /unload takes off again, and that calls use while that happens.    *)
(*                                                                         *)
(* Calls and unloads run on the threads of an executor, the idle watch is  *)
(* a thread of its own.  Only a load holds _load_lock for longer than a    *)
(* step.  An engine, and an encoder, is named by the call that loaded it;  *)
(* one that no variable refers to any more is off the GPU.                 *)
(***************************************************************************)

CONSTANTS
  Calls,   \* the calls of POST /clone and /edit
  NoCall   \* None

VARIABLES
  engine,     \* _engine
  encoder,    \* _encoder
  load_lock,  \* who loads, under _load_lock
  call,       \* where each call is
  eng,        \* the call's own engine
  last_used,  \* _last_used: 0.0, within IDLE_UNLOAD_S, or longer ago
  watch       \* the idle watch: asleep, or about to call _unload

voice == <<engine, encoder, load_lock, call, eng, last_used, watch>>

Using == {"loaded", "working"}

VoiceTypeOK ==
  /\ {engine, encoder, load_lock} \subseteq Calls \cup {NoCall}
  /\ call \in [Calls -> {"new", "encoding", "loading", "over"} \cup Using]
  /\ eng \in [Calls -> Calls \cup {NoCall}]
  /\ last_used \in {"never", "recently", "long ago"}
  /\ watch \in {"asleep", "unloading"}

VoiceInit ==
  /\ engine = NoCall /\ encoder = NoCall /\ load_lock = NoCall
  /\ call = [c \in Calls |-> "new"]
  /\ eng = [c \in Calls |-> NoCall]
  /\ last_used = "never"
  /\ watch = "asleep"

Moves(c, to) == call' = [call EXCEPT ![c] = to]

----------------------------------------------------------------------------
(* _ensure_loaded and _load.                                               *)

\* The model is there, and _load returns it.
FindsLoaded(c) ==
  /\ call[c] = "new"
  /\ load_lock = NoCall /\ engine # NoCall
  /\ eng' = [eng EXCEPT ![c] = engine]
  /\ Moves(c, "loaded")
  /\ UNCHANGED <<engine, encoder, load_lock, last_used, watch>>

BeginsLoad(c) ==
  /\ call[c] = "new"
  /\ load_lock = NoCall /\ engine = NoCall
  /\ load_lock' = c
  /\ Moves(c, "encoding")
  /\ UNCHANGED <<engine, encoder, eng, last_used, watch>>

EncoderLoaded(c) ==
  /\ call[c] = "encoding"
  /\ encoder' = c
  /\ Moves(c, "loading")
  /\ UNCHANGED <<engine, load_lock, eng, last_used, watch>>

EngineLoaded(c) ==
  /\ call[c] = "loading"
  /\ engine' = c
  /\ eng' = [eng EXCEPT ![c] = c]
  /\ load_lock' = NoCall
  /\ Moves(c, "loaded")
  /\ UNCHANGED <<encoder, last_used, watch>>

\* Either half may raise (no memory, no file): an encoder stays where it is.
LoadFails(c) ==
  /\ call[c] \in {"encoding", "loading"}
  /\ load_lock' = NoCall
  /\ Moves(c, "over")
  /\ UNCHANGED <<engine, encoder, eng, last_used, watch>>

Stamp_Forgotten(c) ==
  /\ call[c] = "loaded"
  /\ Moves(c, "working")
  /\ UNCHANGED <<engine, encoder, load_lock, eng, last_used, watch>>

Stamp_ReadsGlobal(c) ==
  /\ call[c] = "loaded"
  /\ last_used' = "recently"
  /\ eng' = [eng EXCEPT ![c] = engine]
  /\ Moves(c, "working")
  /\ UNCHANGED <<engine, encoder, load_lock, watch>>

\* The idle clock is set once the lock has been released.
Stamp(c) ==
  /\ call[c] = "loaded"
  /\ last_used' = "recently"
  /\ Moves(c, "working")
  /\ UNCHANGED <<engine, encoder, load_lock, eng, watch>>

\* The call speaks, or raises, with the engine it was given.
Ends(c) ==
  /\ call[c] = "working"
  /\ eng' = [eng EXCEPT ![c] = NoCall]
  /\ Moves(c, "over")
  /\ UNCHANGED <<engine, encoder, load_lock, last_used, watch>>

----------------------------------------------------------------------------
(* _unload and _idle_watch.                                                *)

\* _unload: the globals are reset, whoever uses what they refer to.
Drop ==
  /\ load_lock = NoCall
  /\ engine' = NoCall /\ encoder' = NoCall
  /\ UNCHANGED <<load_lock, call, eng, last_used>>

Unload == Drop /\ UNCHANGED watch

\* IDLE_UNLOAD_S pass after the last use.
Ages ==
  /\ last_used = "recently"
  /\ last_used' = "long ago"
  /\ UNCHANGED <<engine, encoder, load_lock, call, eng, watch>>

\* It looks without the lock ...
WatchDecides ==
  /\ watch = "asleep"
  /\ engine # NoCall /\ last_used = "long ago"
  /\ watch' = "unloading"
  /\ UNCHANGED <<engine, encoder, load_lock, call, eng, last_used>>

\* ... and does not look again.
WatchUnloads == watch = "unloading" /\ Drop /\ watch' = "asleep"

----------------------------------------------------------------------------
Call(c) ==
  \/ FindsLoaded(c) \/ BeginsLoad(c) \/ EncoderLoaded(c) \/ EngineLoaded(c) \/ LoadFails(c)
  \/ Stamp(c) \/ Ends(c)

IdleWatch == Ages \/ WatchDecides \/ WatchUnloads

VoiceNext == (\E c \in Calls : Call(c)) \/ IdleWatch \/ Unload

VoiceSpec == VoiceInit /\ [][VoiceNext]_voice

----------------------------------------------------------------------------
(* Safety.                                                                 *)

\* What GPU 1 holds: the engine the service knows of, and the engines of the
\* calls that were given one before it was unloaded.
Resident == ({engine} \cup {eng[c] : c \in Calls}) \ {NoCall}

\* A call that is past _ensure_loaded has an engine to speak with, and keeps it
\* through the unloads of the idle watch and of the video lanes.
CallHasEngine == \A c \in Calls : call[c] \in Using => eng[c] # NoCall

\* The engine the service knows of has the encoder it was built with: no unload
\* comes between the two halves of a load.
LoadedTogether == engine # NoCall => encoder = engine

----------------------------------------------------------------------------
(* What the repository says, and the code does not keep in every case.     *)

\* "unload the model after IDLE_UNLOAD_S of inactivity": never while a call is
\* served.
UnloadsWhenIdle ==
  [][ watch = "unloading" /\ watch' = "asleep"
        => \A c \in Calls : call[c] \notin Using ]_voice

\* "Free the model from GPU": nothing is resident after an unload.
UnloadFrees ==
  [][ engine # NoCall /\ engine' = NoCall
        => \A c \in Calls : eng[c] = NoCall ]_voice

\* "serializes load/unload": GPU 1 never holds two engines.
OneEngine == \A d, e \in Resident : d = e
=============================================================================
